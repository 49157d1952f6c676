---------------------------- MODULE ClusterProofs ----------------------------
(***************************************************************************)
(* Proofs about module Cluster, for any slaves, any number of them, and    *)
(* whatever the order of their connections, requests and deaths: the       *)
(* barrier holds, no wake-up is lost, each shared queue has one header at  *)
(* its front; past the barrier each thread serves a slave of its own, the  *)
(* one sampler has ended before the plot, and what is plotted is whole.    *)
(***************************************************************************)
EXTENDS Cluster, FiniteSetTheorems, SequenceTheorems, TLAPS

\* What a scenario fixes.
LEMMA ScenarioFacts ==
  ASSUME scenario \in Scenarios
  PROVE  /\ IsFiniteSet(Slaves) /\ Slaves # {}
         /\ Quantity \in Nat \ {0}
         /\ Ids = 0..(Quantity - 1) /\ IsFiniteSet(Ids)
         /\ Tests \in Nat \ {0}
  <1>1. Slaves \in SUBSET Nodes /\ Slaves # {} /\ testRange \in BOOLEAN
    BY ScenarioAssumption DEF Slaves, testRange
  <1>2. IsFiniteSet(Slaves)  BY <1>1, NodesAssumption, FS_Subset
  <1>3. Quantity \in Nat  BY <1>2, FS_CardinalityType DEF Quantity
  <1>4. Quantity # 0  BY <1>1, <1>2, FS_EmptySet DEF Quantity
  <1>5. IsFiniteSet(Ids)  BY <1>3, FS_Interval DEF Ids
  <1>6. Tests \in Nat \ {0}  BY TestsAssumption DEF Tests
  <1> QED  BY <1>1, <1>2, <1>3, <1>4, <1>5, <1>6 DEF Ids

\* A step changes the scenario in nothing.
LEMMA Fixed ==
  ASSUME scenario' = scenario
  PROVE  /\ Slaves' = Slaves /\ Ids' = Ids /\ Quantity' = Quantity
         /\ Tests' = Tests /\ Script' = Script /\ testRange' = testRange
  BY DEF Slaves, Ids, Quantity, Tests, Script, Bodies, testRange

\* A token of the script is a token, and no request.
LEMMA ScriptTokens ==
  ASSUME scenario \in Scenarios
  PROVE  /\ Script \in Seq(Token)
         /\ Len(Script) > 0
         /\ \A n \in 1..Len(Script) : Script[n] \in Token /\ Script[n][1] # "CONNECT"
  <1> DEFINE Plain  == (TokenName \ {"CONNECT"}) \X Nat
             Start3 == <<<<"REPORT", 0>>, <<"NUL", 0>>, <<"ENV", 0>>>>
  <1>1. Tests \in Nat  BY ScenarioFacts
  <1>2. \A kind \in {"VALUES", "AVGS", "RESULTS"} : Bodies(kind) \in Seq(Plain)
    BY <1>1 DEF Bodies, TokenName
  <1>3. Start3 \in Seq(Plain) /\ Len(Start3) = 3
    BY DEF TokenName
  <1>4. Script = Start3 \o Bodies("VALUES") \o Bodies("AVGS") \o Bodies("RESULTS")
    BY DEF Script
  <1>5. Plain \subseteq Token /\ \A p \in Plain : p[1] # "CONNECT"
    BY DEF Token
  <1> HIDE DEF Plain, Start3
  <1>6. Script \in Seq(Plain) /\ Len(Script) > 0
    BY <1>2, <1>3, <1>4
  <1>7. \A n \in 1..Len(Script) : Script[n] \in Plain
    BY <1>6
  <1>8. Script \in Seq(Token)
    BY <1>5, <1>6
  <1> QED  BY <1>5, <1>6, <1>7, <1>8

-----------------------------------------------------------------------------
(* Types *)

LEMMA TypeInit == Init => TypeOK
  <1> SUFFICES ASSUME Init PROVE TypeOK
    OBVIOUS
  <1>1. scenario \in Scenarios  BY DEF Init
  <1>2. /\ Slaves # {} /\ Quantity \in Nat \ {0} /\ Ids = 0..(Quantity - 1)
        BY <1>1, ScenarioFacts
  <1>3. 0 \in Ids  BY <1>2
  <1>4. (CHOOSE s \in Slaves : TRUE) \in Slaves  BY <1>2
  <1>5. 1 \in 1..NSwitches  BY TestsAssumption
  <1>6. Len(Script) > 0  BY <1>1, ScriptTokens
  <1>7. /\ sock \in [Ids -> Slaves] /\ tpc \in [Ids -> ThreadPc]
        /\ id \in [Ids -> Ids] /\ first \in [Ids -> TokenName \cup {"none"}]
        /\ messageReceived \in [Ids -> Nat] /\ turn \in [Ids -> 1..NSwitches]
        /\ addHeader \in [Ids -> BOOLEAN]
    BY <1>3, <1>4, <1>5 DEF Init, ThreadPc
  <1>8. /\ queues \in [Shared -> Seq(Filed)]
        /\ spc \in [Slaves -> SlavePc] /\ toMaster \in [Slaves -> Seq(Token)]
        /\ sent \in [Slaves -> Nat] /\ start \in [Slaves -> BOOLEAN]
    BY DEF Init, SlavePc
  <1>9. \A s \in Slaves : spc[s] \notin {"spin", "dead"} => sent[s] < Len(Script)
    BY <1>6 DEF Init
  <1>10. /\ mpc = "accept" /\ index = 0 /\ param = 0 /\ connected = 0 /\ reported = 0
         /\ waiting = {} /\ plotLock = {} /\ snmp = "off" /\ samplers = 0 /\ snmpStop = FALSE
    BY DEF Init
  <1>11. index \in 0..Quantity /\ (mpc = "accept" => index < Quantity)
    BY <1>2, <1>10
  <1>12. param \in Ids /\ connected \in Nat /\ reported \in Nat /\ samplers \in Nat
    BY <1>3, <1>10
  <1> QED  BY <1>1, <1>7, <1>8, <1>9, <1>10, <1>11, <1>12 DEF TypeOK, MasterTypes, LocalTypes, StatusTypes, PlotTypes, SnmpTypes, SlaveTypes, ChannelTypes

LEMMA Moves ==
  ASSUME TypeOK, NEW t \in Ids, NEW there \in ThreadPc, Goto(t, there)
  PROVE  tpc' \in [Ids -> ThreadPc]
  BY DEF TypeOK, Goto

\* What a thread reads from.
LEMMA Receives ==
  ASSUME TypeOK, NEW t \in Ids, Receive(t)
  PROVE  /\ Conn(t) \in Slaves
         /\ toMaster' \in [Slaves -> Seq(Token)]
         /\ Head(toMaster[Conn(t)]) \in Token
         /\ toMaster' = [toMaster EXCEPT ![Conn(t)] = Tail(@)]
  <1>1. Conn(t) \in Slaves  BY DEF Conn, TypeOK, MasterTypes, LocalTypes
  <1>2. toMaster[Conn(t)] \in Seq(Token) /\ toMaster[Conn(t)] # <<>>
    BY <1>1 DEF TypeOK, ChannelTypes, Receive
  <1> HIDE DEF Token
  <1>3. Tail(toMaster[Conn(t)]) \in Seq(Token) /\ Head(toMaster[Conn(t)]) \in Token
    BY <1>2
  <1> QED  BY <1>1, <1>3 DEF TypeOK, ChannelTypes, Receive

\* What the sampler thread does, and a wake-up for no reason.
Aside == Sampler \/ \E t \in Ids : SpuriousWakeUp(t)

\* It stays aside: the threads are where they were.
LEMMA AsideEffects ==
  ASSUME Aside
  PROVE  /\ UNCHANGED <<scenario, index, param, sock, tpc, localVars, connected, reported,
                       plotVars, samplers, snmpStop, slaveVars, toMaster, start>>
         /\ mpc' = mpc \/ mpc' = "exited"
         /\ snmp' = snmp \/ snmp' = "done"
  BY DEF Aside, Sampler, SamplerEnds, SamplerCrashes, SpuriousWakeUp, masterVars, snmpVars,
     statusVars

\* No step changes the scenario.
LEMMA ScenarioStep == [Next]_vars => scenario' = scenario
  <1>1. ASSUME NEW s \in Slaves, Slave(s) \/ Die(s) PROVE scenario' = scenario
    BY <1>1 DEF Slave, Die, Connect, SendConnect, ReadStart, Benchmark, SendReport, masterVars
  <1>2. ASSUME Main PROVE scenario' = scenario
    BY <1>2 DEF Main, Plot, Accept
  <1>3. ASSUME Aside PROVE scenario' = scenario
    BY <1>3, AsideEffects
  <1>4. ASSUME NEW t \in Ids, Thread(t) PROVE scenario' = scenario
    BY <1>4 DEF Thread, ReadParam, ReadFirst, ReadSecond, ConnectRequest, WakeUp, SendStart,
       Report, ReadEnvironment, ReadValues, LockPlot, ReadShared, StopSampler, JoinSampler,
       EndOfFile, masterVars
  <1> QED  BY <1>1, <1>2, <1>3, <1>4 DEF Next, Aside, vars, masterVars

\* What a step leaves alone keeps its types.
LEMMA Frame ==
  ASSUME TypeOK, scenario' = scenario
  PROVE  /\ scenario' \in Scenarios
         /\ UNCHANGED tpc => tpc' \in [Ids' -> ThreadPc]
         /\ UNCHANGED masterVars => MasterTypes'
         /\ UNCHANGED localVars => LocalTypes'
         /\ UNCHANGED statusVars => StatusTypes'
         /\ UNCHANGED plotVars => PlotTypes'
         /\ UNCHANGED snmpVars => SnmpTypes'
         /\ UNCHANGED slaveVars => SlaveTypes'
         /\ UNCHANGED <<toMaster, start>> => ChannelTypes'
  <1> USE Fixed
  <1>1. UNCHANGED masterVars => MasterTypes'  BY DEF TypeOK, MasterTypes, masterVars
  <1>2. UNCHANGED localVars => LocalTypes'  BY DEF TypeOK, LocalTypes, localVars
  <1>3. UNCHANGED statusVars => StatusTypes'  BY DEF TypeOK, StatusTypes, statusVars
  <1>4. UNCHANGED plotVars => PlotTypes'  BY DEF TypeOK, PlotTypes, plotVars
  <1>5. UNCHANGED snmpVars => SnmpTypes'  BY DEF TypeOK, SnmpTypes, snmpVars
  <1>6. UNCHANGED slaveVars => SlaveTypes'  BY DEF TypeOK, SlaveTypes, slaveVars
  <1>7. UNCHANGED <<toMaster, start>> => ChannelTypes'  BY DEF TypeOK, ChannelTypes
  <1>8. UNCHANGED tpc => tpc' \in [Ids' -> ThreadPc]  BY DEF TypeOK
  <1> QED  BY <1>1, <1>2, <1>3, <1>4, <1>5, <1>6, <1>7, <1>8 DEF TypeOK

\* The parts of an action's effect.
LEMMA Parts ==
  ASSUME scenario' \in Scenarios, tpc' \in [Ids' -> ThreadPc], MasterTypes', LocalTypes',
         StatusTypes', PlotTypes', SnmpTypes', SlaveTypes', ChannelTypes'
  PROVE  TypeOK'
  BY DEF TypeOK

\* What a slave sends next, and where the master files a new connection.
LEMMA SendsNext ==
  ASSUME TypeOK, NEW s \in Slaves, spc[s] = "report"
  PROVE  /\ sent[s] \in Nat /\ sent[s] < Len(Script) /\ Len(Script) \in Nat
         /\ Script[sent[s] + 1] \in Token /\ Script[sent[s] + 1][1] # "CONNECT"
  <1>1. /\ Script \in Seq(Token)
        /\ \A n \in 1..Len(Script) : Script[n] \in Token /\ Script[n][1] # "CONNECT"
    BY ScriptTokens DEF TypeOK
  <1>2. Len(Script) \in Nat
    <2> HIDE DEF Token
    <2> QED  BY <1>1
  <1>3. sent[s] \in Nat /\ sent[s] < Len(Script)
    BY DEF TypeOK, SlaveTypes
  <1>4. sent[s] + 1 \in 1..Len(Script)
    BY <1>2, <1>3
  <1> QED  BY <1>1, <1>2, <1>3, <1>4

LEMMA AcceptsNext ==
  ASSUME TypeOK, mpc = "accept"
  PROVE  index \in Ids /\ index + 1 \in 0..Quantity
  <1>1. Quantity \in Nat /\ Ids = 0..(Quantity - 1)
    BY ScenarioFacts DEF TypeOK
  <1>2. index \in 0..Quantity /\ index < Quantity
    BY DEF TypeOK, MasterTypes
  <1> QED  BY <1>1, <1>2

LEMMA TypeConnect == ASSUME TypeOK, NEW s \in Slaves, Connect(s) PROVE TypeOK'
  <1>1. scenario' = scenario  BY DEF Connect, masterVars
  <1>2. SlaveTypes'
    BY <1>1, Fixed DEF TypeOK, SlaveTypes, SlaveGoto, SlavePc, Connect
  <1> QED
    BY <1>1, <1>2, Frame, Parts DEF Connect, masterVars, localVars, statusVars, plotVars, snmpVars, slaveVars

LEMMA TypeSendConnect == ASSUME TypeOK, NEW s \in Slaves, SendConnect(s) PROVE TypeOK'
  <1>1. scenario' = scenario  BY DEF SendConnect, masterVars
  <1>2. SlaveTypes'
    BY <1>1, Fixed DEF TypeOK, SlaveTypes, SlaveGoto, SlavePc, SendConnect
  <1>3. ChannelTypes'
    <2>1. <<<<"CONNECT", 0>>, <<"NUL", 0>>>> \in Seq(Token)  BY DEF Token, TokenName
    <2>2. toMaster[s] \in Seq(Token)  BY DEF TypeOK, ChannelTypes
    <2> HIDE DEF Token
    <2>3. toMaster[s] \o <<<<"CONNECT", 0>>, <<"NUL", 0>>>> \in Seq(Token)  BY <2>1, <2>2
    <2> QED  BY <1>1, <2>3, Fixed DEF TypeOK, ChannelTypes, SendConnect
  <1> QED
    BY <1>1, <1>2, <1>3, Frame, Parts DEF SendConnect, masterVars, localVars, statusVars, plotVars, snmpVars, slaveVars

LEMMA TypeReadStart == ASSUME TypeOK, NEW s \in Slaves, ReadStart(s) PROVE TypeOK'
  <1>1. scenario' = scenario  BY DEF ReadStart, masterVars
  <1>2. SlaveTypes'
    BY <1>1, Fixed DEF TypeOK, SlaveTypes, SlaveGoto, SlavePc, ReadStart
  <1> QED
    BY <1>1, <1>2, Frame, Parts DEF ReadStart, masterVars, localVars, statusVars, plotVars, snmpVars, slaveVars

LEMMA TypeBenchmark == ASSUME TypeOK, NEW s \in Slaves, Benchmark(s) PROVE TypeOK'
  <1>1. scenario' = scenario  BY DEF Benchmark, masterVars
  <1>2. SlaveTypes'
    BY <1>1, Fixed DEF TypeOK, SlaveTypes, SlaveGoto, SlavePc, Benchmark
  <1> QED
    BY <1>1, <1>2, Frame, Parts DEF Benchmark, masterVars, localVars, statusVars, plotVars, snmpVars, slaveVars

LEMMA TypeSendReport == ASSUME TypeOK, NEW s \in Slaves, SendReport(s) PROVE TypeOK'
  <1>1. scenario' = scenario  BY DEF SendReport, masterVars
  <1>2. SlaveTypes'
    <2>1. sent[s] \in Nat /\ sent[s] < Len(Script) /\ Len(Script) \in Nat
      BY SendsNext DEF SendReport
    <2>2. sent' \in [Slaves -> Nat] /\ spc' \in [Slaves -> SlavePc]
      BY <2>1 DEF TypeOK, SlaveTypes, SendReport, SlaveGoto, SlavePc
    <2>3. ASSUME NEW r \in Slaves, spc'[r] \notin {"spin", "dead"} PROVE sent'[r] < Len(Script)
      BY <2>1, <2>3 DEF TypeOK, SlaveTypes, SendReport, SlaveGoto
    <2> QED  BY <1>1, <2>2, <2>3, Fixed DEF SlaveTypes
  <1>3. ChannelTypes'
    <2>2. Script[sent[s] + 1] \in Token
      BY SendsNext DEF SendReport
    <2>3. toMaster[s] \in Seq(Token)  BY DEF TypeOK, ChannelTypes
    <2> HIDE DEF Token
    <2>4. Append(toMaster[s], Script[sent[s] + 1]) \in Seq(Token)  BY <2>2, <2>3
    <2> QED  BY <1>1, <2>4, Fixed DEF TypeOK, ChannelTypes, SendReport
  <1> QED
    BY <1>1, <1>2, <1>3, Frame, Parts DEF SendReport, masterVars, localVars, statusVars, plotVars, snmpVars, slaveVars

LEMMA TypeDie == ASSUME TypeOK, NEW s \in Slaves, Die(s) PROVE TypeOK'
  <1>1. scenario' = scenario  BY DEF Die, masterVars
  <1>2. SlaveTypes'
    BY <1>1, Fixed DEF TypeOK, SlaveTypes, SlaveGoto, SlavePc, Die
  <1> QED
    BY <1>1, <1>2, Frame, Parts DEF Die, masterVars, localVars, statusVars, plotVars, snmpVars, slaveVars

LEMMA TypeAccept == ASSUME TypeOK, NEW s \in Slaves, Accept(s) PROVE TypeOK'
  <1>1. scenario' = scenario  BY DEF Accept, masterVars
  <1>2. tpc' \in [Ids' -> ThreadPc]
    <2>1. index \in Ids
      BY AcceptsNext DEF Accept
    <2> QED  BY <1>1, <2>1, Fixed DEF TypeOK, Goto, ThreadPc, Accept
  <1>3. MasterTypes'
    <2>1. index \in Ids /\ index + 1 \in 0..Quantity
      BY AcceptsNext DEF Accept
    <2>2. /\ mpc' \in {"accept", "join"} /\ index' = index + 1 /\ param' = index
          /\ (mpc' = "accept" => index + 1 < Quantity)
          /\ sock' = [sock EXCEPT ![index] = s]
      BY DEF Accept
    <2>3. sock' \in [Ids -> Slaves]
      BY <2>1, <2>2 DEF TypeOK, MasterTypes
    <2> QED  BY <1>1, <2>1, <2>2, <2>3, Fixed DEF MasterTypes
  <1> QED
    BY <1>1, <1>2, <1>3, Frame, Parts DEF Accept, masterVars, localVars, statusVars, plotVars, snmpVars, slaveVars

LEMMA TypePlot == ASSUME TypeOK, Plot PROVE TypeOK'
  <1>1. scenario' = scenario  BY DEF Plot
  <1>2. MasterTypes'
    BY <1>1, Fixed DEF TypeOK, MasterTypes, Plot
  <1> QED
    BY <1>1, <1>2, Frame, Parts DEF Plot, masterVars, localVars, statusVars, plotVars, snmpVars, slaveVars

LEMMA TypeAside == ASSUME TypeOK, Aside PROVE TypeOK'
  <1>1. scenario' = scenario  BY AsideEffects
  <1>2. MasterTypes'
    BY <1>1, Fixed, AsideEffects DEF TypeOK, MasterTypes
  <1>3. StatusTypes'
    <2>1. waiting' \subseteq Ids
      BY DEF Aside, Sampler, SamplerEnds, SamplerCrashes, SpuriousWakeUp, statusVars, TypeOK,
         StatusTypes
    <2> QED  BY <1>1, <2>1, Fixed, AsideEffects DEF TypeOK, StatusTypes
  <1>4. SnmpTypes'
    BY AsideEffects DEF TypeOK, SnmpTypes
  <1>5. UNCHANGED <<tpc, localVars, plotVars, slaveVars, toMaster, start>>
    BY AsideEffects
  <1> QED
    BY <1>1, <1>2, <1>3, <1>4, <1>5, Frame, Parts DEF localVars, plotVars, slaveVars

LEMMA TypeReadParam == ASSUME TypeOK, NEW t \in Ids, ReadParam(t) PROVE TypeOK'
  <1>1. scenario' = scenario  BY DEF ReadParam, masterVars
  <1>2. tpc' \in [Ids' -> ThreadPc]
    BY <1>1, Fixed DEF TypeOK, Goto, ThreadPc, ReadParam
  <1>3. LocalTypes'
    BY <1>1, Fixed DEF TypeOK, LocalTypes, MasterTypes, ReadParam
  <1> QED
    BY <1>1, <1>2, <1>3, Frame, Parts DEF ReadParam, masterVars, localVars, statusVars, plotVars, snmpVars, slaveVars

LEMMA TypeReadFirst == ASSUME TypeOK, NEW t \in Ids, ReadFirst(t) PROVE TypeOK'
  <1>1. scenario' = scenario  BY DEF ReadFirst, masterVars
  <1>2. tpc' \in [Ids' -> ThreadPc]
    BY <1>1, Fixed DEF TypeOK, Goto, ThreadPc, ReadFirst
  <1>3. LocalTypes'
    <2>1. Head(toMaster[Conn(t)])[1] \in TokenName
      BY Receives DEF ReadFirst, Token
    <2> QED  BY <1>1, <2>1, Fixed DEF TypeOK, LocalTypes, ReadFirst
  <1>4. ChannelTypes'
    BY <1>1, Fixed, Receives DEF TypeOK, ChannelTypes, ReadFirst
  <1> QED
    BY <1>1, <1>2, <1>3, <1>4, Frame, Parts DEF ReadFirst, masterVars, localVars, statusVars, plotVars, snmpVars, slaveVars

LEMMA TypeReadSecond == ASSUME TypeOK, NEW t \in Ids, ReadSecond(t) PROVE TypeOK'
  <1>1. scenario' = scenario  BY DEF ReadSecond, masterVars
  <1>2. tpc' \in [Ids' -> ThreadPc]
    BY <1>1, Fixed DEF TypeOK, Goto, ThreadPc, ReadSecond
  <1>3. ChannelTypes'
    BY <1>1, Fixed, Receives DEF TypeOK, ChannelTypes, ReadSecond
  <1> QED
    BY <1>1, <1>2, <1>3, Frame, Parts DEF ReadSecond, masterVars, localVars, statusVars, plotVars, snmpVars, slaveVars

LEMMA TypeConnectRequest == ASSUME TypeOK, NEW t \in Ids, ConnectRequest(t) PROVE TypeOK'
  <1>1. scenario' = scenario  BY DEF ConnectRequest, masterVars
  <1>2. tpc' \in [Ids' -> ThreadPc]
    BY <1>1, Fixed DEF TypeOK, Goto, ThreadPc, ConnectRequest, PastBarrier
  <1>3. StatusTypes'
    BY <1>1, Fixed DEF TypeOK, StatusTypes, ConnectRequest
  <1>4. SnmpTypes'
    BY <1>1, Fixed DEF TypeOK, SnmpTypes, ConnectRequest, PastBarrier
  <1> QED
    BY <1>1, <1>2, <1>3, <1>4, Frame, Parts DEF ConnectRequest, masterVars, localVars, statusVars, plotVars, snmpVars, slaveVars

LEMMA TypeWakeUp == ASSUME TypeOK, NEW t \in Ids, WakeUp(t) PROVE TypeOK'
  <1>1. scenario' = scenario  BY DEF WakeUp, masterVars
  <1>2. tpc' \in [Ids' -> ThreadPc]
    BY <1>1, Fixed DEF TypeOK, Goto, ThreadPc, WakeUp, PastBarrier
  <1>3. StatusTypes'
    BY <1>1, Fixed DEF TypeOK, StatusTypes, WakeUp
  <1>4. SnmpTypes'
    BY <1>1, Fixed DEF TypeOK, SnmpTypes, WakeUp, PastBarrier
  <1> QED
    BY <1>1, <1>2, <1>3, <1>4, Frame, Parts DEF WakeUp, masterVars, localVars, statusVars, plotVars, snmpVars, slaveVars

LEMMA TypeSendStart == ASSUME TypeOK, NEW t \in Ids, SendStart(t) PROVE TypeOK'
  <1>1. scenario' = scenario  BY DEF SendStart, masterVars
  <1>2. tpc' \in [Ids' -> ThreadPc]
    BY <1>1, Fixed DEF TypeOK, Goto, ThreadPc, SendStart
  <1>3. LocalTypes'
    <2>1. /\ messageReceived' = [messageReceived EXCEPT ![t] = @ + 1]
          /\ UNCHANGED <<id, first, turn, addHeader>>
      BY DEF SendStart
    <2>2. messageReceived' \in [Ids -> Nat]
      BY <2>1 DEF TypeOK, LocalTypes
    <2> QED  BY <1>1, <2>1, <2>2, Fixed DEF TypeOK, LocalTypes
  <1>4. ChannelTypes'
    BY <1>1, Fixed, Receives DEF TypeOK, ChannelTypes, SendStart
  <1> QED
    BY <1>1, <1>2, <1>3, <1>4, Frame, Parts DEF SendStart, masterVars, localVars, statusVars, plotVars, snmpVars, slaveVars

LEMMA TypeReport == ASSUME TypeOK, NEW t \in Ids, Report(t) PROVE TypeOK'
  <1>1. scenario' = scenario  BY DEF Report, masterVars
  <1>2. tpc' \in [Ids' -> ThreadPc]
    BY <1>1, Fixed DEF TypeOK, Goto, ThreadPc, Report
  <1>3. StatusTypes'
    BY <1>1, Fixed DEF TypeOK, StatusTypes, Report
  <1> QED
    BY <1>1, <1>2, <1>3, Frame, Parts DEF Report, masterVars, localVars, statusVars, plotVars, snmpVars, slaveVars

LEMMA TypeReadEnvironment == ASSUME TypeOK, NEW t \in Ids, ReadEnvironment(t) PROVE TypeOK'
  <1>1. scenario' = scenario  BY DEF ReadEnvironment, masterVars
  <1>2. tpc' \in [Ids' -> ThreadPc]
    BY <1>1, Fixed DEF TypeOK, Goto, ThreadPc, ReadEnvironment
  <1>3. LocalTypes'
    <2>1. 1 \in 1..NSwitches  BY TestsAssumption
    <2> QED  BY <1>1, <2>1, Fixed DEF TypeOK, LocalTypes, ReadEnvironment
  <1>4. ChannelTypes'
    BY <1>1, Fixed, Receives DEF TypeOK, ChannelTypes, ReadEnvironment
  <1> QED
    BY <1>1, <1>2, <1>3, <1>4, Frame, Parts DEF ReadEnvironment, masterVars, localVars, statusVars, plotVars, snmpVars, slaveVars

LEMMA TypeReadValues == ASSUME TypeOK, NEW t \in Ids, ReadValues(t) PROVE TypeOK'
  <1>1. scenario' = scenario  BY DEF ReadValues, masterVars
  <1>2. tpc' \in [Ids' -> ThreadPc]
    BY <1>1, Fixed DEF TypeOK, Goto, ThreadPc, ReadValues
  <1>3. ChannelTypes'
    BY <1>1, Fixed, Receives DEF TypeOK, ChannelTypes, ReadValues
  <1> QED
    BY <1>1, <1>2, <1>3, Frame, Parts DEF ReadValues, masterVars, localVars, statusVars, plotVars, snmpVars, slaveVars

LEMMA TypeStopSampler == ASSUME TypeOK, NEW t \in Ids, StopSampler(t) PROVE TypeOK'
  <1>1. scenario' = scenario  BY DEF StopSampler, masterVars
  <1>2. tpc' \in [Ids' -> ThreadPc]
    BY <1>1, Fixed DEF TypeOK, Goto, ThreadPc, StopSampler
  <1>3. SnmpTypes'
    BY <1>1, Fixed DEF TypeOK, SnmpTypes, StopSampler
  <1> QED
    BY <1>1, <1>2, <1>3, Frame, Parts DEF StopSampler, masterVars, localVars, statusVars, plotVars, snmpVars, slaveVars

LEMMA TypeJoinSampler == ASSUME TypeOK, NEW t \in Ids, JoinSampler(t) PROVE TypeOK'
  <1>1. scenario' = scenario  BY DEF JoinSampler, masterVars
  <1>2. tpc' \in [Ids' -> ThreadPc]
    BY <1>1, Fixed DEF TypeOK, Goto, ThreadPc, JoinSampler
  <1> QED
    BY <1>1, <1>2, Frame, Parts DEF JoinSampler, masterVars, localVars, statusVars, plotVars, snmpVars, slaveVars

LEMMA TypeEndOfFile == ASSUME TypeOK, NEW t \in Ids, EndOfFile(t) PROVE TypeOK'
  <1>1. scenario' = scenario  BY DEF EndOfFile, masterVars
  <1>2. MasterTypes'
    BY <1>1, Fixed, ScenarioFacts DEF TypeOK, MasterTypes, EndOfFile
  <1> QED
    BY <1>1, <1>2, Frame, Parts DEF EndOfFile, masterVars, localVars, statusVars, plotVars, snmpVars, slaveVars

LEMMA TypeLockPlot ==
  ASSUME TypeOK, NEW t \in Ids, NEW kind \in Shared, LockPlot(t, kind)
  PROVE  TypeOK'
  <1>1. scenario' = scenario  BY DEF LockPlot, masterVars
  <1>2. tpc' \in [Ids' -> ThreadPc]
    BY <1>1, Fixed DEF TypeOK, Goto, ThreadPc, LockPlot, Shared
  <1>3. LocalTypes'
    <2>1. addHeader' \in [Ids -> BOOLEAN] /\ UNCHANGED <<id, first, messageReceived, turn>>
      BY DEF TypeOK, LocalTypes, LockPlot
    <2> QED  BY <1>1, <2>1, Fixed DEF TypeOK, LocalTypes
  <1>4. PlotTypes'
    BY <1>1, Fixed DEF TypeOK, PlotTypes, LockPlot
  <1> QED
    BY <1>1, <1>2, <1>3, <1>4, Frame, Parts DEF LockPlot, masterVars, statusVars, snmpVars, slaveVars

\* What ReadShared files is a header, if it is to be added, and a body.
LEMMA FiledTypes ==
  ASSUME TypeOK, NEW t \in Ids, NEW kind \in Shared, NEW h \in BOOLEAN,
         NEW token \in Token
  PROVE  LET header == IF h THEN <<<<"HEADER", 0, id[t]>>>> ELSE <<>>
         IN  /\ queues[kind] \o header \o <<<<token[1], token[2], id[t]>>>> \in Seq(Filed)
             /\ header \in Seq(Filed)
             /\ <<token[1], token[2], id[t]>> \in Filed
             /\ <<token[1], token[2], id[t]>>[1] # "HEADER"
  <1> DEFINE header == IF h THEN <<<<"HEADER", 0, id[t]>>>> ELSE <<>>
  <1>1. id[t] \in Nat
    BY ScenarioFacts DEF TypeOK, LocalTypes
  <1>2. PICK name \in TokenName, n \in Nat : token = <<name, n>>
    BY DEF Token
  <1>3. token[1] = name /\ token[2] = n
    BY <1>2
  <1>4. <<token[1], token[2], id[t]>> \in Filed
    BY <1>1, <1>2, <1>3 DEF Filed
  <1>5. <<"HEADER", 0, id[t]>> \in Filed
    BY <1>1 DEF Filed
  <1>6. queues[kind] \in Seq(Filed)
    BY DEF TypeOK, PlotTypes
  <1>7. header \in Seq(Filed)
    <2> HIDE DEF Filed
    <2> QED  BY <1>5
  <1>8. <<<<token[1], token[2], id[t]>>>> \in Seq(Filed)
    <2> HIDE DEF Filed
    <2> QED  BY <1>4
  <1>9. queues[kind] \o header \o <<<<token[1], token[2], id[t]>>>> \in Seq(Filed)
    <2> HIDE DEF Filed, header
    <2> QED  BY <1>6, <1>7, <1>8
  <1>10. <<token[1], token[2], id[t]>>[1] # "HEADER"
    BY <1>2, <1>3 DEF TokenName
  <1> QED  BY <1>4, <1>7, <1>9, <1>10

LEMMA TypeReadShared ==
  ASSUME TypeOK, NEW t \in Ids, NEW kind \in Shared, ReadShared(t, kind)
  PROVE  TypeOK'
  <1> DEFINE again == kind = "RESULTS" /\ testRange /\ turn[t] < NSwitches
             header == IF addHeader[t] THEN <<<<"HEADER", 0, id[t]>>>> ELSE <<>>
             token == Head(toMaster[Conn(t)])
             body == <<token[1], token[2], id[t]>>
  <1>1. scenario' = scenario  BY DEF ReadShared, masterVars
  <1>2. /\ Receive(t)
        /\ queues' = [queues EXCEPT ![kind] = @ \o header \o <<body>>]
        /\ plotLock' = plotLock \ {t}
        /\ turn' = IF again THEN [turn EXCEPT ![t] = @ + 1] ELSE turn
        /\ messageReceived' = IF kind = "AVGS" \/ again THEN messageReceived
                              ELSE [messageReceived EXCEPT ![t] = @ + 1]
        /\ UNCHANGED <<masterVars, id, first, addHeader, statusVars, snmpVars, slaveVars, start>>
    BY DEF ReadShared
  <1>3. tpc' \in [Ids' -> ThreadPc]
    <2>1. \E there \in ThreadPc : Goto(t, there)
      BY DEF ReadShared, ThreadPc
    <2> QED  BY <1>1, <2>1, Moves, Fixed
  <1>4. LocalTypes'
    <2>1. turn' \in [Ids -> 1..NSwitches]
      BY <1>2, TestsAssumption DEF TypeOK, LocalTypes
    <2>2. messageReceived' \in [Ids -> Nat]
      BY <1>2 DEF TypeOK, LocalTypes
    <2> QED  BY <1>1, <1>2, <2>1, <2>2, Fixed DEF TypeOK, LocalTypes
  <1>5. PlotTypes'
    <2>1. addHeader[t] \in BOOLEAN  BY DEF TypeOK, LocalTypes
    <2>2. token \in Token  BY <1>2, Receives
    <2>3. queues[kind] \o header \o <<body>> \in Seq(Filed)
      BY <2>1, <2>2, FiledTypes
    <2> HIDE DEF header, body
    <2>4. queues' \in [Shared -> Seq(Filed)]
      BY <1>2, <2>3 DEF TypeOK, PlotTypes
    <2>5. plotLock' \subseteq Ids
      BY <1>2 DEF TypeOK, PlotTypes
    <2> QED  BY <1>1, <2>4, <2>5, Fixed DEF PlotTypes
  <1>6. ChannelTypes'
    BY <1>1, <1>2, Fixed, Receives DEF TypeOK, ChannelTypes
  <1> QED
    BY <1>1, <1>2, <1>3, <1>4, <1>5, <1>6, Frame, Parts DEF masterVars, statusVars, snmpVars, slaveVars

LEMMA TypeStep == TypeOK /\ [Next]_vars => TypeOK'
  <1> SUFFICES ASSUME TypeOK, [Next]_vars PROVE TypeOK'
    OBVIOUS
  <1>1. ASSUME NEW s \in Slaves, Slave(s) \/ Die(s) PROVE TypeOK'
    BY <1>1, TypeConnect, TypeSendConnect, TypeReadStart, TypeBenchmark, TypeSendReport, TypeDie
    DEF Slave
  <1>2. ASSUME Main PROVE TypeOK'
    BY <1>2, TypePlot, TypeAccept DEF Main
  <1>3. ASSUME NEW t \in Ids, Thread(t) PROVE TypeOK'
    BY <1>3, TypeReadParam, TypeReadFirst, TypeReadSecond, TypeConnectRequest, TypeWakeUp,
       TypeSendStart, TypeReport, TypeReadEnvironment, TypeReadValues, TypeLockPlot,
       TypeReadShared, TypeStopSampler, TypeJoinSampler, TypeEndOfFile
    DEF Thread
  <1>4. ASSUME UNCHANGED vars PROVE TypeOK'
    BY <1>4, Frame, Parts
    DEF vars, masterVars, localVars, statusVars, plotVars, snmpVars, slaveVars
  <1> QED  BY <1>1, <1>2, <1>3, <1>4, TypeAside DEF Next, Aside

\* Every thread, queue and connection of the master has its type.
THEOREM TypeCorrect == Spec => []TypeOK
  <1> QED  BY TypeInit, TypeStep, PTL DEF Spec

-----------------------------------------------------------------------------
(* No wake-up is lost *)

\* Nothing but a request and a waiting thread touches the barrier's state, and
\* a wake-up for no reason only ends a wait.
LEMMA BarrierSteps ==
  [Next]_vars => \/ connected' = connected /\ waiting' \subseteq waiting
                 \/ \E t \in Ids : ConnectRequest(t) \/ WakeUp(t)
  <1>1. ASSUME NEW s \in Slaves, Slave(s) \/ Die(s) PROVE UNCHANGED <<connected, waiting>>
    BY <1>1 DEF Slave, Die, Connect, SendConnect, ReadStart, Benchmark, SendReport, statusVars
  <1>2. ASSUME Main \/ Sampler PROVE UNCHANGED <<connected, waiting>>
    BY <1>2 DEF Main, Plot, Accept, Sampler, SamplerEnds, SamplerCrashes, statusVars
  <1>3. ASSUME NEW t \in Ids, Thread(t)
        PROVE  ConnectRequest(t) \/ WakeUp(t) \/ UNCHANGED <<connected, waiting>>
    BY <1>3 DEF Thread, ReadParam, ReadFirst, ReadSecond, SendStart,
       Report, ReadEnvironment, ReadValues, LockPlot, ReadShared, StopSampler, JoinSampler,
       EndOfFile, statusVars
  <1>4. ASSUME NEW t \in Ids, SpuriousWakeUp(t)
        PROVE  connected' = connected /\ waiting' \subseteq waiting
    BY <1>4 DEF SpuriousWakeUp
  <1> QED  BY <1>1, <1>2, <1>3, <1>4 DEF Next, vars, statusVars

\* A thread goes to sleep only while a request is missing, one that was woken for
\* no reason too, and the last request wakes all (myserver.c:132-152).
THEOREM WakeUpsKept == Spec => []NoLostWakeUp
  <1> DEFINE Inv == TypeOK /\ NoLostWakeUp
  <1>1. Init => Inv
    <2>1. Init => waiting = {}  BY DEF Init
    <2> QED  BY <2>1, TypeInit DEF NoLostWakeUp
  <1>2. Inv /\ [Next]_vars => Inv'
    <2> SUFFICES ASSUME Inv, [Next]_vars PROVE NoLostWakeUp'
      BY TypeStep
    <2>1. Quantity' = Quantity /\ Quantity \in Nat /\ connected \in Nat
      BY ScenarioStep, Fixed, ScenarioFacts DEF TypeOK, StatusTypes
    <2>2. CASE connected' = connected /\ waiting' \subseteq waiting
      BY <2>1, <2>2 DEF NoLostWakeUp
    <2>3. ASSUME NEW t \in Ids, ConnectRequest(t) PROVE NoLostWakeUp'
      <3>1. connected' = connected + 1 /\ (connected + 1 < Quantity \/ waiting' = {})
        BY <2>3 DEF ConnectRequest
      <3> QED  BY <2>1, <3>1 DEF NoLostWakeUp
    <2>4. ASSUME NEW t \in Ids, WakeUp(t) PROVE NoLostWakeUp'
      <3>1. connected' = connected /\ (connected < Quantity \/ waiting' = waiting)
        BY <2>4 DEF WakeUp
      <3> QED  BY <2>1, <3>1 DEF NoLostWakeUp
    <2> QED  BY <2>2, <2>3, <2>4, BarrierSteps
  <1>3. Inv => NoLostWakeUp
    OBVIOUS
  <1> QED  BY <1>1, <1>2, <1>3, PTL DEF Spec

-----------------------------------------------------------------------------
(* The barrier.  Each slave asks once, and each request is in one place: on its *)
(* way, with a thread that has read it, or counted.                             *)

Asked   == {s \in Slaves : spc[s] \notin {"new", "open"}}
Pending == {s \in Slaves : toMaster[s] # <<>> /\ toMaster[s][1][1] = "CONNECT"}
Asking  == {t \in Ids : \/ tpc[t] = "connect"
                        \/ tpc[t] = "message2" /\ first[t] = "CONNECT"}

Counted == connected + Cardinality(Asking) + Cardinality(Pending) <= Cardinality(Asked)

\* A request is the first thing a slave sends.
RequestFirst ==
    /\ \A s \in Slaves : \A n \in 1..Len(toMaster[s]) : toMaster[s][n][1] = "CONNECT" => n = 1
    /\ \A s \in Slaves : spc[s] \in {"new", "open"} => toMaster[s] = <<>>

\* Who is past the barrier.
Past ==
    /\ \A t \in Ids : tpc[t] = "start" => connected >= Quantity
    /\ \A s \in Slaves : start[s] => connected >= Quantity

Meeting == TypeOK /\ RequestFirst /\ Counted /\ Past

LEMMA Finite ==
  ASSUME TypeOK
  PROVE  /\ IsFiniteSet(Asking) /\ IsFiniteSet(Pending) /\ IsFiniteSet(Asked)
         /\ {Cardinality(Asking), Cardinality(Pending), Cardinality(Asked)} \subseteq Nat
  <1>1. IsFiniteSet(Slaves) /\ IsFiniteSet(Ids)  BY ScenarioFacts DEF TypeOK
  <1>2. IsFiniteSet(Asking)  BY <1>1, FS_Subset DEF Asking
  <1>3. IsFiniteSet(Pending)  BY <1>1, FS_Subset DEF Pending
  <1>4. IsFiniteSet(Asked)  BY <1>1, FS_Subset DEF Asked
  <1> QED  BY <1>2, <1>3, <1>4, FS_CardinalityType

LEMMA FiniteNext ==
  ASSUME TypeOK, scenario' = scenario
  PROVE  /\ IsFiniteSet(Asking') /\ IsFiniteSet(Pending') /\ IsFiniteSet(Asked')
         /\ {Cardinality(Asking'), Cardinality(Pending'), Cardinality(Asked')} \subseteq Nat
  <1>1. IsFiniteSet(Slaves) /\ IsFiniteSet(Ids)  BY ScenarioFacts DEF TypeOK
  <1>2. Asking' \subseteq Ids /\ Pending' \subseteq Slaves /\ Asked' \subseteq Slaves
    BY Fixed DEF Asking, Pending, Asked
  <1>3. IsFiniteSet(Asking') /\ IsFiniteSet(Pending') /\ IsFiniteSet(Asked')
    BY <1>1, <1>2, FS_Subset
  <1> QED  BY <1>3, FS_CardinalityType

LEMMA MeetingInit == Init => Meeting
  <1> SUFFICES ASSUME Init PROVE Meeting
    OBVIOUS
  <1>1. TypeOK  BY TypeInit
  <1>2. /\ connected = 0 /\ \A s \in Slaves : toMaster[s] = <<>> /\ spc[s] = "new" /\ ~start[s]
        /\ \A t \in Ids : tpc[t] = "off"
    BY DEF Init
  <1>3. RequestFirst /\ Past
    BY <1>2 DEF RequestFirst, Past
  <1>4. Asking = {} /\ Pending = {} /\ Asked = {}
    BY <1>2 DEF Asking, Pending, Asked
  <1>5. Counted
    BY <1>2, <1>4, FS_EmptySet DEF Counted
  <1> QED  BY <1>1, <1>3, <1>5 DEF Meeting

\* Requests that go away, or arrive, and are not counted, keep the sum.
LEMMA Shrinks ==
  ASSUME TypeOK, scenario' = scenario, Counted, connected' = connected,
         Asking' \subseteq Asking, Pending' \subseteq Pending, Asked \subseteq Asked'
  PROVE  Counted'
  <1>1. /\ Cardinality(Asking') <= Cardinality(Asking)
        /\ Cardinality(Pending') <= Cardinality(Pending)
        /\ Cardinality(Asked) <= Cardinality(Asked')
    BY Finite, FiniteNext, FS_Subset
  <1>2. /\ Cardinality(Asking) \in Nat /\ Cardinality(Pending) \in Nat /\ Cardinality(Asked) \in Nat
        /\ Cardinality(Asking') \in Nat /\ Cardinality(Pending') \in Nat
        /\ Cardinality(Asked') \in Nat
    BY Finite, FiniteNext
  <1>3. connected \in Nat  BY DEF TypeOK, StatusTypes
  <1> QED  BY <1>1, <1>2, <1>3 DEF Counted

LEMMA Leaves ==
  ASSUME TypeOK, scenario' = scenario, NEW t \in Ids, NEW there, there \notin {"connect", "message2"},
         Goto(t, there), UNCHANGED first
  PROVE  Asking' \subseteq Asking
  BY Fixed DEF TypeOK, Goto, Asking

\* Reading takes the first token off a connection, and with it its request.
LEMMA ReceiveStep ==
  ASSUME TypeOK, RequestFirst, scenario' = scenario, NEW t \in Ids, Receive(t), UNCHANGED spc
  PROVE  /\ RequestFirst'
         /\ Pending' \subseteq Pending \ {Conn(t)}
         /\ Asked' = Asked
  <1>1. Conn(t) \in Slaves /\ toMaster' = [toMaster EXCEPT ![Conn(t)] = Tail(@)]
    BY Receives
  <1>2. toMaster[Conn(t)] \in Seq(Token) /\ toMaster[Conn(t)] # <<>>
    BY <1>1 DEF TypeOK, ChannelTypes, Receive
  <1>3. /\ Tail(toMaster[Conn(t)]) \in Seq(Token)
        /\ \A n \in 1..Len(Tail(toMaster[Conn(t)])) :
             /\ n + 1 \in 1..Len(toMaster[Conn(t)])
             /\ Tail(toMaster[Conn(t)])[n] = toMaster[Conn(t)][n + 1]
    <2> HIDE DEF Token
    <2> QED  BY <1>2
  <1>4. \A n \in 1..Len(Tail(toMaster[Conn(t)])) : Tail(toMaster[Conn(t)])[n][1] # "CONNECT"
    BY <1>1, <1>3 DEF RequestFirst
  <1>5. /\ toMaster'[Conn(t)] = Tail(toMaster[Conn(t)])
        /\ \A s \in Slaves \ {Conn(t)} : toMaster'[s] = toMaster[s]
    BY <1>1 DEF TypeOK, ChannelTypes
  <1>6. spc[Conn(t)] \notin {"new", "open"}
    BY <1>1, <1>2 DEF RequestFirst
  <1>7. RequestFirst'
    <2>1. ASSUME NEW s \in Slaves, NEW n \in 1..Len(toMaster'[s]), toMaster'[s][n][1] = "CONNECT"
          PROVE  n = 1
      BY <1>4, <1>5, <2>1 DEF RequestFirst
    <2>2. ASSUME NEW s \in Slaves, spc'[s] \in {"new", "open"} PROVE toMaster'[s] = <<>>
      BY <1>5, <1>6, <2>2 DEF RequestFirst
    <2> QED  BY <2>1, <2>2, Fixed DEF RequestFirst
  <1>8. Conn(t) \notin Pending'
    <2>1. toMaster'[Conn(t)] # <<>> => 1 \in 1..Len(Tail(toMaster[Conn(t)]))
      <3> HIDE DEF Token
      <3> QED  BY <1>3, <1>5
    <2> QED  BY <1>4, <1>5, <2>1 DEF Pending
  <1>9. Pending' \subseteq Pending \ {Conn(t)}
    BY <1>5, <1>8, Fixed DEF Pending
  <1> QED  BY <1>7, <1>9, Fixed DEF Asked

\* A step of a slave that is neither its request nor its report.
LEMMA SlaveStep ==
  ASSUME Meeting, NEW s \in Slaves, Connect(s) \/ ReadStart(s) \/ Benchmark(s) \/ Die(s)
  PROVE  RequestFirst' /\ Counted' /\ Past'
  <1> USE DEF Meeting
  <1>1. /\ scenario' = scenario
        /\ UNCHANGED <<tpc, first, connected, toMaster, start>>
        /\ \/ spc[s] = "new" /\ spc' = [spc EXCEPT ![s] = "open"]
           \/ \E there \in SlavePc \ {"new", "open"} : spc' = [spc EXCEPT ![s] = there]
    BY DEF Connect, ReadStart, Benchmark, Die, SlaveGoto, SlavePc, masterVars, localVars, statusVars
  <1>2. spc \in [Slaves -> SlavePc]  BY DEF TypeOK, SlaveTypes
  <1>3. RequestFirst'
    BY <1>1, <1>2, Fixed DEF RequestFirst
  <1>4. Asking' = Asking /\ Pending' = Pending /\ Asked \subseteq Asked'
    BY <1>1, <1>2, Fixed DEF Asking, Pending, Asked
  <1>5. Counted'
    BY <1>1, <1>4, Shrinks
  <1>6. Past'
    BY <1>1, Fixed DEF Past
  <1> QED  BY <1>3, <1>5, <1>6

LEMMA RequestStep ==
  ASSUME Meeting, NEW s \in Slaves, SendConnect(s)
  PROVE  RequestFirst' /\ Counted' /\ Past'
  <1> USE DEF Meeting
  <1> DEFINE request == <<<<"CONNECT", 0>>, <<"NUL", 0>>>>
  <1>1. /\ scenario' = scenario
        /\ UNCHANGED <<tpc, first, connected, start>>
        /\ spc[s] = "open" /\ spc' = [spc EXCEPT ![s] = "ready"]
        /\ toMaster' = [toMaster EXCEPT ![s] = @ \o request]
    BY DEF SendConnect, SlaveGoto, masterVars, localVars, statusVars
  <1>2. spc \in [Slaves -> SlavePc] /\ toMaster \in [Slaves -> Seq(Token)]
    BY DEF TypeOK, SlaveTypes, ChannelTypes
  <1>3. toMaster[s] = <<>>
    BY <1>1 DEF RequestFirst
  <1>4. /\ toMaster'[s] = request
        /\ \A r \in Slaves \ {s} : toMaster'[r] = toMaster[r]
    BY <1>1, <1>2, <1>3
  <1>5. Len(request) = 2 /\ request[1][1] = "CONNECT" /\ request[2][1] # "CONNECT"
    OBVIOUS
  <1> HIDE DEF request
  <1>6. RequestFirst'
    <2>1. ASSUME NEW r \in Slaves, NEW n \in 1..Len(toMaster'[r]), toMaster'[r][n][1] = "CONNECT"
          PROVE  n = 1
      BY <1>4, <1>5, <2>1 DEF RequestFirst
    <2>2. ASSUME NEW r \in Slaves, spc'[r] \in {"new", "open"} PROVE toMaster'[r] = <<>>
      BY <1>1, <1>2, <1>4, <2>2 DEF RequestFirst
    <2> QED  BY <1>1, <2>1, <2>2, Fixed DEF RequestFirst
  <1>7. Asking' = Asking /\ Pending' = Pending \cup {s} /\ Asked' = Asked \cup {s}
    <2>1. Asking' = Asking  BY <1>1, Fixed DEF Asking
    <2>2. Asked' = Asked \cup {s}  BY <1>1, <1>2, Fixed DEF Asked
    <2>3. request # <<>>  BY DEF request
    <2>4. Pending' = Pending \cup {s}  BY <1>1, <1>4, <1>5, <2>3, Fixed DEF Pending
    <2> QED  BY <2>1, <2>2, <2>4
  <1>8. s \notin Pending /\ s \notin Asked
    BY <1>1, <1>3 DEF Pending, Asked
  <1>9. /\ Cardinality(Pending') = Cardinality(Pending) + 1
        /\ Cardinality(Asked') = Cardinality(Asked) + 1
    BY <1>7, <1>8, Finite, FS_AddElement
  <1>10. {Cardinality(Asking), Cardinality(Pending), Cardinality(Asked)} \subseteq Nat
         /\ connected \in Nat
    BY Finite DEF TypeOK, StatusTypes
  <1>11. Counted'
    BY <1>1, <1>7, <1>9, <1>10 DEF Counted
  <1>12. Past'
    BY <1>1, Fixed DEF Past
  <1> QED  BY <1>6, <1>11, <1>12

LEMMA ReportStep ==
  ASSUME Meeting, NEW s \in Slaves, SendReport(s)
  PROVE  RequestFirst' /\ Counted' /\ Past'
  <1> USE DEF Meeting
  <1> DEFINE token == Script[sent[s] + 1]
  <1>1. /\ scenario' = scenario
        /\ UNCHANGED <<tpc, first, connected, start>>
        /\ spc[s] = "report"
        /\ \E there \in {"spin", "report"} : spc' = [spc EXCEPT ![s] = there]
        /\ toMaster' = [toMaster EXCEPT ![s] = Append(@, token)]
    BY DEF SendReport, SlaveGoto, masterVars, localVars, statusVars
  <1>2. token \in Token /\ token[1] # "CONNECT"
    BY <1>1, SendsNext
  <1>3. spc \in [Slaves -> SlavePc] /\ toMaster \in [Slaves -> Seq(Token)]
    BY DEF TypeOK, SlaveTypes, ChannelTypes
  <1> HIDE DEF token, Token
  <1>4. /\ toMaster'[s] = Append(toMaster[s], token)
        /\ \A r \in Slaves \ {s} : toMaster'[r] = toMaster[r]
    BY <1>1, <1>3
  <1>5. /\ Len(toMaster'[s]) = Len(toMaster[s]) + 1 /\ Len(toMaster[s]) \in Nat
        /\ \A n \in 1..Len(toMaster[s]) : toMaster'[s][n] = toMaster[s][n]
        /\ toMaster'[s][Len(toMaster[s]) + 1] = token
    BY <1>2, <1>3, <1>4
  <1>6. RequestFirst'
    <2>1. ASSUME NEW r \in Slaves, NEW n \in 1..Len(toMaster'[r]), toMaster'[r][n][1] = "CONNECT"
          PROVE  n = 1
      <3>1. CASE r # s  BY <1>4, <2>1, <3>1 DEF RequestFirst
      <3>2. CASE r = s
        <4>1. n # Len(toMaster[s]) + 1  BY <1>2, <1>5, <2>1, <3>2
        <4>2. n \in 1..Len(toMaster[s])  BY <1>5, <3>2, <4>1
        <4> QED  BY <1>5, <2>1, <3>2, <4>2 DEF RequestFirst
      <3> QED  BY <3>1, <3>2
    <2>2. ASSUME NEW r \in Slaves, spc'[r] \in {"new", "open"} PROVE toMaster'[r] = <<>>
      BY <1>1, <1>3, <1>4, <2>2 DEF RequestFirst
    <2> QED  BY <1>1, <2>1, <2>2, Fixed DEF RequestFirst
  <1>7. Pending' \subseteq Pending
    <2>1. ASSUME s \in Pending' PROVE s \in Pending
      <3>1. toMaster'[s][1][1] = "CONNECT"  BY <1>1, <2>1, Fixed DEF Pending
      <3>2. Len(toMaster[s]) + 1 # 1  BY <1>2, <1>5, <3>1
      <3>3. 1 \in 1..Len(toMaster[s])  BY <1>5, <3>2
      <3>4. toMaster[s][1][1] = "CONNECT"  BY <1>5, <3>1, <3>3
      <3>5. toMaster[s] # <<>>  BY <3>3
      <3> QED  BY <3>4, <3>5 DEF Pending
    <2>2. ASSUME NEW r \in Slaves \ {s}, r \in Pending' PROVE r \in Pending
      BY <1>4, <2>2 DEF Pending
    <2> QED  BY <1>1, <2>1, <2>2, Fixed DEF Pending
  <1>8. Asking' = Asking /\ Asked \subseteq Asked'
    BY <1>1, <1>3, Fixed DEF Asking, Asked
  <1>9. Counted'
    BY <1>1, <1>7, <1>8, Shrinks
  <1>10. Past'
    BY <1>1, Fixed DEF Past
  <1> QED  BY <1>6, <1>9, <1>10

\* A step that leaves the requests where they are, or only moves a thread on.
LEMMA OtherStep ==
  ASSUME Meeting, scenario' = scenario, UNCHANGED <<connected, spc, toMaster>>,
         Asking' \subseteq Asking
  PROVE  RequestFirst' /\ Counted'
  <1> USE DEF Meeting
  <1>1. RequestFirst'  BY Fixed DEF RequestFirst
  <1>2. Pending' = Pending /\ Asked' = Asked  BY Fixed DEF Pending, Asked
  <1> QED  BY <1>1, <1>2, Shrinks

LEMMA ReadStep ==
  ASSUME Meeting, scenario' = scenario, NEW t \in Ids, Receive(t), UNCHANGED <<connected, spc>>,
         Asking' \subseteq Asking
  PROVE  RequestFirst' /\ Counted'
  BY ReceiveStep, Shrinks DEF Meeting

\* Nobody passes the barrier in a step that leads elsewhere.
LEMMA Elsewhere ==
  ASSUME TypeOK, Past, scenario' = scenario, NEW t \in Ids, NEW there, there # "start", Goto(t, there),
         UNCHANGED <<connected, start>>
  PROVE  Past'
  BY Fixed DEF TypeOK, Past, Goto

\* The first token of a message is read: a request on its way is now the thread's.
LEMMA ReadFirstStep ==
  ASSUME Meeting, NEW t \in Ids, ReadFirst(t)
  PROVE  RequestFirst' /\ Counted' /\ Past'
  <1> USE DEF Meeting
  <1>1. /\ scenario' = scenario /\ tpc[t] = "message" /\ Receive(t) /\ Goto(t, "message2")
        /\ first' = [first EXCEPT ![t] = Head(toMaster[Conn(t)])[1]]
        /\ UNCHANGED <<connected, spc, start>>
    BY DEF ReadFirst, masterVars, statusVars, slaveVars
  <1>2. /\ tpc \in [Ids -> ThreadPc] /\ first \in [Ids -> TokenName \cup {"none"}]
        /\ connected \in Nat
    BY DEF TypeOK, LocalTypes, StatusTypes
  <1>3. RequestFirst' /\ Pending' \subseteq Pending \ {Conn(t)} /\ Asked' = Asked
    BY <1>1, ReceiveStep
  <1>4. Counted'
    <2>1. CASE Head(toMaster[Conn(t)])[1] # "CONNECT"
      <3>1. Asking' \subseteq Asking
        BY <1>1, <1>2, <2>1, Fixed DEF Asking, Goto
      <3> QED  BY <1>1, <1>3, <3>1, Shrinks
    <2>2. CASE Head(toMaster[Conn(t)])[1] = "CONNECT"
      <3>1. Asking' \subseteq Asking \cup {t}
        BY <1>1, <1>2, Fixed DEF Asking, Goto
      <3>2. Conn(t) \in Pending
        <4>1. Conn(t) \in Slaves /\ toMaster[Conn(t)] # <<>>
          BY <1>1, Receives DEF Receive
        <4>2. toMaster[Conn(t)] \in Seq(Token)
          BY <4>1 DEF TypeOK, ChannelTypes
        <4>3. Head(toMaster[Conn(t)]) = toMaster[Conn(t)][1]
          OBVIOUS
        <4> QED  BY <2>2, <4>1, <4>3 DEF Pending
      <3>3. /\ IsFiniteSet(Asking \cup {t})
            /\ Cardinality(Asking \cup {t}) <= Cardinality(Asking) + 1
        <4>1. Cardinality(Asking) \in Nat /\ IsFiniteSet(Asking)  BY Finite
        <4>2. /\ IsFiniteSet(Asking \cup {t})
              /\ Cardinality(Asking \cup {t}) =
                   IF t \in Asking THEN Cardinality(Asking) ELSE Cardinality(Asking) + 1
          BY <4>1, FS_AddElement
        <4> QED  BY <4>1, <4>2
      <3>4. /\ IsFiniteSet(Pending \ {Conn(t)})
            /\ Cardinality(Pending \ {Conn(t)}) = Cardinality(Pending) - 1
        BY <3>2, Finite, FS_RemoveElement
      <3>5. Cardinality(Asking') <= Cardinality(Asking \cup {t})
        BY <3>1, <3>3, FS_Subset
      <3>6. Cardinality(Pending') <= Cardinality(Pending \ {Conn(t)})
        BY <1>3, <3>4, FS_Subset
      <3>7. /\ Cardinality(Asking) \in Nat /\ Cardinality(Pending) \in Nat
            /\ Cardinality(Asked) \in Nat /\ Cardinality(Asking \cup {t}) \in Nat
            /\ Cardinality(Asking') \in Nat /\ Cardinality(Pending') \in Nat
        BY <1>1, <3>3, Finite, FiniteNext, FS_CardinalityType
      <3> QED  BY <1>1, <1>2, <1>3, <3>3, <3>4, <3>5, <3>6, <3>7 DEF Counted
    <2> QED  BY <2>1, <2>2
  <1>5. Past'
    BY <1>1, Elsewhere
  <1> QED  BY <1>3, <1>4, <1>5

LEMMA ReadSecondStep ==
  ASSUME Meeting, NEW t \in Ids, ReadSecond(t)
  PROVE  RequestFirst' /\ Counted' /\ Past'
  <1> USE DEF Meeting
  <1>1. /\ scenario' = scenario /\ tpc[t] = "message2" /\ Receive(t)
        /\ \E there \in {"message", "connect", "report"} :
             Goto(t, there) /\ (there = "connect" => first[t] = "CONNECT")
        /\ UNCHANGED <<first, connected, spc, start>>
    BY DEF ReadSecond, masterVars, localVars, statusVars, slaveVars
  <1>2. tpc \in [Ids -> ThreadPc]  BY DEF TypeOK
  <1>3. Asking' \subseteq Asking
    BY <1>1, <1>2, Fixed DEF Asking, Goto
  <1>4. RequestFirst' /\ Counted'
    BY <1>1, <1>3, ReadStep
  <1>5. Past'
    BY <1>1, Elsewhere
  <1> QED  BY <1>4, <1>5

\* A request is counted; the last one lets its thread pass.
LEMMA ConnectRequestStep ==
  ASSUME Meeting, NEW t \in Ids, ConnectRequest(t)
  PROVE  RequestFirst' /\ Counted' /\ Past'
  <1> USE DEF Meeting
  <1>1. /\ scenario' = scenario /\ tpc[t] = "connect" /\ connected' = connected + 1
        /\ \E there \in {"wait", "start"} :
             Goto(t, there) /\ (there = "start" => ~(connected + 1 < Quantity))
        /\ UNCHANGED <<first, spc, toMaster, start>>
    BY DEF ConnectRequest, PastBarrier, masterVars, localVars, slaveVars
  <1>2. /\ tpc \in [Ids -> ThreadPc] /\ connected \in Nat
        /\ Quantity \in Nat /\ Quantity' = Quantity
    BY <1>1, Fixed, ScenarioFacts DEF TypeOK, StatusTypes
  <1>3. RequestFirst'  BY <1>1, Fixed DEF RequestFirst
  <1>4. Counted'
    <2> PICK there \in {"wait", "start"} : tpc' = [tpc EXCEPT ![t] = there]
      BY <1>1 DEF Goto
    <2>1. Asking' = Asking \ {t} /\ t \in Asking
      <3>1. tpc'[t] = there /\ \A u \in Ids \ {t} : tpc'[u] = tpc[u]
        BY <1>2
      <3>2. there \notin {"connect", "message2"} /\ Ids' = Ids /\ first' = first
        BY <1>1, Fixed
      <3>3. t \in Asking  BY <1>1 DEF Asking
      <3>4. t \notin Asking'
        <4>1. ~(tpc'[t] = "connect" \/ (tpc'[t] = "message2" /\ first'[t] = "CONNECT"))
          BY <3>1, <3>2
        <4> QED  BY <4>1 DEF Asking
      <3>5. \A u \in Ids \ {t} : u \in Asking' <=> u \in Asking
        BY <3>1, <3>2 DEF Asking
      <3>6. Asking \subseteq Ids /\ Asking' \subseteq Ids
        BY <3>2 DEF Asking
      <3> QED  BY <3>3, <3>4, <3>5, <3>6
    <2>2. Pending' = Pending /\ Asked' = Asked  BY <1>1, Fixed DEF Pending, Asked
    <2>3. Cardinality(Asking') = Cardinality(Asking) - 1
      BY <2>1, Finite, FS_RemoveElement
    <2>4. {Cardinality(Asking), Cardinality(Pending), Cardinality(Asked)} \subseteq Nat
      BY Finite
    <2> QED  BY <1>1, <1>2, <2>2, <2>3, <2>4 DEF Counted
  <1>5. Past'
    BY <1>1, <1>2, Fixed DEF Past, Goto
  <1> QED  BY <1>3, <1>4, <1>5

LEMMA WakeUpStep ==
  ASSUME Meeting, NEW t \in Ids, WakeUp(t)
  PROVE  RequestFirst' /\ Counted' /\ Past'
  <1> USE DEF Meeting
  <1>1. /\ scenario' = scenario
        /\ UNCHANGED <<first, connected, spc, toMaster, start>>
        /\ UNCHANGED tpc \/ (Goto(t, "start") /\ ~(connected < Quantity))
    BY DEF WakeUp, PastBarrier, masterVars, localVars, slaveVars
  <1>2. /\ tpc \in [Ids -> ThreadPc] /\ connected \in Nat
        /\ Quantity \in Nat /\ Quantity' = Quantity
    BY <1>1, Fixed, ScenarioFacts DEF TypeOK, StatusTypes
  <1>3. Asking' \subseteq Asking
    BY <1>1, <1>2, Fixed DEF Asking, Goto
  <1>4. RequestFirst' /\ Counted'
    BY <1>1, <1>3, OtherStep
  <1>5. Past'
    BY <1>1, <1>2, Fixed DEF Past, Goto
  <1> QED  BY <1>4, <1>5

LEMMA SendStartStep ==
  ASSUME Meeting, NEW t \in Ids, SendStart(t)
  PROVE  RequestFirst' /\ Counted' /\ Past'
  <1> USE DEF Meeting
  <1>1. /\ scenario' = scenario /\ tpc[t] = "start"
        /\ \E there \in {"stop", "message"} : Goto(t, there)
        /\ UNCHANGED <<first, connected, spc, toMaster>>
    BY DEF SendStart, masterVars, statusVars, slaveVars
  <1>2. tpc \in [Ids -> ThreadPc]  BY DEF TypeOK
  <1>3. Asking' \subseteq Asking
    BY <1>1, Leaves
  <1>4. RequestFirst' /\ Counted'
    BY <1>1, <1>3, OtherStep
  <1>5. connected >= Quantity
    BY <1>1 DEF Past
  <1>6. Past'
    BY <1>1, <1>2, <1>5, Fixed DEF Past, Goto
  <1> QED  BY <1>4, <1>6

\* The other steps of a thread: some read, none leads to the barrier.
LEMMA ThreadStep ==
  ASSUME Meeting, NEW t \in Ids,
         \/ ReadParam(t) \/ Report(t) \/ ReadEnvironment(t) \/ ReadValues(t)
         \/ \E kind \in Shared : LockPlot(t, kind) \/ ReadShared(t, kind)
         \/ StopSampler(t) \/ JoinSampler(t)
  PROVE  RequestFirst' /\ Counted' /\ Past'
  <1> USE DEF Meeting
  <1>1. /\ scenario' = scenario
        /\ UNCHANGED <<first, connected, spc, start>>
        /\ Receive(t) \/ UNCHANGED toMaster
    BY DEF ReadParam, Report, ReadEnvironment, ReadValues, LockPlot, ReadShared, StopSampler,
       JoinSampler, masterVars, localVars, statusVars, slaveVars
  <1>2. \E there \in ThreadPc \ {"connect", "message2", "start"} : Goto(t, there)
    BY DEF ReadParam, Report, ReadEnvironment, ReadValues, LockPlot, ReadShared, StopSampler,
       JoinSampler, ThreadPc, Shared
  <1>3. Asking' \subseteq Asking
    BY <1>1, <1>2, Leaves
  <1>4. RequestFirst' /\ Counted'
    BY <1>1, <1>3, OtherStep, ReadStep
  <1>5. Past'
    BY <1>1, <1>2, Elsewhere
  <1> QED  BY <1>4, <1>5

\* What the master's main thread and its sampler do, and a thread that exits.
LEMMA MasterStep ==
  ASSUME Meeting, Main \/ Aside \/ (\E t \in Ids : EndOfFile(t)) \/ UNCHANGED vars
  PROVE  RequestFirst' /\ Counted' /\ Past'
  <1> USE DEF Meeting
  <1>1. /\ scenario' = scenario
        /\ UNCHANGED <<first, connected, spc, toMaster, start>>
        /\ UNCHANGED tpc \/ (Goto(index, "created") /\ mpc = "accept")
    BY AsideEffects DEF Main, Plot, Accept, EndOfFile, vars, masterVars, localVars, statusVars,
       slaveVars
  <1>2. Asking' \subseteq Asking
    BY <1>1, Leaves, AcceptsNext, Fixed DEF Asking
  <1>3. RequestFirst' /\ Counted'
    BY <1>1, <1>2, OtherStep
  <1>4. Past'
    BY <1>1, Elsewhere, AcceptsNext, Fixed DEF Past
  <1> QED  BY <1>3, <1>4

LEMMA MeetingStep == Meeting /\ [Next]_vars => Meeting'
  <1> SUFFICES ASSUME Meeting, [Next]_vars PROVE RequestFirst' /\ Counted' /\ Past'
    BY TypeStep DEF Meeting
  <1>1. ASSUME NEW s \in Slaves, Slave(s) \/ Die(s) PROVE RequestFirst' /\ Counted' /\ Past'
    BY <1>1, SlaveStep, RequestStep, ReportStep DEF Slave
  <1>2. ASSUME NEW t \in Ids, Thread(t) PROVE RequestFirst' /\ Counted' /\ Past'
    BY <1>2, ReadFirstStep, ReadSecondStep, ConnectRequestStep, WakeUpStep, SendStartStep,
       ThreadStep, MasterStep
    DEF Thread
  <1> QED  BY <1>1, <1>2, MasterStep DEF Next, Aside

\* As many requests as slaves cannot be counted before each slave has asked.
LEMMA MeetingBarrier == Meeting => Barrier
  <1> SUFFICES ASSUME Meeting, NEW s \in Slaves, start[s], NEW r \in Slaves
               PROVE  spc[r] \notin {"new", "open"}
    BY DEF Barrier
  <1>1. connected >= Quantity  BY DEF Meeting, Past
  <1>2. /\ Cardinality(Asking) \in Nat /\ Cardinality(Pending) \in Nat
        /\ Cardinality(Asked) \in Nat /\ connected \in Nat /\ Quantity \in Nat
    BY Finite, ScenarioFacts DEF Meeting, TypeOK, StatusTypes
  <1>3. Cardinality(Asked) >= Quantity  BY <1>1, <1>2 DEF Meeting, Counted
  <1>4. Asked \subseteq Slaves /\ IsFiniteSet(Slaves)
    BY ScenarioFacts DEF Asked, Meeting, TypeOK
  <1>5. Cardinality(Asked) <= Cardinality(Slaves) /\ (Cardinality(Slaves) = Cardinality(Asked) => Slaves = Asked)
    BY <1>4, FS_Subset
  <1>6. Slaves = Asked
    BY <1>2, <1>3, <1>5 DEF Quantity
  <1> QED  BY <1>6 DEF Asked

\* No slave is started before every slave has asked, however many there are and
\* whichever threads serve them (myserver.c:132-152).
THEOREM BarrierHolds == Spec => []Barrier
  <1> QED  BY MeetingInit, MeetingStep, MeetingBarrier, PTL DEF Spec

-----------------------------------------------------------------------------
(* Headers.  A thread between its locking and its filing holds the lock, so     *)
(* what it found of the queue still holds.                                      *)

Filing ==
    \A t \in Ids : tpc[t] \in Shared =>
        plotLock = {t} /\ (addHeader[t] <=> queues[tpc[t]] = <<>>)

\* Nothing but locking and filing touches the queues, and no other step leads
\* to a thread's filing.
LEMMA QueueSteps ==
  ASSUME TypeOK, [Next]_vars
  PROVE  \/ /\ UNCHANGED <<plotLock, addHeader, queues>>
            /\ \A t \in Ids : tpc'[t] \in Shared => tpc'[t] = tpc[t]
         \/ \E t \in Ids, kind \in Shared : LockPlot(t, kind) \/ ReadShared(t, kind)
  <1> DEFINE LeavesLock(t) == \E there \in ThreadPc \ Shared : Goto(t, there)
             Apart == /\ UNCHANGED <<plotLock, addHeader, queues>>
                      /\ \A t \in Ids : tpc'[t] \in Shared => tpc'[t] = tpc[t]
  <1>1. tpc \in [Ids -> ThreadPc]  BY DEF TypeOK
  <1>2. ASSUME NEW t \in Ids, LeavesLock(t), UNCHANGED <<plotLock, addHeader, queues>> PROVE Apart
    BY <1>1, <1>2 DEF Goto
  <1>3. ASSUME NEW s \in Slaves, Slave(s) \/ Die(s) PROVE Apart
    BY <1>3 DEF Slave, Die, Connect, SendConnect, ReadStart, Benchmark, SendReport, plotVars, localVars
  <1>4. ASSUME Main PROVE Apart
    <2>1. CASE Plot  BY <2>1 DEF Plot, plotVars, localVars
    <2>2. ASSUME NEW s \in Slaves, Accept(s) PROVE Apart
      <3>1. LeavesLock(index) /\ index \in Ids /\ UNCHANGED <<plotLock, addHeader, queues>>
        BY <2>2, AcceptsNext DEF Accept, ThreadPc, Shared, plotVars, localVars
      <3> QED  BY <1>2, <3>1
    <2> QED  BY <1>4, <2>1, <2>2 DEF Main
  <1>5. ASSUME NEW t \in Ids, Thread(t)
        PROVE  Apart \/ \E kind \in Shared : LockPlot(t, kind) \/ ReadShared(t, kind)
    <2>1. CASE ReadParam(t) \/ ReadFirst(t) \/ ReadSecond(t)
      <3>1. LeavesLock(t) /\ UNCHANGED <<plotLock, addHeader, queues>>
        BY <2>1 DEF ReadParam, ReadFirst, ReadSecond, ThreadPc, Shared, plotVars, localVars
      <3> QED  BY <1>2, <3>1
    <2>2. CASE ConnectRequest(t) \/ WakeUp(t) \/ SendStart(t)
      <3>1. /\ LeavesLock(t) \/ UNCHANGED tpc
            /\ UNCHANGED <<plotLock, addHeader, queues>>
        BY <2>2 DEF ConnectRequest, WakeUp, PastBarrier, SendStart, ThreadPc, Shared, plotVars, localVars
      <3> QED  BY <1>2, <3>1
    <2>3. CASE Report(t) \/ ReadEnvironment(t) \/ ReadValues(t)
      <3>1. LeavesLock(t) /\ UNCHANGED <<plotLock, addHeader, queues>>
        BY <2>3 DEF Report, ReadEnvironment, ReadValues, ThreadPc, Shared, plotVars, localVars
      <3> QED  BY <1>2, <3>1
    <2>4. CASE StopSampler(t) \/ JoinSampler(t)
      <3>1. LeavesLock(t) /\ UNCHANGED <<plotLock, addHeader, queues>>
        BY <2>4 DEF StopSampler, JoinSampler, ThreadPc, Shared, plotVars, localVars
      <3> QED  BY <1>2, <3>1
    <2>5. CASE EndOfFile(t)
      BY <2>5 DEF EndOfFile, plotVars, localVars
    <2> QED  BY <1>5, <2>1, <2>2, <2>3, <2>4, <2>5 DEF Thread
  <1>6. ASSUME Aside \/ UNCHANGED vars PROVE Apart
    BY <1>6, AsideEffects DEF vars, plotVars, localVars
  <1> QED  BY <1>3, <1>4, <1>5, <1>6 DEF Next, Aside

\* Locking: the queue is as the thread found it, and no other thread files.
LEMMA LockStep ==
  ASSUME TypeOK, Filing, HeaderFirst, NEW t \in Ids, NEW kind \in Shared, LockPlot(t, kind)
  PROVE  Filing' /\ HeaderFirst'
  <1>1. /\ scenario' = scenario /\ plotLock = {} /\ plotLock' = {t} /\ queues' = queues
        /\ addHeader' = [addHeader EXCEPT ![t] = queues[kind] = <<>>]
        /\ tpc' = [tpc EXCEPT ![t] = kind]
    BY DEF LockPlot, masterVars, Goto
  <1>2. tpc'[t] = kind /\ (addHeader'[t] <=> queues[kind] = <<>>)
    BY <1>1 DEF TypeOK, LocalTypes
  <1>3. \A u \in Ids \ {t} : tpc'[u] \notin Shared
    BY <1>1 DEF Filing, TypeOK
  <1>4. Filing'
    BY <1>1, <1>2, <1>3, Fixed DEF Filing
  <1> QED  BY <1>1, <1>4 DEF HeaderFirst

LEMMA TwoOfThem ==
  ASSUME NEW S, NEW a \in Seq(S), NEW b \in Seq(S), Len(a) = 1, Len(b) = 1
  PROVE  Len(a \o b) = 2 /\ (a \o b)[1] = a[1] /\ (a \o b)[2] = b[1]
  <1>1. /\ Len(a \o b) = Len(a) + Len(b)
        /\ \A i \in 1..Len(a) + Len(b) :
             (a \o b)[i] = IF i <= Len(a) THEN a[i] ELSE b[i - Len(a)]
    BY ConcatProperties
  <1> QED  BY <1>1

\* Filing: a body behind the header, which goes in if and only if there is none.
LEMMA FileStep ==
  ASSUME TypeOK, Filing, HeaderFirst, NEW t \in Ids, NEW kind \in Shared, ReadShared(t, kind)
  PROVE  Filing' /\ HeaderFirst'
  <1> DEFINE header == IF addHeader[t] THEN <<<<"HEADER", 0, id[t]>>>> ELSE <<>>
             token == Head(toMaster[Conn(t)])
             body == <<token[1], token[2], id[t]>>
             filed == queues[kind] \o header \o <<body>>
  <1>1. /\ scenario' = scenario /\ tpc[t] = kind /\ Receive(t)
        /\ queues' = [queues EXCEPT ![kind] = filed]
        /\ \E there \in ThreadPc \ Shared : Goto(t, there)
    BY DEF ReadShared, masterVars, ThreadPc, Shared
  <1>2. plotLock = {t} /\ (addHeader[t] <=> queues[kind] = <<>>)
    BY <1>1 DEF Filing
  <1>3. \A u \in Ids : tpc'[u] \notin Shared
    BY <1>1, <1>2 DEF Filing, TypeOK, Goto
  <1>4. Filing'
    BY <1>1, <1>3, Fixed DEF Filing
  <1>5. addHeader[t] \in BOOLEAN  BY DEF TypeOK, LocalTypes
  <1>6. token \in Token  BY <1>1, Receives
  <1>7. header \in Seq(Filed) /\ body \in Filed /\ body[1] # "HEADER"
    BY <1>5, <1>6, FiledTypes
  <1>8. queues[kind] \in Seq(Filed)  BY DEF TypeOK, PlotTypes
  <1>9. \A n \in 1..Len(queues[kind]) : queues[kind][n][1] = "HEADER" <=> n = 1
    BY <1>8 DEF HeaderFirst
  <1>10. IF addHeader[t] THEN queues[kind] = <<>> /\ Len(header) = 1 /\ header[1][1] = "HEADER"
                         ELSE Len(queues[kind]) > 0 /\ header = <<>>
    <2>1. queues[kind] # <<>> => Len(queues[kind]) > 0
      <3> HIDE DEF Filed
      <3> QED  BY <1>8
    <2> QED  BY <1>2, <1>5, <2>1
  <1> HIDE DEF header, body, Filed
  <1>11. \A n \in DOMAIN filed : filed[n][1] = "HEADER" <=> n = 1
    <2>1. CASE addHeader[t]
      <3>1. Len(filed) = 2 /\ filed[1] = header[1] /\ filed[2] = body
        <4> DEFINE last == <<body>>
        <4>1. /\ header \in Seq(Filed) /\ last \in Seq(Filed)
              /\ Len(header) = 1 /\ Len(last) = 1 /\ last[1] = body
              /\ queues[kind] = <<>>
          BY <1>7, <1>10, <2>1
        <4>2. filed = header \o last
          BY <4>1
        <4> HIDE DEF last, filed
        <4>3. Len(filed) = 2 /\ filed[1] = header[1] /\ filed[2] = last[1]
          BY <4>1, <4>2, TwoOfThem
        <4> QED  BY <4>1, <4>3
      <3>2. DOMAIN filed = 1..2  BY <1>7, <1>8, <3>1
      <3> QED  BY <1>7, <1>10, <2>1, <3>1, <3>2
    <2>2. CASE ~addHeader[t]
      <3>1. /\ Len(filed) = Len(queues[kind]) + 1 /\ filed[Len(queues[kind]) + 1] = body
            /\ \A n \in 1..Len(queues[kind]) : filed[n] = queues[kind][n]
            /\ Len(queues[kind]) \in Nat
        BY <1>7, <1>8, <1>10, <2>2
      <3>2. DOMAIN filed = 1..(Len(queues[kind]) + 1)  BY <1>7, <1>8, <3>1
      <3> QED  BY <1>7, <1>9, <1>10, <2>2, <3>1, <3>2
    <2> QED  BY <2>1, <2>2
  <1> HIDE DEF filed
  <1>12. queues'[kind] = filed /\ \A k \in Shared \ {kind} : queues'[k] = queues[k]
    BY <1>1 DEF TypeOK, PlotTypes
  <1>13. HeaderFirst'
    BY <1>11, <1>12 DEF HeaderFirst
  <1> QED  BY <1>4, <1>13

\* Each shared queue has one header, at its front, for any number of threads
\* and any interleaving of them (myplot.c:431-460, 592-637).
THEOREM HeadersFirst == Spec => []HeaderFirst
  <1> DEFINE Inv == TypeOK /\ Filing /\ HeaderFirst
  <1>1. Init => Inv
    <2> SUFFICES ASSUME Init PROVE Filing /\ HeaderFirst
      BY TypeInit
    <2>1. \A t \in Ids : tpc[t] \notin Shared  BY DEF Init, Shared
    <2>2. \A k \in Shared : queues[k] = <<>>  BY DEF Init
    <2> QED  BY <2>1, <2>2 DEF Filing, HeaderFirst
  <1>2. Inv /\ [Next]_vars => Inv'
    <2> SUFFICES ASSUME Inv, [Next]_vars PROVE Filing' /\ HeaderFirst'
      BY TypeStep
    <2>1. ASSUME UNCHANGED <<plotLock, addHeader, queues>>,
                 \A t \in Ids : tpc'[t] \in Shared => tpc'[t] = tpc[t]
          PROVE  Filing' /\ HeaderFirst'
      BY <2>1, ScenarioStep, Fixed DEF Filing, HeaderFirst
    <2> QED  BY <2>1, QueueSteps, LockStep, FileStep
  <1>3. Inv => HeaderFirst
    OBVIOUS
  <1> QED  BY <1>1, <1>2, <1>3, PTL DEF Spec

-----------------------------------------------------------------------------
(* Who serves whom.  The threads may read each other's parameter, and two of    *)
(* them may read one connection; but nobody is past the barrier before every    *)
(* thread has counted the request of a slave of its own.                        *)

Ended   == {"stop", "joinSampler", "exited"}
Drawing == {"values", "lockAVGS", "AVGS", "lockRESULTS", "RESULTS"}

\* The thread has counted its slave's request; it has read it, the one that
\* slave sends; it reads what comes behind it.
Counts(t)  == tpc[t] \in {"wait", "start"} \/ messageReceived[t] > 0
Took(t)    == \/ tpc[t] \notin {"off", "created", "message", "message2"}
              \/ messageReceived[t] > 0
              \/ tpc[t] = "message2" /\ first[t] = "CONNECT"
Reading(t) == Counts(t) \/ tpc[t] = "connect"

\* A queue holds the tokens of a script after the first n and up to the m-th.
Cut(queue, script, n, m) ==
    /\ n <= m
    /\ Len(queue) = m - n
    /\ \A i \in 1..Len(queue) : queue[i] = script[n + i]

\* How many tokens of its slave's script a thread has read.
Position(t) ==
    IF tpc[t] = "message2" THEN 1
    ELSE IF tpc[t] \in {"report", "environment"} THEN 2
    ELSE IF tpc[t] = "values" THEN 3 * turn[t]
    ELSE IF tpc[t] \in {"lockAVGS", "AVGS"} THEN 3 * turn[t] + 1
    ELSE IF tpc[t] \in {"lockRESULTS", "RESULTS"} THEN 3 * turn[t] + 2
    ELSE IF tpc[t] \in Ended THEN 3 * Tests + 3
    ELSE 0

\* Where a thread can be after how many messages.
Shape(t) ==
    /\ \/ messageReceived[t] = 0 /\ tpc[t] \in {"off", "created", "message", "connect", "wait", "start"}
       \/ messageReceived[t] = 0 /\ tpc[t] = "message2" /\ first[t] # "REPORT"
       \/ messageReceived[t] = 1 /\ tpc[t] \in {"message", "report", "environment"} \cup Drawing
       \/ messageReceived[t] = 1 /\ tpc[t] = "message2" /\ first[t] = "REPORT"
       \/ messageReceived[t] = 2 /\ tpc[t] \in Ended
    /\ turn[t] <= Tests
    /\ tpc[t] \notin Drawing \cup Ended => turn[t] = 1

Serves(t) ==
    /\ Shape(t)
    /\ Reading(t) => Cut(toMaster[Conn(t)], Script, Position(t), sent[Conn(t)])

\* A thread that runs has the number of an accepted connection.
Accepted ==
    /\ \A t \in Ids : tpc[t] = "off" <=> index <= t
    /\ \A t \in Ids : tpc[t] \notin {"off", "created"} => id[t] < index
    /\ index > 0 => param < index

\* A slave reports after it was started; before, it has sent its request alone.
Started == \A s \in Slaves : (sent[s] > 0 \/ spc[s] \in {"bench", "report", "spin"}) => start[s]
Unstarted ==
    \A s \in Slaves : sent[s] = 0 =>
        toMaster[s] \in {<<>>, <<<<"NUL", 0>>>>, <<<<"CONNECT", 0>>, <<"NUL", 0>>>>}

\* A request that was read is no longer on its way, and one thread has read it.
Owners ==
    /\ \A t \in Ids : Took(t) => Conn(t) \in Asked \ Pending
    /\ \A t, u \in Ids : Took(t) /\ Took(u) /\ Conn(t) = Conn(u) => t = u

\* connected counts the threads that have counted a request.
Tally  == connected <= Cardinality({t \in Ids : Counts(t)})
Served == \A t \in Ids : messageReceived[t] > 0 => connected >= Quantity

Orderly == Unstarted /\ Owners /\ Tally /\ Served /\ \A t \in Ids : Serves(t)
Serving == Meeting /\ Accepted /\ Started /\ Orderly

\* A thread's step changes nothing of another thread.
LEMMA ThreadEffects ==
  ASSUME TypeOK, NEW t \in Ids, Thread(t)
  PROVE  /\ UNCHANGED <<scenario, index, param, sock, spc, sent>>
         /\ \A u \in Ids \ {t} : /\ tpc'[u] = tpc[u] /\ id'[u] = id[u] /\ first'[u] = first[u]
                                 /\ messageReceived'[u] = messageReceived[u] /\ turn'[u] = turn[u]
         /\ tpc[t] \notin {"off", "exited"} /\ tpc'[t] \notin {"off", "created"}
         /\ id'[t] = IF tpc[t] = "created" THEN param ELSE id[t]
  <1> DEFINE Goal == /\ UNCHANGED <<scenario, index, param, sock, spc, sent>>
                     /\ \A u \in Ids \ {t} :
                          /\ tpc'[u] = tpc[u] /\ id'[u] = id[u] /\ first'[u] = first[u]
                          /\ messageReceived'[u] = messageReceived[u] /\ turn'[u] = turn[u]
                     /\ tpc[t] \notin {"off", "exited"} /\ tpc'[t] \notin {"off", "created"}
                     /\ id'[t] = IF tpc[t] = "created" THEN param ELSE id[t]
  <1>1. tpc \in [Ids -> ThreadPc] /\ LocalTypes
    BY DEF TypeOK
  <1> USE <1>1 DEF LocalTypes, masterVars, localVars, slaveVars, Goto
  <1>2. CASE ReadParam(t) \/ ReadFirst(t) \/ ReadSecond(t)
    BY <1>2 DEF ReadParam, ReadFirst, ReadSecond
  <1>3. CASE ConnectRequest(t) \/ WakeUp(t) \/ SendStart(t)
    BY <1>3 DEF ConnectRequest, WakeUp, SendStart, PastBarrier
  <1>4. CASE Report(t) \/ ReadEnvironment(t) \/ ReadValues(t)
    BY <1>4 DEF Report, ReadEnvironment, ReadValues
  <1>5. ASSUME NEW kind \in Shared, LockPlot(t, kind) PROVE Goal
    BY <1>5 DEF LockPlot, Shared, Locking
  <1>6. ASSUME NEW kind \in Shared, ReadShared(t, kind) PROVE Goal
    <2>1. /\ UNCHANGED <<scenario, index, param, sock, spc, sent, id, first>>
          /\ tpc[t] = kind
      BY <1>6 DEF ReadShared
    <2>3. \E there \in {"lockRESULTS", "values", "stop", "message"} :
             tpc' = [tpc EXCEPT ![t] = there]
      BY <1>6 DEF ReadShared
    <2>2. /\ turn' = turn \/ turn' = [turn EXCEPT ![t] = @ + 1]
          /\ \/ messageReceived' = messageReceived
             \/ messageReceived' = [messageReceived EXCEPT ![t] = @ + 1]
      BY <1>6 DEF ReadShared
    <2> QED  BY <2>1, <2>2, <2>3 DEF Shared
  <1>7. CASE StopSampler(t) \/ JoinSampler(t) \/ EndOfFile(t)
    BY <1>7 DEF StopSampler, JoinSampler, EndOfFile
  <1> QED  BY <1>2, <1>3, <1>4, <1>5, <1>6, <1>7 DEF Thread

\* The other steps change nothing of a thread, but for a new one.
LEMMA OtherEffects ==
  ASSUME TypeOK, \/ \E s \in Slaves : Slave(s) \/ Die(s)
                 \/ Plot \/ Aside \/ UNCHANGED vars
  PROVE  UNCHANGED <<scenario, index, param, sock, tpc, connected, queues, localVars>>
  BY AsideEffects
  DEF Slave, Die, Connect, SendConnect, ReadStart, Benchmark, SendReport, Plot, vars,
      masterVars, statusVars, plotVars

LEMMA AcceptEffects ==
  ASSUME TypeOK, Accepted, NEW s \in Slaves, Accept(s)
  PROVE  /\ UNCHANGED <<scenario, connected, queues, localVars, spc, sent, toMaster, start>>
         /\ index \in Ids /\ tpc[index] = "off" /\ tpc' = [tpc EXCEPT ![index] = "created"]
         /\ index' = index + 1 /\ param' = index /\ sock' = [sock EXCEPT ![index] = s]
         /\ mpc' \in {"accept", "join"}
  <1>1. index \in Ids  BY AcceptsNext DEF Accept
  <1>2. tpc[index] = "off"  BY <1>1 DEF Accepted, Ids
  <1> QED  BY <1>1, <1>2 DEF Accept, Goto, statusVars, plotVars, slaveVars

LEMMA AcceptedStep ==
  ASSUME TypeOK, Accepted, [Next]_vars
  PROVE  Accepted'
  <1>0. /\ scenario' = scenario /\ Ids' = Ids /\ Ids \subseteq Int
        /\ index \in Int /\ param \in Int /\ \A t \in Ids : id[t] \in Int
        /\ tpc \in [Ids -> ThreadPc]
    BY ScenarioStep, Fixed, ScenarioFacts DEF TypeOK, MasterTypes, LocalTypes
  <1>1. CASE \/ \E s \in Slaves : Slave(s) \/ Die(s)
             \/ Plot \/ Aside \/ UNCHANGED vars
    BY <1>0, <1>1, OtherEffects DEF Accepted, localVars
  <1>2. ASSUME NEW t \in Ids, Thread(t) PROVE Accepted'
    <2>1. tpc[t] # "off" /\ tpc'[t] \notin {"off", "created"}
      BY <1>2, ThreadEffects
    <2>2. index > 0
      BY <1>0, <2>1, ScenarioFacts DEF Accepted, TypeOK
    <2>3. id'[t] < index
      <3>1. tpc[t] = "created" \/ tpc[t] \notin {"off", "created"}  BY <2>1
      <3>2. id'[t] = IF tpc[t] = "created" THEN param ELSE id[t]
        BY <1>2, ThreadEffects
      <3>3. param < index /\ (tpc[t] # "created" => id[t] < index)
        BY <2>2, <3>1 DEF Accepted
      <3> QED  BY <3>2, <3>3
    <2>4. \A u \in Ids \ {t} : tpc'[u] = tpc[u] /\ id'[u] = id[u]
      BY <1>2, ThreadEffects
    <2>5. index' = index /\ param' = param
      BY <1>2, ThreadEffects
    <2> QED  BY <1>0, <2>1, <2>3, <2>4, <2>5 DEF Accepted
  <1>3. ASSUME NEW s \in Slaves, Accept(s) PROVE Accepted'
    <2>1. /\ index \in Ids /\ tpc[index] = "off" /\ tpc' = [tpc EXCEPT ![index] = "created"]
          /\ index' = index + 1 /\ param' = index /\ id' = id
      BY <1>3, AcceptEffects DEF localVars
    <2> QED  BY <1>0, <2>1 DEF Accepted
  <1> QED  BY <1>1, <1>2, <1>3 DEF Next, Aside, Main

\* Nothing but START_MESSAGE makes a slave report.
LEMMA StartedStep ==
  ASSUME TypeOK, Started, [Next]_vars
  PROVE  Started'
  <1>0. /\ scenario' = scenario /\ Slaves' = Slaves
        /\ spc \in [Slaves -> SlavePc] /\ sent \in [Slaves -> Nat]
        /\ start \in [Slaves -> BOOLEAN]
    BY ScenarioStep, Fixed DEF TypeOK, SlaveTypes, ChannelTypes
  <1>1. ASSUME NEW s \in Slaves, Slave(s) \/ Die(s) PROVE Started'
    BY <1>0, <1>1 DEF Slave, Die, Connect, SendConnect, ReadStart, Benchmark, SendReport, SlaveGoto,
       Started, slaveVars
  <1>2. ASSUME NEW t \in Ids, Thread(t) PROVE Started'
    <2>1. spc' = spc /\ sent' = sent
      BY <1>2, ThreadEffects
    <2>2. start' = start \/ start' = [start EXCEPT ![Conn(t)] = TRUE]
      BY <1>2 DEF Thread, ReadParam, ReadFirst, ReadSecond, ConnectRequest, WakeUp, SendStart,
         Report, ReadEnvironment, ReadValues, LockPlot, ReadShared, StopSampler, JoinSampler,
         EndOfFile
    <2> QED  BY <1>0, <2>1, <2>2 DEF Started
  <1>3. ASSUME Main \/ Aside \/ UNCHANGED vars PROVE Started'
    BY <1>0, <1>3, AsideEffects DEF Main, Plot, Accept, vars, Started, slaveVars
  <1> QED  BY <1>1, <1>2, <1>3 DEF Next, Aside

LEMMA CutTail ==
  ASSUME NEW S, NEW queue \in Seq(S), queue # <<>>, NEW script, NEW n \in Nat, NEW m \in Nat,
         Cut(queue, script, n, m)
  PROVE  Head(queue) = script[n + 1] /\ Cut(Tail(queue), script, n + 1, m)
  <1>1. Len(queue) \in Nat /\ Len(queue) > 0 /\ Head(queue) = queue[1]
    OBVIOUS
  <1>2. Head(queue) = script[n + 1] /\ n + 1 <= m
    BY <1>1 DEF Cut
  <1>3. /\ Len(Tail(queue)) = Len(queue) - 1
        /\ \A i \in 1..Len(Tail(queue)) : Tail(queue)[i] = queue[i + 1] /\ i + 1 \in 1..Len(queue)
    BY <1>1
  <1>4. ASSUME NEW i \in 1..Len(Tail(queue)) PROVE Tail(queue)[i] = script[n + 1 + i]
    <2>1. Tail(queue)[i] = queue[i + 1] /\ i + 1 \in 1..Len(queue)  BY <1>3
    <2>2. i \in Nat  BY <1>1, <1>3
    <2>3. queue[i + 1] = script[n + (i + 1)]  BY <2>1 DEF Cut
    <2>4. n + (i + 1) = n + 1 + i  BY <2>2
    <2> QED  BY <2>1, <2>3, <2>4
  <1> QED  BY <1>1, <1>2, <1>3, <1>4 DEF Cut

LEMMA CutMore ==
  ASSUME NEW S, NEW queue \in Seq(S), NEW script, NEW n \in Nat, NEW m \in Nat,
         script[m + 1] \in S, Cut(queue, script, n, m)
  PROVE  Cut(Append(queue, script[m + 1]), script, n, m + 1)
  <1>1. Len(queue) \in Nat /\ Len(queue) = m - n /\ n <= m  BY DEF Cut
  <1>2. /\ Len(Append(queue, script[m + 1])) = Len(queue) + 1
        /\ \A i \in 1..Len(queue) : Append(queue, script[m + 1])[i] = queue[i]
        /\ Append(queue, script[m + 1])[Len(queue) + 1] = script[m + 1]
    BY <1>1
  <1>3. ASSUME NEW i \in 1..(Len(queue) + 1) PROVE Append(queue, script[m + 1])[i] = script[n + i]
    <2>1. CASE i \in 1..Len(queue)  BY <1>2, <2>1 DEF Cut
    <2>2. CASE i = Len(queue) + 1
      <3>1. n + i = m + 1  BY <1>1, <2>2
      <3> QED  BY <1>2, <2>2, <3>1
    <2> QED  BY <1>1, <2>1, <2>2
  <1> QED  BY <1>1, <1>2, <1>3 DEF Cut

LEMMA CutEmpty ==
  ASSUME NEW script, NEW n
  PROVE  /\ Cut(<<>>, script, 0, 0)
         /\ \A S : \A queue \in Seq(S) : n \in Nat /\ Cut(queue, script, n, 0) => queue = <<>>
  BY DEF Cut

\* As long as a thread has counted no request, nobody is past the barrier.
LEMMA NotYet ==
  ASSUME Serving, NEW t \in Ids, ~Counts(t)
  PROVE  /\ connected < Quantity
         /\ \A s \in Slaves : ~start[s] /\ sent[s] = 0
         /\ \A u \in Ids : messageReceived[u] = 0 /\ tpc[u] # "start"
  <1> DEFINE Counting == {u \in Ids : Counts(u)}
  <1>0. TypeOK /\ Tally /\ Past /\ Started /\ Served
    BY DEF Serving, Orderly, Meeting
  <1>1. /\ IsFiniteSet(Ids) /\ Quantity \in Nat /\ Ids = 0..(Quantity - 1) /\ connected \in Nat
        /\ \A s \in Slaves : sent[s] \in Nat
        /\ \A u \in Ids : messageReceived[u] \in Nat
    BY <1>0, ScenarioFacts DEF TypeOK, StatusTypes, SlaveTypes, LocalTypes
  <1>2. Cardinality(Ids) = Quantity  BY <1>1, FS_Interval
  <1>3. Counting \in SUBSET Ids /\ Counting # Ids  OBVIOUS
  <1>4. Cardinality(Counting) < Cardinality(Ids) /\ Cardinality(Counting) \in Nat
    <2>1. /\ IsFiniteSet(Counting)
          /\ Cardinality(Counting) <= Cardinality(Ids)
          /\ Cardinality(Ids) = Cardinality(Counting) => Ids = Counting
      BY <1>1, <1>3, FS_Subset
    <2>2. Cardinality(Counting) \in Nat  BY <2>1, FS_CardinalityType
    <2> QED  BY <1>1, <1>2, <1>3, <2>1, <2>2
  <1>5. connected <= Cardinality(Counting)
    BY <1>0 DEF Tally
  <1> HIDE DEF Counting
  <1>6. connected < Quantity /\ ~(connected >= Quantity)
    BY <1>1, <1>2, <1>4, <1>5
  <1>7. \A s \in Slaves : ~start[s]
    BY <1>0, <1>6 DEF Past
  <1>8. \A s \in Slaves : sent[s] = 0
    BY <1>0, <1>1, <1>7 DEF Started
  <1>9. \A u \in Ids : messageReceived[u] = 0 /\ tpc[u] # "start"
    BY <1>0, <1>1, <1>6 DEF Past, Served
  <1> QED  BY <1>6, <1>7, <1>8, <1>9

\* Nobody else reads what is sent to a thread that reads its slave's report.
LEMMA Alone ==
  ASSUME Serving, NEW t \in Ids, NEW u \in Ids \ {t}, Receive(t), Reading(u)
  PROVE  Conn(u) # Conn(t)
  <1> SUFFICES ASSUME Conn(u) = Conn(t) PROVE FALSE
    OBVIOUS
  <1>1. Serves(u) /\ Owners /\ TypeOK  BY DEF Serving, Orderly, Meeting
  <1>2. Took(u)  BY DEF Reading, Counts, Took
  <1>3. ~Counts(t)
    <2>1. Counts(t) => Took(t)  BY DEF Counts, Took
    <2> QED  BY <1>1, <1>2, <2>1 DEF Owners
  <1>4. sent[Conn(t)] = 0 /\ messageReceived[u] = 0
    BY <1>1, <1>3, NotYet, Receives
  <1>5. Conn(t) \in Slaves /\ toMaster[Conn(t)] \in Seq(Token) /\ toMaster[Conn(t)] # <<>>
    BY <1>1, Receives DEF TypeOK, ChannelTypes, Receive
  <1>6. Position(u) \in Nat
    BY <1>1, <1>4 DEF Serves, Shape, Position, Reading, Counts, Ended, Drawing
  <1>7. Cut(toMaster[Conn(t)], Script, Position(u), 0)
    BY <1>1, <1>4 DEF Serves
  <1> QED  BY <1>5, <1>6, <1>7, CutEmpty

-----------------------------------------------------------------------------
\* What keeps each part.

LEMMA Bystander ==
  ASSUME Serving, scenario' = scenario, NEW u \in Ids,
         tpc'[u] = tpc[u], first'[u] = first[u], messageReceived'[u] = messageReceived[u],
         turn'[u] = turn[u],
         Reading(u) => /\ Conn(u)' = Conn(u)
                       /\ \A n \in Nat : Cut(toMaster[Conn(u)], Script, n, sent[Conn(u)])
                                         => Cut(toMaster'[Conn(u)], Script, n, sent'[Conn(u)])
  PROVE  Serves(u)'
  <1>1. Serves(u) /\ TypeOK  BY DEF Serving, Orderly, Meeting
  <1>2. Script' = Script /\ Tests' = Tests  BY Fixed
  <1>3. Shape(u)'  BY <1>1, <1>2 DEF Serves, Shape
  <1>4. Position(u)' = Position(u)  BY <1>2 DEF Position
  <1>5. Reading(u)' = Reading(u)  BY DEF Reading, Counts
  <1>6. Position(u) \in Nat
    <2>1. turn[u] \in Nat /\ Tests \in Nat
      BY <1>1, ScenarioFacts, TestsAssumption DEF TypeOK, LocalTypes
    <2> QED  BY <2>1 DEF Position
  <1>7. ASSUME Reading(u) PROVE Cut(toMaster'[Conn(u)'], Script', Position(u)', sent'[Conn(u)'])
    <2>1. Cut(toMaster[Conn(u)], Script, Position(u), sent[Conn(u)])
      BY <1>1, <1>7 DEF Serves
    <2> QED  BY <1>2, <1>4, <1>6, <1>7, <2>1
  <1> QED  BY <1>3, <1>5, <1>7 DEF Serves

LEMMA OwnersKept ==
  ASSUME Serving, scenario' = scenario,
         \A t \in Ids : Took(t)' => Took(t) /\ Conn(t)' = Conn(t),
         Asked \cap Pending' \subseteq Pending, Asked \subseteq Asked'
  PROVE  Owners'
  <1>1. Owners /\ Ids' = Ids  BY Fixed DEF Serving, Orderly
  <1>2. ASSUME NEW t \in Ids, Took(t)' PROVE Conn(t)' \in Asked' \ Pending'
    <2>1. Took(t) /\ Conn(t)' = Conn(t)  BY <1>2
    <2>2. Conn(t) \in Asked /\ Conn(t) \notin Pending  BY <1>1, <2>1 DEF Owners
    <2> QED  BY <2>1, <2>2
  <1>3. ASSUME NEW t \in Ids, NEW u \in Ids, Took(t)', Took(u)', Conn(t)' = Conn(u)' PROVE t = u
    <2>1. Took(t) /\ Took(u) /\ Conn(t) = Conn(u)  BY <1>3
    <2> QED  BY <1>1, <2>1 DEF Owners
  <1> QED  BY <1>1, <1>2, <1>3 DEF Owners

LEMMA TallyKept ==
  ASSUME Serving, scenario' = scenario, connected' = connected,
         \A t \in Ids : Counts(t) => Counts(t)'
  PROVE  Tally'
  <1> DEFINE Counting == {t \in Ids : Counts(t)}
             After    == {t \in Ids : Counts(t)'}
  <1>1. IsFiniteSet(Ids) /\ connected \in Nat /\ connected <= Cardinality(Counting)
    BY ScenarioFacts DEF Serving, Orderly, Meeting, TypeOK, StatusTypes, Tally
  <1>2. IsFiniteSet(After) /\ Counting \in SUBSET After
    <2>1. After \in SUBSET Ids  OBVIOUS
    <2>2. IsFiniteSet(After)  BY <1>1, <2>1, FS_Subset
    <2> QED  BY <2>2
  <1>3. Cardinality(Counting) <= Cardinality(After) /\ Cardinality(Counting) \in Nat /\ Cardinality(After) \in Nat
    BY <1>2, FS_Subset, FS_CardinalityType
  <1>4. Tally' <=> connected' <= Cardinality(After)
    <2>1. Ids' = Ids  BY Fixed
    <2>2. {t \in Ids : Counts(t)}' = After  BY <2>1
    <2> QED  BY <2>2 DEF Tally
  <1> QED
    <2> HIDE DEF Counting, After
    <2> QED  BY <1>1, <1>3, <1>4

-----------------------------------------------------------------------------
\* The steps that change nothing of a thread.

LEMMA ThreadsKept ==
  ASSUME Serving, UNCHANGED <<scenario, tpc, localVars, sock, connected>>
  PROVE  /\ \A t \in Ids : Conn(t)' = Conn(t) /\ Took(t)' = Took(t)
         /\ Tally' /\ Served'
  <1>1. \A t \in Ids : Conn(t)' = Conn(t) /\ Took(t)' = Took(t)
    BY DEF Conn, Took, localVars
  <1>2. \A t \in Ids : Counts(t)' = Counts(t)
    BY DEF Counts, localVars
  <1>3. Tally'
    BY <1>2, TallyKept
  <1>4. Served'
    BY Fixed DEF Serving, Orderly, Served, localVars
  <1> QED  BY <1>1, <1>3, <1>4

\* Nothing is sent or read.
LEMMA OrderlyQuiet ==
  ASSUME Serving, UNCHANGED <<scenario, tpc, localVars, sock, connected, toMaster, sent>>,
         Asked \subseteq Asked'
  PROVE  Orderly'
  <1>1. Tally' /\ Served' /\ \A t \in Ids : Conn(t)' = Conn(t) /\ Took(t)' = Took(t)
    BY ThreadsKept
  <1>2. Pending' = Pending  BY Fixed DEF Pending
  <1>3. Owners'  BY <1>1, <1>2, OwnersKept
  <1>4. Unstarted'  BY Fixed DEF Serving, Orderly, Unstarted
  <1>5. \A u \in Ids : Serves(u)'
    BY <1>1, Bystander DEF localVars
  <1> QED  BY <1>1, <1>3, <1>4, <1>5, Fixed DEF Orderly

LEMMA OrderlySlave ==
  ASSUME Serving, NEW s \in Slaves, Connect(s) \/ ReadStart(s) \/ Benchmark(s) \/ Die(s)
  PROVE  Orderly'
  <1>1. /\ UNCHANGED <<scenario, tpc, localVars, sock, connected, toMaster, sent>>
        /\ \/ spc[s] = "new" /\ spc' = [spc EXCEPT ![s] = "open"]
           \/ \E there \in SlavePc \ {"new", "open"} : spc' = [spc EXCEPT ![s] = there]
    BY DEF Connect, ReadStart, Benchmark, Die, SlaveGoto, SlavePc, masterVars, localVars, statusVars
  <1>2. Asked \subseteq Asked'
    BY <1>1, Fixed DEF Serving, Meeting, TypeOK, SlaveTypes, Asked
  <1> QED  BY <1>1, <1>2, OrderlyQuiet

LEMMA OrderlyIdle ==
  ASSUME Serving, Plot \/ Aside \/ (\E t \in Ids : EndOfFile(t)) \/ UNCHANGED vars
  PROVE  Orderly'
  <1>1. UNCHANGED <<scenario, tpc, localVars, sock, connected, toMaster, sent, spc>>
    BY AsideEffects DEF Plot, EndOfFile, vars, masterVars, localVars, statusVars, slaveVars
  <1>2. Asked \subseteq Asked'
    BY <1>1, Fixed DEF Asked
  <1> QED  BY <1>1, <1>2, OrderlyQuiet

\* A request, of a slave that no thread has read anything of.
LEMMA OrderlyRequest ==
  ASSUME Serving, NEW s \in Slaves, SendConnect(s)
  PROVE  Orderly'
  <1> DEFINE request == <<<<"CONNECT", 0>>, <<"NUL", 0>>>>
  <1>0. TypeOK /\ RequestFirst /\ Owners /\ Unstarted
    BY DEF Serving, Orderly, Meeting
  <1>1. /\ UNCHANGED <<scenario, tpc, localVars, sock, connected, sent>>
        /\ spc[s] = "open" /\ spc' = [spc EXCEPT ![s] = "ready"]
        /\ toMaster' = [toMaster EXCEPT ![s] = @ \o request]
    BY DEF SendConnect, SlaveGoto, masterVars, localVars, statusVars
  <1>2. spc \in [Slaves -> SlavePc] /\ toMaster \in [Slaves -> Seq(Token)]
    BY <1>0 DEF TypeOK, SlaveTypes, ChannelTypes
  <1>3. toMaster[s] = <<>>
    BY <1>0, <1>1 DEF RequestFirst
  <1>4. /\ toMaster'[s] = request
        /\ \A r \in Slaves \ {s} : toMaster'[r] = toMaster[r]
    BY <1>1, <1>2, <1>3
  <1>5. Tally' /\ Served' /\ \A t \in Ids : Conn(t)' = Conn(t) /\ Took(t)' = Took(t)
    BY <1>1, ThreadsKept
  <1>6. Asked \subseteq Asked' /\ s \notin Asked
    BY <1>1, <1>2, Fixed DEF Asked
  <1>7. Asked \cap Pending' \subseteq Pending
    BY <1>1, <1>4, <1>6, Fixed DEF Asked, Pending
  <1>8. Owners'
    BY <1>1, <1>5, <1>6, <1>7, OwnersKept
  <1>9. Unstarted'
    BY <1>0, <1>1, <1>4, Fixed DEF Unstarted
  <1>10. ASSUME NEW u \in Ids PROVE Serves(u)'
    <2>1. Reading(u) => Conn(u) \in Slaves \ {s}
      <3>1. Reading(u) => Took(u)  BY DEF Reading, Counts, Took
      <3> QED  BY <1>0, <1>6, <3>1 DEF Owners, Asked
    <2>2. Reading(u) => toMaster'[Conn(u)] = toMaster[Conn(u)] /\ sent' = sent
      BY <1>1, <1>4, <2>1
    <2> QED  BY <1>1, <1>5, <2>2, Bystander DEF localVars
  <1> QED  BY <1>1, <1>5, <1>8, <1>9, <1>10, Fixed DEF Orderly

\* The next token of a report.
LEMMA OrderlyReport ==
  ASSUME Serving, NEW s \in Slaves, SendReport(s)
  PROVE  Orderly'
  <1> DEFINE token == Script[sent[s] + 1]
  <1>0. TypeOK /\ Meeting /\ Owners /\ Unstarted
    BY DEF Serving, Orderly, Meeting
  <1>1. /\ UNCHANGED <<scenario, tpc, localVars, sock, connected>>
        /\ spc[s] = "report"
        /\ \E there \in {"spin", "report"} : spc' = [spc EXCEPT ![s] = there]
        /\ toMaster' = [toMaster EXCEPT ![s] = Append(@, token)]
        /\ sent' = [sent EXCEPT ![s] = @ + 1]
    BY DEF SendReport, SlaveGoto, masterVars, localVars, statusVars
  <1>2. token \in Token /\ token[1] # "CONNECT" /\ sent[s] \in Nat
    BY <1>0, <1>1, SendsNext
  <1>3. /\ spc \in [Slaves -> SlavePc] /\ toMaster \in [Slaves -> Seq(Token)]
        /\ sent \in [Slaves -> Nat]
    BY <1>0 DEF TypeOK, SlaveTypes, ChannelTypes
  <1>4. /\ toMaster'[s] = Append(toMaster[s], token) /\ sent'[s] = sent[s] + 1
        /\ \A r \in Slaves \ {s} : toMaster'[r] = toMaster[r] /\ sent'[r] = sent[r]
    BY <1>1, <1>3
  <1>5. Tally' /\ Served' /\ \A t \in Ids : Conn(t)' = Conn(t) /\ Took(t)' = Took(t)
    BY <1>1, ThreadsKept
  <1>6. Asked \subseteq Asked'
    BY <1>1, <1>3, Fixed DEF Asked
  <1>7. Pending' \subseteq Pending
    <2>1. ASSUME s \in Pending' PROVE s \in Pending
      <3>0. /\ Len(Append(toMaster[s], token)) = Len(toMaster[s]) + 1
            /\ Len(toMaster[s]) \in Nat
            /\ \A n \in 1..Len(toMaster[s]) : toMaster'[s][n] = toMaster[s][n]
            /\ toMaster'[s][Len(toMaster[s]) + 1] = token
        <4> HIDE DEF Token, token
        <4> QED  BY <1>2, <1>3, <1>4
      <3>1. toMaster'[s][1][1] = "CONNECT"  BY <2>1 DEF Pending
      <3>2. Len(toMaster[s]) + 1 # 1  BY <1>2, <3>0, <3>1
      <3>3. 1 \in 1..Len(toMaster[s])  BY <3>0, <3>2
      <3>4. toMaster[s][1][1] = "CONNECT"  BY <3>0, <3>1, <3>3
      <3>5. toMaster[s] # <<>>  BY <3>3
      <3> QED  BY <3>4, <3>5 DEF Pending
    <2>2. ASSUME NEW r \in Slaves \ {s}, r \in Pending' PROVE r \in Pending
      BY <1>4, <2>2 DEF Pending
    <2> QED  BY <1>1, <2>1, <2>2, Fixed DEF Pending
  <1>8. Owners'
    BY <1>1, <1>5, <1>6, <1>7, OwnersKept
  <1>9. Unstarted'
    <2>1. ASSUME NEW r \in Slaves, sent'[r] = 0 PROVE r # s /\ sent[r] = 0
      BY <1>2, <1>4, <2>1
    <2> QED  BY <1>0, <1>1, <1>4, <2>1, Fixed DEF Unstarted
  <1>10. ASSUME NEW u \in Ids PROVE Serves(u)'
    <2>1. Conn(u) \in Slaves  BY <1>0 DEF Conn, TypeOK, MasterTypes, LocalTypes
    <2>2. ASSUME NEW n \in Nat, Cut(toMaster[Conn(u)], Script, n, sent[Conn(u)])
          PROVE  Cut(toMaster'[Conn(u)], Script, n, sent'[Conn(u)])
      <3>1. CASE Conn(u) = s
        <4> HIDE DEF Token
        <4>1. /\ toMaster[s] \in Seq(Token) /\ Script[sent[s] + 1] \in Token
              /\ Cut(toMaster[s], Script, n, sent[s])
          BY <1>2, <1>3, <2>2, <3>1
        <4>2. Cut(Append(toMaster[s], Script[sent[s] + 1]), Script, n, sent[s] + 1)
          BY <1>2, <4>1, CutMore
        <4> QED  BY <1>4, <3>1, <4>2
      <3>2. CASE Conn(u) # s
        BY <1>4, <2>1, <2>2, <3>2
      <3> QED  BY <3>1, <3>2
    <2> QED  BY <1>1, <1>5, <2>2, Bystander DEF localVars
  <1> QED  BY <1>1, <1>5, <1>8, <1>9, <1>10, Fixed DEF Orderly

\* A new connection, whose number no thread has yet.
LEMMA OrderlyAccept ==
  ASSUME Serving, NEW s \in Slaves, Accept(s)
  PROVE  Orderly'
  <1>0. TypeOK /\ Accepted /\ Served /\ Unstarted
    BY DEF Serving, Orderly, Meeting
  <1>1. /\ UNCHANGED <<scenario, connected, localVars, spc, sent, toMaster>>
        /\ index \in Ids /\ tpc[index] = "off" /\ tpc' = [tpc EXCEPT ![index] = "created"]
        /\ sock' = [sock EXCEPT ![index] = s]
    BY <1>0, AcceptEffects
  <1>2. tpc \in [Ids -> ThreadPc] /\ sock \in [Ids -> Slaves] /\ id \in [Ids -> Ids] /\ Ids \subseteq Int
    BY <1>0, ScenarioFacts DEF TypeOK, MasterTypes, LocalTypes
  <1>3. Serves(index)  BY <1>1 DEF Serving, Orderly
  <1>4. messageReceived[index] = 0 /\ turn[index] = 1 /\ turn[index] <= Tests
    BY <1>1, <1>3 DEF Serves, Shape, Ended, Drawing
  <1>5. /\ tpc'[index] = "created" /\ \A u \in Ids \ {index} : tpc'[u] = tpc[u]
        /\ UNCHANGED <<id, first, messageReceived, turn>>
    BY <1>1, <1>2 DEF localVars
  <1>6. ASSUME NEW u \in Ids, tpc[u] \notin {"off", "created"} PROVE Conn(u)' = Conn(u)
    <2>1. id[u] < index /\ id[u] \in Ids  BY <1>0, <1>2, <1>6 DEF Accepted
    <2>2. id[u] # index  BY <1>1, <1>2, <2>1
    <2>3. sock'[id[u]] = sock[id[u]]  BY <1>1, <1>2, <2>1, <2>2
    <2> QED  BY <1>5, <2>3 DEF Conn
  <1>7. ASSUME NEW u \in Ids, Took(u)' PROVE Took(u) /\ Conn(u)' = Conn(u)
    <2>1. u # index  BY <1>4, <1>5, <1>7 DEF Took
    <2>2. Took(u)  BY <1>5, <1>7, <2>1 DEF Took
    <2>3. Serves(u)  BY DEF Serving, Orderly
    <2>4. tpc[u] \notin {"off", "created"}  BY <2>2, <2>3 DEF Took, Serves, Shape, Ended, Drawing
    <2> QED  BY <1>6, <2>2, <2>4
  <1>8. Asked' = Asked /\ Pending' = Pending
    BY <1>1, Fixed DEF Asked, Pending
  <1>9. Owners'
    BY <1>1, <1>7, <1>8, OwnersKept
  <1>10. ASSUME NEW u \in Ids, Counts(u) PROVE Counts(u)'
    BY <1>1, <1>5, <1>10 DEF Counts
  <1>11. Tally'
    BY <1>1, <1>10, TallyKept
  <1>12. Served' /\ Unstarted'
    BY <1>0, <1>1, <1>5, Fixed DEF Served, Unstarted
  <1>13. ASSUME NEW u \in Ids PROVE Serves(u)'
    <2>1. CASE u = index
      <3>1. Shape(u)'
        BY <1>1, <1>4, <1>5, <2>1, Fixed DEF Shape, Ended, Drawing
      <3>2. ~Reading(u)'
        BY <1>4, <1>5, <2>1 DEF Reading, Counts
      <3> QED  BY <3>1, <3>2 DEF Serves
    <2>2. CASE u # index
      <3>1. Serves(u)  BY DEF Serving, Orderly
      <3>2. Reading(u) => tpc[u] \notin {"off", "created"}
        BY <3>1 DEF Serves, Shape, Reading, Counts, Ended, Drawing
      <3>3. Reading(u) => Conn(u)' = Conn(u)
        BY <1>6, <3>2
      <3> QED  BY <1>1, <1>5, <2>2, <3>3, Bystander
    <2> QED  BY <2>1, <2>2
  <1> QED  BY <1>1, <1>9, <1>11, <1>12, <1>13, Fixed DEF Orderly

-----------------------------------------------------------------------------
\* The steps of a thread.

LEMMA ThreadReads ==
  ASSUME NEW t \in Ids, Thread(t)
  PROVE  UNCHANGED toMaster \/ Receive(t)
  BY DEF Thread, ReadParam, ReadFirst, ReadSecond, ConnectRequest, WakeUp, SendStart, Report,
     ReadEnvironment, ReadValues, LockPlot, ReadShared, StopSampler, JoinSampler, EndOfFile

\* What it means for the others.
LEMMA ThreadOthers ==
  ASSUME Serving, NEW t \in Ids, Thread(t)
  PROVE  /\ Asked' = Asked /\ Pending' \subseteq Pending
         /\ \A u \in Ids \ {t} : /\ Conn(u)' = Conn(u) /\ Took(u)' = Took(u) /\ Counts(u)' = Counts(u)
                                 /\ Serves(u)'
         /\ Unstarted'
  <1>0. TypeOK /\ RequestFirst /\ Unstarted  BY DEF Serving, Orderly, Meeting
  <1>1. /\ UNCHANGED <<scenario, sock, spc, sent>>
        /\ \A u \in Ids \ {t} : /\ tpc'[u] = tpc[u] /\ id'[u] = id[u] /\ first'[u] = first[u]
                                /\ messageReceived'[u] = messageReceived[u] /\ turn'[u] = turn[u]
    BY <1>0, ThreadEffects
  <1>2. CASE UNCHANGED toMaster
    <2>1. Asked' = Asked /\ Pending' = Pending  BY <1>1, <1>2, Fixed DEF Asked, Pending
    <2>2. ASSUME NEW u \in Ids \ {t}
          PROVE  Conn(u)' = Conn(u) /\ Took(u)' = Took(u) /\ Counts(u)' = Counts(u)
      BY <1>1 DEF Conn, Took, Counts
    <2>3. ASSUME NEW u \in Ids \ {t} PROVE Serves(u)'
      BY <1>1, <1>2, <2>2, Bystander
    <2>4. Unstarted'
      BY <1>0, <1>1, <1>2, Fixed DEF Unstarted
    <2> QED  BY <2>1, <2>2, <2>3, <2>4
  <1>3. CASE Receive(t)
    <2>1. Asked' = Asked /\ Pending' \subseteq Pending
      BY <1>0, <1>1, <1>3, ReceiveStep
    <2>2. ASSUME NEW u \in Ids \ {t}
          PROVE  Conn(u)' = Conn(u) /\ Took(u)' = Took(u) /\ Counts(u)' = Counts(u)
      BY <1>1 DEF Conn, Took, Counts
    <2>3. /\ Conn(t) \in Slaves /\ toMaster \in [Slaves -> Seq(Token)] /\ toMaster[Conn(t)] # <<>>
          /\ toMaster' = [toMaster EXCEPT ![Conn(t)] = Tail(@)]
      BY <1>0, <1>3, Receives DEF TypeOK, ChannelTypes, Receive
    <2>4. ASSUME NEW u \in Ids \ {t} PROVE Serves(u)'
      <3>1. Conn(u) \in Slaves  BY <1>0 DEF Conn, TypeOK, MasterTypes, LocalTypes
      <3>2. Reading(u) => toMaster'[Conn(u)] = toMaster[Conn(u)]
        BY <1>3, <2>3, <3>1, Alone
      <3> QED  BY <1>1, <2>2, <3>2, Bystander
    <2>5. Unstarted'
      <3>1. ASSUME NEW s \in Slaves, sent[s] = 0
            PROVE  toMaster'[s] \in {<<>>, <<<<"NUL", 0>>>>, <<<<"CONNECT", 0>>, <<"NUL", 0>>>>}
        <4>1. toMaster[s] \in {<<>>, <<<<"NUL", 0>>>>, <<<<"CONNECT", 0>>, <<"NUL", 0>>>>}
          BY <1>0, <3>1 DEF Unstarted
        <4>2. CASE s # Conn(t)  BY <2>3, <4>1, <4>2
        <4>3. CASE s = Conn(t)
          <5>1. toMaster'[s] = Tail(toMaster[s]) /\ toMaster[s] # <<>>  BY <2>3, <4>3
          <5>2. Tail(<<<<"NUL", 0>>>>) = <<>>  OBVIOUS
          <5>3. Tail(<<<<"CONNECT", 0>>, <<"NUL", 0>>>>) = <<<<"NUL", 0>>>>  OBVIOUS
          <5> QED  BY <4>1, <5>1, <5>2, <5>3
        <4> QED  BY <4>2, <4>3
      <3> QED  BY <1>1, <3>1, Fixed DEF Unstarted
    <2> QED  BY <2>1, <2>2, <2>4, <2>5
  <1> QED  BY <1>2, <1>3, ThreadReads

\* A thread's step is in order if the thread is where it should be, its request
\* is its own, and it has counted it.
LEMMA OrderlyThread ==
  ASSUME Serving, NEW t \in Ids, Thread(t), Serves(t)', Tally', connected' \in {connected, connected + 1},
         tpc[t] # "created" \/ ~Took(t)',
         Took(t)' => Took(t) \/ (Receive(t) /\ Conn(t) \in Pending),
         messageReceived'[t] > 0 => messageReceived[t] > 0 \/ tpc[t] = "start"
  PROVE  Orderly'
  <1>0. TypeOK /\ RequestFirst /\ Owners /\ Served /\ Past
    BY DEF Serving, Orderly, Meeting
  <1>1. /\ UNCHANGED <<scenario, sock, spc, sent>>
        /\ \A u \in Ids \ {t} : messageReceived'[u] = messageReceived[u]
        /\ id'[t] = IF tpc[t] = "created" THEN param ELSE id[t]
    BY <1>0, ThreadEffects
  <1>2. /\ Asked' = Asked /\ Pending' \subseteq Pending
        /\ \A u \in Ids \ {t} : Conn(u)' = Conn(u) /\ Took(u)' = Took(u) /\ Serves(u)'
        /\ Unstarted'
    BY ThreadOthers
  <1>3. Took(t)' => Conn(t)' = Conn(t)
    BY <1>1 DEF Conn
  <1>4. ASSUME Took(t)', ~Took(t)
        PROVE  Conn(t) \in Asked \ Pending' /\ \A u \in Ids \ {t} : Took(u) => Conn(u) # Conn(t)
    <2>1. Receive(t) /\ Conn(t) \in Pending  BY <1>4
    <2>2. Conn(t) \notin Pending'  BY <1>0, <1>1, <2>1, ReceiveStep
    <2>3. Conn(t) \in Asked  BY <1>0, <2>1 DEF Pending, Asked, RequestFirst
    <2> QED  BY <1>0, <2>1, <2>2, <2>3 DEF Owners
  <1>5. ASSUME NEW u \in Ids, Took(u)' PROVE Conn(u)' \in Asked' \ Pending'
    <2>1. CASE Took(u)  BY <1>0, <1>2, <1>3, <1>5, <2>1 DEF Owners
    <2>2. CASE ~Took(u)  BY <1>2, <1>3, <1>4, <1>5, <2>2
    <2> QED  BY <2>1, <2>2
  <1>6. ASSUME NEW u \in Ids, NEW v \in Ids, Took(u)', Took(v)', Conn(u)' = Conn(v)' PROVE u = v
    <2>1. Conn(u) = Conn(v)  BY <1>2, <1>3, <1>6
    <2>2. CASE Took(u) /\ Took(v)  BY <1>0, <2>1, <2>2 DEF Owners
    <2>3. CASE ~Took(u)  BY <1>2, <1>4, <1>6, <2>1, <2>3
    <2>4. CASE ~Took(v)  BY <1>2, <1>4, <1>6, <2>1, <2>4
    <2> QED  BY <2>2, <2>3, <2>4
  <1>7. Owners'  BY <1>1, <1>5, <1>6, Fixed DEF Owners
  <1>8. Served'
    <2>1. /\ connected \in Nat /\ Quantity \in Nat
          /\ \A u \in Ids : messageReceived[u] \in Nat
      BY <1>0, ScenarioFacts DEF TypeOK, StatusTypes, LocalTypes
    <2>4. ASSUME NEW u \in Ids, messageReceived'[u] > 0 PROVE connected >= Quantity
      <3>1. messageReceived[u] > 0 \/ tpc[u] = "start"  BY <1>1, <2>4
      <3> QED  BY <1>0, <3>1 DEF Served, Past
    <2>5. ASSUME NEW u \in Ids, messageReceived'[u] > 0 PROVE connected' >= Quantity
      BY <2>1, <2>4, <2>5
    <2> QED  BY <1>1, <2>5, Fixed DEF Served
  <1> QED  BY <1>1, <1>2, <1>7, <1>8, Fixed DEF Orderly

\* The next token that a thread reads is the next one of the script.
LEMMA ReadsOn ==
  ASSUME Serving, NEW t \in Ids, Receive(t), Reading(t)
  PROVE  /\ Position(t) \in Nat /\ sent[Conn(t)] \in Nat
         /\ Head(toMaster[Conn(t)]) = Script[Position(t) + 1]
         /\ Cut(toMaster'[Conn(t)], Script, Position(t) + 1, sent[Conn(t)])
  <1>0. TypeOK /\ Serves(t)  BY DEF Serving, Orderly, Meeting
  <1>1. /\ Conn(t) \in Slaves /\ toMaster \in [Slaves -> Seq(Token)] /\ toMaster[Conn(t)] # <<>>
        /\ toMaster' = [toMaster EXCEPT ![Conn(t)] = Tail(@)]
        /\ sent[Conn(t)] \in Nat
    BY <1>0, Receives DEF TypeOK, ChannelTypes, SlaveTypes, Receive
  <1>2. toMaster'[Conn(t)] = Tail(toMaster[Conn(t)])  BY <1>1
  <1>3. Position(t) \in Nat
    <2>1. turn[t] \in Nat /\ Tests \in Nat
      BY <1>0, ScenarioFacts, TestsAssumption DEF TypeOK, LocalTypes
    <2> QED  BY <2>1 DEF Position
  <1>4. Cut(toMaster[Conn(t)], Script, Position(t), sent[Conn(t)])
    BY <1>0 DEF Serves
  <1> HIDE DEF Token
  <1>5. toMaster[Conn(t)] \in Seq(Token)  BY <1>1
  <1> QED  BY <1>1, <1>2, <1>3, <1>4, <1>5, CutTail

LEMMA Onward ==
  ASSUME Serving, NEW t \in Ids, Thread(t), tpc[t] # "created", UNCHANGED toMaster, Shape(t)',
         Reading(t)' => Reading(t) /\ Position(t)' = Position(t)
  PROVE  Serves(t)'
  <1>0. TypeOK /\ Serves(t)  BY DEF Serving, Orderly, Meeting
  <1>1. UNCHANGED <<scenario, sock, sent>> /\ id'[t] = id[t]  BY <1>0, ThreadEffects
  <1>2. Conn(t)' = Conn(t) /\ Script' = Script  BY <1>1, Fixed DEF Conn
  <1>3. Reading(t)' => Cut(toMaster'[Conn(t)'], Script', Position(t)', sent'[Conn(t)'])
    BY <1>0, <1>1, <1>2 DEF Serves
  <1> QED  BY <1>3 DEF Serves

LEMMA OnwardReading ==
  ASSUME Serving, NEW t \in Ids, Thread(t), tpc[t] # "created", Receive(t), Reading(t), Shape(t)',
         Position(t)' = Position(t) + 1
  PROVE  Serves(t)'
  <1>0. TypeOK  BY DEF Serving, Meeting
  <1>1. UNCHANGED <<scenario, sock, sent>> /\ id'[t] = id[t]  BY <1>0, ThreadEffects
  <1>2. Conn(t)' = Conn(t) /\ Script' = Script  BY <1>1, Fixed DEF Conn
  <1>3. Cut(toMaster'[Conn(t)], Script, Position(t) + 1, sent[Conn(t)])  BY ReadsOn
  <1>4. Reading(t)' => Cut(toMaster'[Conn(t)'], Script', Position(t)', sent'[Conn(t)'])
    BY <1>1, <1>2, <1>3
  <1> QED  BY <1>4 DEF Serves

LEMMA TwoParts ==
  ASSUME NEW S, NEW a \in Seq(S), NEW b \in Seq(S), NEW ab, ab = a \o b
  PROVE  /\ ab \in Seq(S) /\ Len(ab) = Len(a) + Len(b)
         /\ \A i \in 1..Len(a) : ab[i] = a[i]
         /\ \A i \in 1..Len(b) : ab[Len(a) + i] = b[i]
  OBVIOUS

LEMMA FourParts ==
  ASSUME NEW S, NEW a \in Seq(S), NEW b \in Seq(S), NEW c \in Seq(S), NEW d \in Seq(S),
         NEW abcd, abcd = a \o b \o c \o d
  PROVE  /\ Len(abcd) = Len(a) + Len(b) + Len(c) + Len(d)
         /\ \A i \in 1..Len(a) : abcd[i] = a[i]
         /\ \A i \in 1..Len(c) : abcd[Len(a) + Len(b) + i] = c[i]
         /\ \A i \in 1..Len(d) : abcd[Len(a) + Len(b) + Len(c) + i] = d[i]
  <1>0. {Len(a), Len(b), Len(c), Len(d)} \subseteq Nat
    OBVIOUS
  <1>1. PICK ab : ab = a \o b  OBVIOUS
  <1>2. PICK abc : abc = ab \o c  OBVIOUS
  <1>3. abcd = abc \o d  BY <1>1, <1>2
  <1>4. ab \in Seq(S)  BY <1>1, TwoParts
  <1>5. abc \in Seq(S)  BY <1>2, <1>4, TwoParts
  <1>6. /\ ab \in Seq(S) /\ Len(ab) = Len(a) + Len(b)
        /\ \A i \in 1..Len(a) : ab[i] = a[i]
    BY <1>1, TwoParts
  <1>7. /\ abc \in Seq(S) /\ Len(abc) = Len(ab) + Len(c)
        /\ \A i \in 1..Len(ab) : abc[i] = ab[i]
        /\ \A i \in 1..Len(c) : abc[Len(ab) + i] = c[i]
    BY <1>2, <1>4, TwoParts
  <1>8. /\ Len(abcd) = Len(abc) + Len(d)
        /\ \A i \in 1..Len(abc) : abcd[i] = abc[i]
        /\ \A i \in 1..Len(d) : abcd[Len(abc) + i] = d[i]
    BY <1>3, <1>5, TwoParts
  <1>9. \A i \in 1..Len(a) : i \in 1..Len(ab) /\ i \in 1..Len(abc)
    BY <1>0, <1>6, <1>7
  <1>10. \A i \in 1..Len(c) : Len(ab) + i \in 1..Len(abc)
    BY <1>0, <1>6, <1>7
  <1>11. \A i \in 1..Len(a) : abcd[i] = a[i]  BY <1>6, <1>7, <1>8, <1>9
  <1>12. \A i \in 1..Len(c) : abcd[Len(ab) + i] = c[i]  BY <1>7, <1>8, <1>10
  <1> QED  BY <1>6, <1>7, <1>8, <1>11, <1>12

\* The first tokens of a script, and how many it has; of a single test, what it
\* sends for the queues that are shared.
LEMMA ScriptStart ==
  ASSUME scenario \in Scenarios
  PROVE  /\ Script[1] = <<"REPORT", 0>> /\ Script[2] = <<"NUL", 0>>
         /\ Len(Script) = 3 * Tests + 3
         /\ Tests = 1 => Script[5] = <<"AVGS", 1>> /\ Script[6] = <<"RESULTS", 1>>
  <1> DEFINE Plain  == TokenName \X Nat
             Start3 == <<<<"REPORT", 0>>, <<"NUL", 0>>, <<"ENV", 0>>>>
             V == Bodies("VALUES")
             A == Bodies("AVGS")
             R == Bodies("RESULTS")
  <1>1. Tests \in Nat  BY ScenarioFacts
  <1>2. /\ V \in Seq(Plain) /\ A \in Seq(Plain) /\ R \in Seq(Plain)
        /\ Len(V) = Tests /\ Len(A) = Tests /\ Len(R) = Tests
        /\ Tests = 1 => A[1] = <<"AVGS", 1>> /\ R[1] = <<"RESULTS", 1>>
    BY <1>1 DEF Bodies, TokenName
  <1>3. Start3 \in Seq(Plain) /\ Len(Start3) = 3 /\ Start3[1] = <<"REPORT", 0>> /\ Start3[2] = <<"NUL", 0>>
    BY DEF TokenName
  <1>4. Script = Start3 \o V \o A \o R
    BY DEF Script
  <1> HIDE DEF Plain, Start3, V, A, R
  <1>5. /\ Len(Script) = Len(Start3) + Len(V) + Len(A) + Len(R)
        /\ \A i \in 1..Len(Start3) : Script[i] = Start3[i]
        /\ \A i \in 1..Len(A) : Script[Len(Start3) + Len(V) + i] = A[i]
        /\ \A i \in 1..Len(R) : Script[Len(Start3) + Len(V) + Len(A) + i] = R[i]
    <2>1. Start3 \in Seq(Plain) /\ V \in Seq(Plain) /\ A \in Seq(Plain) /\ R \in Seq(Plain)
      BY <1>2, <1>3
    <2> QED  BY <1>4, <2>1, FourParts
  <1>6. Len(Script) = 3 * Tests + 3
    BY <1>1, <1>2, <1>3, <1>5
  <1>7. Script[1] = Start3[1] /\ Script[2] = Start3[2]
    BY <1>3, <1>5
  <1>8. ASSUME Tests = 1 PROVE Script[5] = A[1] /\ Script[6] = R[1]
    <2>1. 1 \in 1..Len(A) /\ 1 \in 1..Len(R)  BY <1>2, <1>8
    <2>2. /\ Script[Len(Start3) + Len(V) + 1] = A[1]
          /\ Script[Len(Start3) + Len(V) + Len(A) + 1] = R[1]
      BY <1>5, <2>1
    <2>3. Len(Start3) + Len(V) + 1 = 5 /\ Len(Start3) + Len(V) + Len(A) + 1 = 6
      BY <1>2, <1>3, <1>8
    <2> QED  BY <2>2, <2>3
  <1> QED  BY <1>2, <1>3, <1>6, <1>7, <1>8

\* The types that the steps of a thread need.
LEMMA LocalFacts ==
  ASSUME Serving, NEW t \in Ids
  PROVE  /\ tpc \in [Ids -> ThreadPc] /\ messageReceived \in [Ids -> Nat]
         /\ turn \in [Ids -> 1..NSwitches] /\ turn[t] \in Nat /\ Tests \in Nat \ {0}
         /\ first \in [Ids -> TokenName \cup {"none"}]
         /\ Shape(t) /\ Serves(t) /\ connected \in Nat /\ TypeOK
  BY ScenarioFacts, TestsAssumption DEF Serving, Orderly, Meeting, TypeOK, LocalTypes, StatusTypes, Serves

LEMMA CountsKept ==
  ASSUME Serving, NEW t \in Ids, Thread(t), connected' = connected, Counts(t) => Counts(t)'
  PROVE  Tally'
  <1>0. TypeOK  BY DEF Serving, Meeting
  <1>1. scenario' = scenario  BY <1>0, ThreadEffects
  <1>2. \A u \in Ids : Counts(u) => Counts(u)'  BY ThreadOthers
  <1> QED  BY <1>1, <1>2, TallyKept

LEMMA OrderlyReadParam ==
  ASSUME Serving, NEW t \in Ids, ReadParam(t)
  PROVE  Orderly'
  <1>0. Thread(t)  BY DEF Thread
  <1>1. /\ tpc[t] = "created" /\ tpc'[t] = "message" /\ connected' = connected
        /\ UNCHANGED <<scenario, messageReceived, turn>>
    BY LocalFacts DEF ReadParam, Goto, masterVars, statusVars
  <1>2. messageReceived[t] = 0 /\ Shape(t)'
    BY <1>1, LocalFacts, Fixed DEF Shape, Ended, Drawing
  <1>3. ~Took(t)' /\ ~Reading(t)' /\ ~Counts(t)
    BY <1>1, <1>2 DEF Took, Reading, Counts
  <1>4. Serves(t)'  BY <1>2, <1>3 DEF Serves
  <1>5. Tally'  BY <1>0, <1>1, <1>3, CountsKept
  <1> QED  BY <1>0, <1>1, <1>2, <1>3, <1>4, <1>5, OrderlyThread

LEMMA OrderlyReadFirst ==
  ASSUME Serving, NEW t \in Ids, ReadFirst(t)
  PROVE  Orderly'
  <1> DEFINE token == Head(toMaster[Conn(t)])
  <1>0. Thread(t)  BY DEF Thread
  <1>1. /\ tpc[t] = "message" /\ tpc'[t] = "message2" /\ connected' = connected
        /\ Receive(t) /\ first'[t] = token[1]
        /\ UNCHANGED <<scenario, messageReceived, turn>>
    BY LocalFacts DEF ReadFirst, Goto, masterVars, statusVars
  <1>2. messageReceived[t] \in {0, 1} /\ turn[t] = 1 /\ turn[t] <= Tests
    BY <1>1, LocalFacts DEF Shape, Ended, Drawing
  <1>3. Counts(t)' = Counts(t)
    BY <1>1 DEF Counts
  <1>4. Tally'  BY <1>0, <1>1, <1>3, CountsKept
  <1>5. CASE messageReceived[t] = 0
    <2>1. ~Counts(t)  BY <1>1, <1>5 DEF Counts
    <2>2. Conn(t) \in Slaves /\ toMaster[Conn(t)] # <<>>
      BY <1>1, LocalFacts, Receives DEF Receive
    <2>3. sent[Conn(t)] = 0  BY <2>1, <2>2, NotYet
    <2>4. toMaster[Conn(t)] \in {<<<<"NUL", 0>>>>, <<<<"CONNECT", 0>>, <<"NUL", 0>>>>}
      BY <2>2, <2>3 DEF Serving, Orderly, Unstarted
    <2>5. token[1] # "REPORT" /\ (token[1] = "CONNECT" => Conn(t) \in Pending)
      BY <2>2, <2>4 DEF Pending
    <2>6. Shape(t)' /\ ~Reading(t)'
      BY <1>1, <1>2, <1>5, <2>5, Fixed DEF Shape, Ended, Drawing, Reading, Counts
    <2>7. Serves(t)'  BY <2>6 DEF Serves
    <2>8. Took(t)' => Conn(t) \in Pending
      BY <1>1, <1>5, <2>5 DEF Took
    <2> QED  BY <1>0, <1>1, <1>4, <1>5, <2>7, <2>8, OrderlyThread
  <1>6. CASE messageReceived[t] = 1
    <2>1. Reading(t) /\ Took(t) /\ Position(t) = 0 /\ Position(t)' = 1
      BY <1>1, <1>6 DEF Reading, Counts, Took, Position, Ended
    <2>2. token = Script[1] /\ Script[1] = <<"REPORT", 0>>
      BY <1>1, <2>1, ReadsOn, ScriptStart, LocalFacts DEF TypeOK
    <2>3. Shape(t)'
      BY <1>1, <1>2, <1>6, <2>2, Fixed DEF Shape, Ended, Drawing
    <2>4. Serves(t)'  BY <1>0, <1>1, <2>1, <2>3, OnwardReading
    <2> QED  BY <1>0, <1>1, <1>4, <1>6, <2>1, <2>4, OrderlyThread
  <1> QED  BY <1>2, <1>5, <1>6

LEMMA OrderlyReadSecond ==
  ASSUME Serving, NEW t \in Ids, ReadSecond(t)
  PROVE  Orderly'
  <1> DEFINE token == Head(toMaster[Conn(t)])
             there == IF token[1] # "NUL" THEN "message"
                      ELSE IF first[t] = "CONNECT" THEN "connect"
                      ELSE IF first[t] = "REPORT" THEN "report" ELSE "message"
  <1>0. Thread(t)  BY DEF Thread
  <1>1. /\ tpc[t] = "message2" /\ tpc'[t] = there /\ connected' = connected
        /\ Receive(t)
        /\ UNCHANGED <<scenario, messageReceived, turn, first>>
    BY LocalFacts DEF ReadSecond, Goto, masterVars, localVars, statusVars
  <1>2. messageReceived[t] \in {0, 1} /\ turn[t] = 1 /\ turn[t] <= Tests
    BY <1>1, LocalFacts DEF Shape, Ended, Drawing
  <1>3. Counts(t) => Counts(t)'
    BY <1>1 DEF Counts
  <1>4. Tally'  BY <1>0, <1>1, <1>3, CountsKept
  <1>5. CASE messageReceived[t] = 0
    <2>1. ~Counts(t) /\ first[t] # "REPORT"
      BY <1>1, <1>5, LocalFacts DEF Counts, Shape, Ended, Drawing
    <2>2. /\ Conn(t) \in Slaves /\ toMaster[Conn(t)] # <<>>
          /\ toMaster \in [Slaves -> Seq(Token)]
          /\ toMaster' = [toMaster EXCEPT ![Conn(t)] = Tail(@)]
      BY <1>1, LocalFacts, Receives DEF Receive, TypeOK, ChannelTypes
    <2>3. sent[Conn(t)] = 0  BY <2>1, <2>2, NotYet
    <2>4. toMaster[Conn(t)] \in {<<<<"NUL", 0>>>>, <<<<"CONNECT", 0>>, <<"NUL", 0>>>>}
      BY <2>2, <2>3 DEF Serving, Orderly, Unstarted
    <2>5. there \in {"message", "connect"} /\ (there = "connect" => first[t] = "CONNECT")
      BY <2>1
    <2> HIDE DEF there
    <2>6. Shape(t)'
      BY <1>1, <1>2, <1>5, <2>5, Fixed DEF Shape, Ended, Drawing
    <2>7. CASE there = "connect"
      <3>1. Took(t)  BY <1>1, <2>5, <2>7 DEF Took
      <3>2. Conn(t) \notin Pending  BY <3>1 DEF Serving, Orderly, Owners
      <3>3. toMaster[Conn(t)] = <<<<"NUL", 0>>>>
        BY <2>2, <2>4, <3>2 DEF Pending
      <3>4. toMaster'[Conn(t)] = <<>>  BY <2>2, <3>3
      <3>5. UNCHANGED <<sock, sent>> /\ id'[t] = id[t]
        BY <1>0, <1>1, LocalFacts, ThreadEffects
      <3>6. Conn(t)' = Conn(t)  BY <3>5 DEF Conn
      <3>7. Position(t)' = 0  BY <1>1, <2>7 DEF Position, Ended
      <3>8. Cut(toMaster'[Conn(t)'], Script', Position(t)', sent'[Conn(t)'])
        BY <2>3, <3>4, <3>5, <3>6, <3>7, CutEmpty
      <3>9. Serves(t)'  BY <2>6, <3>8 DEF Serves
      <3> QED  BY <1>0, <1>1, <1>4, <1>5, <3>1, <3>9, OrderlyThread
    <2>8. CASE there = "message"
      <3>1. ~Took(t)' /\ ~Reading(t)'
        BY <1>1, <1>5, <2>8 DEF Took, Reading, Counts
      <3>2. Serves(t)'  BY <2>6, <3>1 DEF Serves
      <3> QED  BY <1>0, <1>1, <1>4, <1>5, <3>1, <3>2, OrderlyThread
    <2> QED  BY <2>5, <2>7, <2>8
  <1>6. CASE messageReceived[t] = 1
    <2>1. /\ first[t] = "REPORT"
          /\ Reading(t) /\ Took(t) /\ Position(t) = 1
      BY <1>1, <1>6, LocalFacts DEF Reading, Counts, Took, Position, Ended, Shape, Drawing
    <2>2. token = Script[2] /\ Script[2] = <<"NUL", 0>>
      BY <1>1, <2>1, ReadsOn, ScriptStart, LocalFacts DEF TypeOK
    <2>6. token[1] = "NUL"  BY <2>2
    <2>3. tpc'[t] = "report"
      BY <1>1, <2>1, <2>6
    <2>7. messageReceived'[t] = 1 /\ turn'[t] = 1 /\ Tests' = Tests
      BY <1>1, <1>2, <1>6, Fixed
    <2>8. Shape(t)'  BY <1>2, <2>3, <2>7 DEF Shape, Ended, Drawing
    <2>9. Position(t)' = 2  BY <2>3 DEF Position, Ended
    <2>4. Shape(t)' /\ Position(t)' = 2  BY <2>8, <2>9
    <2>5. Serves(t)'  BY <1>0, <1>1, <2>1, <2>4, OnwardReading
    <2> QED  BY <1>0, <1>1, <1>4, <1>6, <2>1, <2>5, OrderlyThread
  <1> QED  BY <1>2, <1>5, <1>6

\* The thread that counts a request was not counted.
LEMMA OrderlyConnectRequest ==
  ASSUME Serving, NEW t \in Ids, ConnectRequest(t)
  PROVE  Orderly'
  <1>0. Thread(t)  BY DEF Thread
  <1>1. /\ tpc[t] = "connect" /\ tpc'[t] \in {"wait", "start"} /\ connected' = connected + 1
        /\ UNCHANGED <<scenario, messageReceived, turn, first, toMaster>>
    BY LocalFacts DEF ConnectRequest, PastBarrier, Goto, masterVars, localVars
  <1>2. messageReceived[t] = 0 /\ turn[t] = 1 /\ turn[t] <= Tests
    BY <1>1, LocalFacts DEF Shape, Ended, Drawing
  <1>3. Shape(t)' /\ Reading(t) /\ Position(t)' = Position(t) /\ Took(t)
    BY <1>1, <1>2, Fixed DEF Shape, Ended, Drawing, Reading, Position, Took
  <1>4. Serves(t)'  BY <1>0, <1>1, <1>3, Onward
  <1>5. Tally'
    <2> DEFINE Counting == {u \in Ids : Counts(u)}
    <2>1. ~Counts(t) /\ Counts(t)'  BY <1>1, <1>2 DEF Counts
    <2>2. \A u \in Ids \ {t} : Counts(u)' = Counts(u)  BY <1>0, ThreadOthers
    <2>3. Ids' = Ids  BY <1>1, Fixed
    <2>4. Counting' = Counting \cup {t} /\ t \notin Counting  BY <2>1, <2>2, <2>3
    <2>5. IsFiniteSet(Counting)
      <3>1. Counting \in SUBSET Ids  OBVIOUS
      <3> QED  BY <3>1, LocalFacts, ScenarioFacts, FS_Subset DEF TypeOK
    <2>6. connected <= Cardinality(Counting)  BY DEF Serving, Orderly, Tally
    <2> HIDE DEF Counting
    <2>7. Cardinality(Counting') = Cardinality(Counting) + 1 /\ Cardinality(Counting) \in Nat
      BY <2>4, <2>5, FS_AddElement, FS_CardinalityType
    <2>8. connected' <= Cardinality(Counting')
      BY <1>1, <2>6, <2>7, LocalFacts
    <2> QED  BY <2>8 DEF Tally, Counting
  <1> QED  BY <1>0, <1>1, <1>2, <1>3, <1>4, <1>5, OrderlyThread

LEMMA OrderlyWakeUp ==
  ASSUME Serving, NEW t \in Ids, WakeUp(t)
  PROVE  Orderly'
  <1>0. Thread(t)  BY DEF Thread
  <1>1. /\ tpc[t] = "wait" /\ tpc'[t] \in {"wait", "start"} /\ connected' = connected
        /\ UNCHANGED <<scenario, messageReceived, turn, first, toMaster>>
    BY LocalFacts DEF WakeUp, PastBarrier, Goto, masterVars, localVars
  <1>2. messageReceived[t] = 0 /\ turn[t] = 1 /\ turn[t] <= Tests
    BY <1>1, LocalFacts DEF Shape, Ended, Drawing
  <1>3. /\ Shape(t)' /\ Reading(t) /\ Position(t)' = Position(t) /\ Took(t) /\ Counts(t)'
    BY <1>1, <1>2, Fixed DEF Shape, Ended, Drawing, Reading, Position, Took, Counts
  <1>4. Serves(t)'  BY <1>0, <1>1, <1>3, Onward
  <1>5. Tally'  BY <1>0, <1>1, <1>3, CountsKept
  <1> QED  BY <1>0, <1>1, <1>2, <1>3, <1>4, <1>5, OrderlyThread

LEMMA OrderlySendStart ==
  ASSUME Serving, NEW t \in Ids, SendStart(t)
  PROVE  Orderly'
  <1>0. Thread(t)  BY DEF Thread
  <1>1. /\ tpc[t] = "start" /\ connected' = connected
        /\ messageReceived'[t] = messageReceived[t] + 1
        /\ tpc'[t] = IF messageReceived[t] + 1 = 2 THEN "stop" ELSE "message"
        /\ UNCHANGED <<scenario, turn, first, toMaster>>
    BY LocalFacts DEF SendStart, Goto, masterVars, statusVars
  <1>2. messageReceived[t] = 0 /\ turn[t] = 1 /\ turn[t] <= Tests
    BY <1>1, LocalFacts DEF Shape, Ended, Drawing
  <1>3. /\ Shape(t)' /\ Reading(t) /\ Position(t)' = Position(t) /\ Took(t) /\ Counts(t)'
    BY <1>1, <1>2, Fixed DEF Shape, Ended, Drawing, Reading, Position, Took, Counts
  <1>4. Serves(t)'  BY <1>0, <1>1, <1>3, Onward
  <1>5. Tally'  BY <1>0, <1>1, <1>3, CountsKept
  <1> QED  BY <1>0, <1>1, <1>3, <1>4, <1>5, OrderlyThread

\* What reads nothing, once the report has come.
LEMMA OrderlyOn ==
  ASSUME Serving, NEW t \in Ids,
         \/ Report(t) \/ StopSampler(t) \/ JoinSampler(t)
         \/ \E kind \in Shared : LockPlot(t, kind)
  PROVE  Orderly'
  <1>0. Thread(t)  BY DEF Thread
  <1>1. /\ UNCHANGED <<scenario, connected, messageReceived, turn, first, toMaster>>
        /\ \/ tpc[t] = "report" /\ tpc'[t] = "environment"
           \/ tpc[t] \in {"stop", "joinSampler"} /\ tpc'[t] \in {"joinSampler", "exited"}
           \/ tpc[t] = "lockAVGS" /\ tpc'[t] = "AVGS"
           \/ tpc[t] = "lockRESULTS" /\ tpc'[t] = "RESULTS"
    BY LocalFacts DEF Report, StopSampler, JoinSampler, LockPlot, Locking, Shared, Goto,
       masterVars, localVars, statusVars
  <1>2. messageReceived[t] > 0 /\ messageReceived'[t] = messageReceived[t]
    BY <1>1, LocalFacts DEF Shape, Ended, Drawing
  <1>3. /\ Shape(t)'
        /\ Position(t)' = Position(t)
    BY <1>1, LocalFacts, Fixed DEF Shape, Ended, Drawing, Position
  <1>4. Reading(t) /\ Took(t) /\ Counts(t)' /\ tpc[t] # "created"
    BY <1>1, <1>2 DEF Reading, Took, Counts
  <1>5. Serves(t)'  BY <1>0, <1>1, <1>3, <1>4, Onward
  <1>6. Tally'  BY <1>0, <1>1, <1>4, CountsKept
  <1> QED  BY <1>0, <1>1, <1>2, <1>4, <1>5, <1>6, OrderlyThread

LEMMA OrderlyReadBody ==
  ASSUME Serving, NEW t \in Ids, ReadEnvironment(t) \/ ReadValues(t)
  PROVE  Orderly'
  <1>0. Thread(t)  BY DEF Thread
  <1>1. /\ UNCHANGED <<scenario, connected, messageReceived, first>> /\ Receive(t)
        /\ \/ tpc[t] = "environment" /\ tpc'[t] = "values" /\ turn'[t] = 1
           \/ tpc[t] = "values" /\ tpc'[t] = "lockAVGS" /\ turn'[t] = turn[t]
    BY LocalFacts DEF ReadEnvironment, ReadValues, Goto, masterVars, localVars, statusVars
  <1>2. messageReceived[t] = 1
    BY <1>1, LocalFacts DEF Shape, Ended, Drawing
  <1>3. /\ Shape(t)'
        /\ Position(t)' = Position(t) + 1
    BY <1>1, LocalFacts, Fixed DEF Shape, Ended, Drawing, Position
  <1>4. Reading(t) /\ Took(t) /\ Counts(t)' /\ tpc[t] # "created"
    BY <1>1, <1>2 DEF Reading, Took, Counts
  <1>5. Serves(t)'  BY <1>0, <1>1, <1>3, <1>4, OnwardReading
  <1>6. Tally'  BY <1>0, <1>1, <1>4, CountsKept
  <1> QED  BY <1>0, <1>1, <1>2, <1>4, <1>5, <1>6, OrderlyThread

\* Where a thread goes that has filed a body: after the last turn, to its end.
LEMMA AfterFiling ==
  ASSUME Serving, NEW t \in Ids, NEW kind \in Shared, ReadShared(t, kind)
  PROVE  /\ messageReceived[t] = 1 /\ tpc[t] = kind /\ turn[t] \in Nat \ {0}
         /\ UNCHANGED <<scenario, connected, first>> /\ Receive(t)
         /\ \/ /\ kind = "AVGS" /\ tpc'[t] = "lockRESULTS"
               /\ UNCHANGED <<messageReceived, turn>>
            \/ /\ kind = "RESULTS" /\ tpc'[t] = "values" /\ turn[t] < Tests
               /\ messageReceived' = messageReceived /\ turn'[t] = turn[t] + 1
            \/ /\ kind = "RESULTS" /\ tpc'[t] = "stop" /\ turn[t] = Tests
               /\ messageReceived'[t] = 2 /\ turn' = turn
  <1> DEFINE again == kind = "RESULTS" /\ testRange /\ turn[t] < NSwitches
             there == IF kind = "AVGS" THEN "lockRESULTS"
                      ELSE IF again THEN "values"
                      ELSE IF messageReceived[t] + 1 = 2 THEN "stop" ELSE "message"
  <1>1. /\ tpc[t] = kind /\ Receive(t) /\ Goto(t, there)
        /\ turn' = IF again THEN [turn EXCEPT ![t] = @ + 1] ELSE turn
        /\ messageReceived' = IF kind = "AVGS" \/ again THEN messageReceived
                              ELSE [messageReceived EXCEPT ![t] = @ + 1]
        /\ UNCHANGED <<scenario, connected, first>>
    BY DEF ReadShared, masterVars, statusVars
  <1>2. messageReceived[t] = 1 /\ turn[t] <= Tests
    BY <1>1, LocalFacts DEF Shape, Ended, Drawing, Shared
  <1>3. turn[t] \in 1..NSwitches /\ NSwitches \in Nat /\ Tests \in Nat
    BY LocalFacts, TestsAssumption
  <1>4. again => turn[t] < Tests
    BY <1>3 DEF Tests
  <1>5. kind = "RESULTS" /\ ~again => turn[t] = Tests
    BY <1>2, <1>3 DEF Tests
  <1>6. tpc'[t] = there  BY <1>1, LocalFacts DEF Goto
  <1>7. again => turn'[t] = turn[t] + 1  BY <1>1, LocalFacts
  <1>8. kind = "RESULTS" /\ ~again => messageReceived'[t] = 2  BY <1>1, <1>2, LocalFacts
  <1>9. CASE kind = "AVGS"  BY <1>1, <1>2, <1>3, <1>6, <1>9
  <1>10. CASE kind = "RESULTS" /\ again  BY <1>1, <1>2, <1>3, <1>4, <1>6, <1>7, <1>10
  <1>11. CASE kind = "RESULTS" /\ ~again  BY <1>1, <1>2, <1>3, <1>5, <1>6, <1>8, <1>11
  <1> QED  BY <1>9, <1>10, <1>11 DEF Shared

LEMMA OrderlyFile ==
  ASSUME Serving, NEW t \in Ids, NEW kind \in Shared, ReadShared(t, kind)
  PROVE  Orderly'
  <1>0. Thread(t)  BY DEF Thread
  <1>1. /\ messageReceived[t] = 1 /\ tpc[t] = kind /\ turn[t] \in Nat \ {0}
        /\ UNCHANGED <<scenario, connected, first>> /\ Receive(t)
        /\ \/ /\ kind = "AVGS" /\ tpc'[t] = "lockRESULTS"
              /\ messageReceived'[t] = 1 /\ turn'[t] = turn[t]
           \/ /\ kind = "RESULTS" /\ tpc'[t] = "values" /\ turn[t] < Tests
              /\ messageReceived'[t] = 1 /\ turn'[t] = turn[t] + 1
           \/ /\ kind = "RESULTS" /\ tpc'[t] = "stop" /\ turn[t] = Tests
              /\ messageReceived'[t] = 2 /\ turn'[t] = turn[t]
    BY AfterFiling
  <1>2. turn[t] <= Tests /\ Tests \in Nat
    BY LocalFacts DEF Shape
  <1>3. Shape(t)'
    BY <1>1, <1>2, Fixed DEF Shape, Ended, Drawing
  <1>4. Position(t)' = Position(t) + 1
    BY <1>1, <1>2, Fixed DEF Ended, Drawing, Position
  <1>5. Reading(t) /\ Took(t) /\ Counts(t)' /\ tpc[t] # "created"
    BY <1>1 DEF Reading, Took, Counts, Shared
  <1>6. Serves(t)'  BY <1>0, <1>1, <1>3, <1>4, <1>5, OnwardReading
  <1>7. Tally'  BY <1>0, <1>1, <1>5, CountsKept
  <1> QED  BY <1>0, <1>1, <1>5, <1>6, <1>7, OrderlyThread

LEMMA ServingInit == Init => Serving
  <1> SUFFICES ASSUME Init PROVE Serving
    OBVIOUS
  <1>1. TypeOK /\ Meeting  BY TypeInit, MeetingInit
  <1>2. /\ Ids = 0..(Quantity - 1) /\ IsFiniteSet(Ids) /\ Tests \in Nat \ {0}
    BY <1>1, ScenarioFacts DEF TypeOK
  <1>3. /\ index = 0 /\ param = 0 /\ connected = 0
        /\ \A t \in Ids : tpc[t] = "off" /\ messageReceived[t] = 0 /\ turn[t] = 1
        /\ \A s \in Slaves : spc[s] = "new" /\ toMaster[s] = <<>> /\ sent[s] = 0
    BY DEF Init
  <1>4. Accepted  BY <1>2, <1>3 DEF Accepted
  <1>5. Started /\ Unstarted  BY <1>3 DEF Started, Unstarted
  <1>6. \A t \in Ids : ~Took(t) /\ ~Reading(t) /\ ~Counts(t)
    BY <1>3 DEF Took, Reading, Counts
  <1>7. Owners /\ Served  BY <1>3, <1>6 DEF Owners, Served
  <1>8. Tally
    <2>1. {t \in Ids : Counts(t)} = {}  BY <1>6
    <2> QED  BY <1>3, <2>1, FS_EmptySet DEF Tally
  <1>9. \A t \in Ids : Serves(t)
    BY <1>2, <1>3, <1>6 DEF Serves, Shape
  <1> QED  BY <1>1, <1>4, <1>5, <1>7, <1>8, <1>9 DEF Serving, Orderly

LEMMA ServingStep == Serving /\ [Next]_vars => Serving'
  <1> SUFFICES ASSUME Serving, [Next]_vars PROVE Serving'
    OBVIOUS
  <1>1. Meeting' /\ Accepted' /\ Started'
    BY MeetingStep, AcceptedStep, StartedStep DEF Serving, Meeting
  <1>2. ASSUME NEW s \in Slaves, Slave(s) \/ Die(s) PROVE Orderly'
    BY <1>2, OrderlySlave, OrderlyRequest, OrderlyReport DEF Slave
  <1>3. ASSUME NEW t \in Ids, Thread(t) PROVE Orderly'
    BY <1>3, OrderlyReadParam, OrderlyReadFirst, OrderlyReadSecond, OrderlyConnectRequest,
       OrderlyWakeUp, OrderlySendStart, OrderlyOn, OrderlyReadBody, OrderlyFile, OrderlyIdle
    DEF Thread
  <1>4. ASSUME Main PROVE Orderly'
    BY <1>4, OrderlyIdle, OrderlyAccept DEF Main
  <1>5. Orderly'
    BY <1>2, <1>3, <1>4, OrderlyIdle DEF Next, Aside
  <1> QED  BY <1>1, <1>5 DEF Serving

\* Once somebody is past the barrier each number is one thread's.
LEMMA OneEach ==
  ASSUME Serving, NEW t \in Ids, messageReceived[t] > 0 \/ tpc[t] = "start"
  PROVE  /\ \A u \in Ids : Counts(u)
         /\ \A u, v \in Ids : id[u] = id[v] => u = v
         /\ \A i \in Ids : \E u \in Ids : id[u] = i
  <1>1. \A u \in Ids : Counts(u)
    BY NotYet, LocalFacts
  <1>2. \A u \in Ids : Took(u)  BY <1>1 DEF Took, Counts
  <1>3. \A u, v \in Ids : id[u] = id[v] => u = v
    BY <1>2 DEF Serving, Orderly, Owners, Conn
  <1>4. TypeOK  BY DEF Serving, Meeting
  <1>5. id \in [Ids -> Ids] /\ IsFiniteSet(Ids)  BY <1>4, ScenarioFacts DEF TypeOK, LocalTypes
  <1>6. id \in Injection(Ids, Ids)  BY <1>3, <1>5 DEF Injection, IsInjective
  <1>7. id \in Surjection(Ids, Ids)  BY <1>5, <1>6, FS_Injection
  <1> QED  BY <1>1, <1>3, <1>7 DEF Surjection

-----------------------------------------------------------------------------
(* The sampler.  One thread has the last number when it passes the barrier, and *)
(* that thread does not exit before the sampler has ended.                      *)

Passed(t)   == tpc[t] = "start" \/ messageReceived[t] > 0
HasSampler  == \E t \in Ids : Passed(t) /\ id[t] = Quantity - 1
Sampling ==
    /\ samplers = IF HasSampler THEN 1 ELSE 0
    /\ \A t \in Ids : tpc[t] = "exited" /\ id[t] = Quantity - 1 => snmp = "done"
    /\ mpc = "plotted" => \A t \in Ids : tpc[t] = "exited"

\* The steps of a thread that do not lead past the barrier.
LEMMA PassedKept ==
  ASSUME Serving, NEW t \in Ids, Thread(t), ~ConnectRequest(t), ~WakeUp(t)
  PROVE  /\ UNCHANGED <<snmp, samplers>>
         /\ Passed(t)' = Passed(t)
         /\ tpc'[t] = "exited" => id[t] # Quantity - 1 \/ snmp = "done"
  <1> DEFINE Goal == /\ UNCHANGED <<snmp, samplers>>
                     /\ Passed(t)' = Passed(t)
                     /\ tpc'[t] = "exited" => id[t] # Quantity - 1 \/ snmp = "done"
  <1>1. tpc \in [Ids -> ThreadPc] /\ messageReceived \in [Ids -> Nat]
    BY LocalFacts
  <1> USE <1>1 DEF masterVars, localVars, snmpVars, Goto, Passed
  <1>2. CASE ReadParam(t) \/ ReadFirst(t) \/ ReadSecond(t)
    BY <1>2 DEF ReadParam, ReadFirst, ReadSecond
  <1>3. CASE SendStart(t)
    BY <1>3 DEF SendStart
  <1>4. CASE Report(t) \/ ReadEnvironment(t) \/ ReadValues(t)
    BY <1>4 DEF Report, ReadEnvironment, ReadValues
  <1>5. ASSUME NEW kind \in Shared, LockPlot(t, kind) PROVE Goal
    BY <1>5 DEF LockPlot, Shared, Locking
  <1>6. ASSUME NEW kind \in Shared, ReadShared(t, kind) PROVE Goal
    <2>1. /\ messageReceived[t] = 1 /\ messageReceived'[t] \in {1, 2}
          /\ tpc'[t] # "exited"
      BY <1>6, AfterFiling
    <2>2. UNCHANGED <<snmp, samplers>>
      BY <1>6 DEF ReadShared
    <2> QED  BY <2>1, <2>2
  <1>7. CASE StopSampler(t)
    BY <1>7 DEF StopSampler
  <1>8. CASE JoinSampler(t)
    BY <1>8 DEF JoinSampler
  <1>9. CASE EndOfFile(t)
    BY <1>9 DEF EndOfFile
  <1> QED  BY <1>2, <1>3, <1>4, <1>5, <1>6, <1>7, <1>8, <1>9 DEF Thread

\* Nobody with the number of a thread that passes the barrier has passed it.
LEMMA FirstToPass ==
  ASSUME Serving, NEW t \in Ids, tpc[t] \in {"connect", "wait"}, NEW u \in Ids, Passed(u)
  PROVE  id[u] # id[t]
  <1>1. ~Passed(t)
    BY LocalFacts DEF Passed, Shape, Ended, Drawing
  <1> QED  BY <1>1, OneEach DEF Passed

LEMMA SamplingBarrier ==
  ASSUME Serving, Sampling, NEW t \in Ids, ConnectRequest(t) \/ WakeUp(t)
  PROVE  Sampling'
  <1> DEFINE mine == id[t] = Quantity - 1
  <1>1. /\ tpc[t] \in {"connect", "wait"}
        /\ UNCHANGED <<scenario, mpc, id, messageReceived>>
        /\ \/ tpc'[t] = "wait" /\ UNCHANGED <<snmp, samplers>>
           \/ /\ tpc'[t] = "start"
              /\ snmp' = IF mine THEN "on" ELSE snmp
              /\ samplers' = IF mine THEN samplers + 1 ELSE samplers
        /\ \A u \in Ids \ {t} : tpc'[u] = tpc[u]
    BY LocalFacts DEF ConnectRequest, WakeUp, PastBarrier, Goto, masterVars, localVars
  <1>2. messageReceived[t] = 0
    BY <1>1, LocalFacts DEF Shape, Ended, Drawing
  <1>3. \A u \in Ids \ {t} : Passed(u)' = Passed(u)  BY <1>1 DEF Passed
  <1>4. ~Passed(t) /\ (Passed(t)' <=> tpc'[t] = "start")  BY <1>1, <1>2 DEF Passed
  <1>5. \A u \in Ids : Passed(u) => id[u] # id[t]  BY <1>1, FirstToPass
  <1>6. mpc' # "plotted"  BY <1>1 DEF Sampling
  <1>7. ASSUME NEW u \in Ids, tpc'[u] = "exited", id[u] = Quantity - 1 PROVE snmp' = "done"
    <2>1. u # t /\ tpc[u] = "exited"  BY <1>1, <1>7
    <2>2. Serves(u)  BY LocalFacts
    <2>3. Passed(u)  BY <2>1, <2>2 DEF Passed, Serves, Shape, Ended, Drawing
    <2>4. ~mine  BY <1>5, <1>7, <2>3
    <2> QED  BY <1>1, <1>7, <2>1, <2>4 DEF Sampling
  <1>8. samplers' = IF HasSampler' THEN 1 ELSE 0
    <2>1. Ids' = Ids /\ Quantity' = Quantity /\ id' = id  BY <1>1, Fixed
    <2>2. CASE tpc'[t] = "start" /\ mine
      <3>1. ~HasSampler  BY <1>5, <2>2 DEF HasSampler
      <3>2. HasSampler'  BY <1>4, <2>1, <2>2 DEF HasSampler
      <3> QED  BY <1>1, <2>2, <3>1, <3>2 DEF Sampling
    <2>3. CASE ~(tpc'[t] = "start" /\ mine)
      <3>1. HasSampler' <=> HasSampler  BY <1>3, <1>4, <2>1, <2>3 DEF HasSampler
      <3>2. samplers' = samplers  BY <1>1, <2>3
      <3> QED  BY <3>1, <3>2 DEF Sampling
    <2> QED  BY <2>2, <2>3
  <1> QED  BY <1>1, <1>6, <1>7, <1>8, Fixed DEF Sampling

LEMMA SamplingThread ==
  ASSUME Serving, Sampling, NEW t \in Ids, Thread(t), ~ConnectRequest(t), ~WakeUp(t)
  PROVE  Sampling'
  <1>1. /\ scenario' = scenario /\ Ids' = Ids /\ Quantity' = Quantity
        /\ \A u \in Ids \ {t} : tpc'[u] = tpc[u] /\ id'[u] = id[u] /\ messageReceived'[u] = messageReceived[u]
        /\ tpc[t] # "exited"
        /\ tpc[t] # "created" => id'[t] = id[t]
    BY LocalFacts, ThreadEffects, Fixed
  <1>2. /\ UNCHANGED <<snmp, samplers>> /\ Passed(t)' = Passed(t)
        /\ tpc'[t] = "exited" => id[t] # Quantity - 1 \/ snmp = "done"
    BY PassedKept
  <1>3. \A u \in Ids : Passed(u)' = Passed(u)  BY <1>1, <1>2 DEF Passed
  <1>4. tpc[t] = "created" => ~Passed(t) /\ tpc'[t] # "exited"
    <2>1. ASSUME tpc[t] = "created" PROVE messageReceived[t] = 0 /\ tpc'[t] = "message"
      <3>1. messageReceived[t] = 0  BY <2>1, LocalFacts DEF Shape, Ended, Drawing
      <3>2. ReadParam(t)
        BY <2>1 DEF Thread, ReadFirst, ReadSecond, ConnectRequest, WakeUp, SendStart, Report,
           ReadEnvironment, ReadValues, LockPlot, ReadShared, StopSampler, JoinSampler, EndOfFile,
           Shared, Locking
      <3> QED  BY <3>1, <3>2, LocalFacts DEF ReadParam, Goto
    <2> QED  BY <2>1 DEF Passed
  <1>5. HasSampler' <=> HasSampler
    BY <1>1, <1>3, <1>4 DEF HasSampler
  <1>6. ASSUME NEW u \in Ids, tpc'[u] = "exited", id'[u] = Quantity - 1 PROVE snmp' = "done"
    BY <1>1, <1>2, <1>4, <1>6 DEF Sampling
  <1>7. mpc' # "plotted"
    <2>1. mpc # "plotted"  BY <1>1 DEF Sampling
    <2>2. mpc' = mpc \/ mpc' = "exited"
      BY DEF Thread, ReadParam, ReadFirst, ReadSecond, ConnectRequest, WakeUp, SendStart, Report,
           ReadEnvironment, ReadValues, LockPlot, ReadShared, StopSampler, JoinSampler, EndOfFile,
           masterVars
    <2> QED  BY <2>1, <2>2
  <1> QED  BY <1>1, <1>2, <1>5, <1>6, <1>7 DEF Sampling

LEMMA SamplingElse ==
  ASSUME Serving, Sampling,
         \/ \E s \in Slaves : Slave(s) \/ Die(s) \/ Accept(s)
         \/ Plot \/ Aside \/ UNCHANGED vars
  PROVE  Sampling'
  <1>0. TypeOK /\ Accepted /\ tpc \in [Ids -> ThreadPc]  BY DEF Serving, Meeting, TypeOK
  <1>1. CASE \E s \in Slaves : Slave(s) \/ Die(s)
    <2>1. UNCHANGED <<scenario, mpc, tpc, id, messageReceived, snmp, samplers>>
      BY <1>1 DEF Slave, Die, Connect, SendConnect, ReadStart, Benchmark, SendReport, masterVars,
         localVars, snmpVars
    <2> QED  BY <2>1, Fixed DEF Sampling, HasSampler, Passed
  <1>2. CASE Plot
    <2>1. UNCHANGED <<scenario, tpc, id, messageReceived, snmp, samplers>>
      BY <1>2 DEF Plot, localVars, snmpVars
    <2> QED  BY <1>2, <2>1, Fixed DEF Sampling, HasSampler, Passed, Plot
  <1>3. CASE Aside
    <2>1. /\ UNCHANGED <<scenario, tpc, id, messageReceived, samplers>>
          /\ mpc' = mpc \/ mpc' = "exited"
          /\ snmp' = snmp \/ snmp' = "done"
      BY <1>3, AsideEffects DEF localVars
    <2> QED  BY <2>1, Fixed DEF Sampling, HasSampler, Passed
  <1>4. ASSUME NEW s \in Slaves, Accept(s) PROVE Sampling'
    <2>1. UNCHANGED <<scenario, id, messageReceived, snmp, samplers>> /\ mpc' # "plotted"
      BY <1>0, <1>4, AcceptEffects DEF Accept, localVars, snmpVars
    <2>2. /\ index \in Ids /\ tpc[index] = "off" /\ tpc' = [tpc EXCEPT ![index] = "created"]
      BY <1>0, <1>4, AcceptEffects
    <2>3. \A t \in Ids : tpc'[t] # tpc[t] => tpc[t] = "off" /\ tpc'[t] = "created"
      BY <1>0, <2>2
    <2>4. \A t \in Ids : (tpc'[t] = "start" <=> tpc[t] = "start") /\ (tpc'[t] = "exited" => tpc[t] = "exited")
      BY <2>3
    <2>5. HasSampler' <=> HasSampler
      BY <2>1, <2>4, Fixed DEF HasSampler, Passed
    <2> QED  BY <2>1, <2>4, <2>5, Fixed DEF Sampling
  <1>5. CASE UNCHANGED vars
    <2>1. UNCHANGED <<scenario, mpc, tpc, id, messageReceived, snmp, samplers>>
      BY <1>5 DEF vars, masterVars, localVars, snmpVars
    <2> QED  BY <2>1, Fixed DEF Sampling, HasSampler, Passed
  <1> QED  BY <1>1, <1>2, <1>3, <1>4, <1>5

\* The master plots after its one sampler has ended, for any number of slaves
\* and although threads may read each other's parameter (myserver.c:143-150,
\* 193-205).
THEOREM SamplerJoined == Spec => []SamplerDone
  <1>1. Init => Serving /\ Sampling
    <2> SUFFICES ASSUME Init PROVE Sampling
      BY ServingInit
    <2>1. mpc = "accept" /\ samplers = 0 /\ \A t \in Ids : tpc[t] = "off" /\ messageReceived[t] = 0
      BY DEF Init
    <2> QED  BY <2>1 DEF Sampling, HasSampler, Passed
  <1>2. Serving /\ Sampling /\ [Next]_vars => (Serving /\ Sampling)'
    <2> SUFFICES ASSUME Serving, Sampling, [Next]_vars PROVE Sampling'
      BY ServingStep
    <2> QED  BY SamplingBarrier, SamplingThread, SamplingElse DEF Next, Aside, Main
  <1>3. Serving /\ Sampling => SamplerDone
    <2> SUFFICES ASSUME Serving, Sampling, mpc = "plotted" PROVE snmp = "done" /\ samplers = 1
      BY DEF SamplerDone
    <2>1. Quantity \in Nat \ {0} /\ Ids = 0..(Quantity - 1) /\ TypeOK
      BY ScenarioFacts DEF Serving, Meeting, TypeOK
    <2>2. \A t \in Ids : tpc[t] = "exited"  BY DEF Sampling
    <2>3. \A t \in Ids : messageReceived[t] > 0
      BY <2>2, LocalFacts DEF Shape, Ended, Drawing
    <2>4. 0 \in Ids /\ Quantity - 1 \in Ids  BY <2>1
    <2>5. PICK t \in Ids : id[t] = Quantity - 1
      BY <2>3, <2>4, OneEach
    <2>6. HasSampler  BY <2>3, <2>5 DEF HasSampler, Passed
    <2> QED  BY <2>2, <2>5, <2>6 DEF Sampling
  <1> QED  BY <1>1, <1>2, <1>3, PTL DEF Spec

-----------------------------------------------------------------------------
(* What is plotted.  Each thread has filed a body of its number for each turn   *)
(* it has ended.                                                                *)

Mine(queue, i) == {n \in DOMAIN queue : queue[n][1] # "HEADER" /\ queue[n][3] = i}

\* How many bodies a thread has filed in the queue of a kind.
Done(t, kind) ==
    IF tpc[t] \in Ended THEN Tests
    ELSE IF kind = "AVGS" /\ tpc[t] \in {"lockRESULTS", "RESULTS"} THEN turn[t]
    ELSE turn[t] - 1

Bodied(kind) ==
    /\ \A n \in DOMAIN queues[kind] : queues[kind][n][3] \in Ids
    /\ (\E t \in Ids : ~Counts(t)) => queues[kind] = <<>>
    /\ \A t \in Ids : Counts(t) => Cardinality(Mine(queues[kind], id[t])) = Done(t, kind)
    /\ \A t \in Ids : Counts(t) /\ ~testRange /\ Done(t, kind) > 0 =>
           \E n \in DOMAIN queues[kind] : queues[kind][n] = <<kind, 1, id[t]>>

\* A queue that got a body, behind what it had and perhaps a header.
Longer(queue, longer, i) ==
    /\ Len(longer) > Len(queue)
    /\ \A n \in 1..Len(queue) : longer[n] = queue[n]
    /\ \A n \in 1..Len(longer) : Len(queue) < n /\ n < Len(longer) =>
           longer[n][1] = "HEADER" /\ longer[n][3] = i
    /\ longer[Len(longer)][1] # "HEADER" /\ longer[Len(longer)][3] = i

LEMMA MineGrows ==
  ASSUME NEW S, NEW queue \in Seq(S), NEW longer \in Seq(S), NEW i, Longer(queue, longer, i)
  PROVE  /\ IsFiniteSet(Mine(queue, i)) /\ Cardinality(Mine(queue, i)) \in Nat
         /\ Cardinality(Mine(longer, i)) = Cardinality(Mine(queue, i)) + 1
         /\ \A j : j # i => Mine(longer, j) = Mine(queue, j)
         /\ \A n \in DOMAIN queue : n \in DOMAIN longer /\ longer[n] = queue[n]
         /\ Len(longer) \in DOMAIN longer
  <1>1. /\ DOMAIN queue = 1..Len(queue) /\ DOMAIN longer = 1..Len(longer)
        /\ Len(queue) \in Nat /\ Len(longer) \in Nat /\ Len(longer) > Len(queue)
    BY DEF Longer
  <1>2. IsFiniteSet(Mine(queue, i))
    <2>1. IsFiniteSet(1..Len(queue)) /\ Mine(queue, i) \in SUBSET (1..Len(queue))
      BY <1>1, FS_Interval DEF Mine
    <2> QED  BY <2>1, FS_Subset
  <1>3. Len(longer) \notin Mine(queue, i)
    BY <1>1 DEF Mine
  <1>4. Mine(longer, i) = Mine(queue, i) \cup {Len(longer)}
    BY <1>1 DEF Mine, Longer
  <1>5. \A j : j # i => Mine(longer, j) = Mine(queue, j)
    BY <1>1 DEF Mine, Longer
  <1>6. Cardinality(Mine(longer, i)) = Cardinality(Mine(queue, i)) + 1
    BY <1>2, <1>3, <1>4, FS_AddElement
  <1>7. \A n \in DOMAIN queue : n \in DOMAIN longer /\ longer[n] = queue[n]
    BY <1>1 DEF Longer
  <1> QED  BY <1>1, <1>2, <1>5, <1>6, <1>7, FS_CardinalityType

LEMMA InTheMiddle ==
  ASSUME NEW a \in Nat, NEW h \in {0, 1}, NEW n \in Int, a < n, n < a + h + 1
  PROVE  h = 1 /\ n = a + 1
  OBVIOUS

\* What the reading of a body does to the queues.
LEMMA FilesOne ==
  ASSUME TypeOK, NEW t \in Ids, NEW kind \in Shared, ReadShared(t, kind)
  PROVE  /\ \A k \in Shared \ {kind} : queues'[k] = queues[k]
         /\ queues[kind] \in Seq(Filed) /\ queues'[kind] \in Seq(Filed)
         /\ Longer(queues[kind], queues'[kind], id[t])
         /\ \A name, n : Head(toMaster[Conn(t)]) = <<name, n>> =>
                queues'[kind][Len(queues'[kind])] = <<name, n, id[t]>>
  <1> DEFINE header == IF addHeader[t] THEN <<<<"HEADER", 0, id[t]>>>> ELSE <<>>
             token == Head(toMaster[Conn(t)])
             body == <<token[1], token[2], id[t]>>
             last == <<body>>
             queue == queues[kind]
             filed == queue \o header \o last
  <1>1. Receive(t) /\ queues' = [queues EXCEPT ![kind] = filed]
    BY DEF ReadShared
  <1>2. addHeader[t] \in BOOLEAN  BY DEF TypeOK, LocalTypes
  <1>3. token \in Token  BY <1>1, Receives
  <1>4. header \in Seq(Filed) /\ body \in Filed /\ body[1] # "HEADER" /\ filed \in Seq(Filed)
    BY <1>2, <1>3, FiledTypes
  <1>5. /\ Len(header) \in {0, 1}
        /\ Len(header) = 1 => header[1][1] = "HEADER" /\ header[1][3] = id[t]
    <2>1. CASE addHeader[t]  BY <2>1
    <2>2. CASE ~addHeader[t]  BY <2>2
    <2> QED  BY <1>2, <2>1, <2>2
  <1>6. queue \in Seq(Filed)  BY DEF TypeOK, PlotTypes
  <1>7. body[3] = id[t] /\ \A name, n : token = <<name, n>> => body = <<name, n, id[t]>>
    OBVIOUS
  <1>8. /\ queues'[kind] = filed
        /\ \A k \in Shared \ {kind} : queues'[k] = queues[k]
    BY <1>1 DEF TypeOK, PlotTypes
  <1> HIDE DEF header, token, body, Filed, queue
  <1>9. last \in Seq(Filed) /\ Len(last) = 1 /\ last[1] = body
    BY <1>4
  <1> HIDE DEF last
  <1>10. PICK front : front = queue \o header  OBVIOUS
  <1>11. header \in Seq(Filed)  BY <1>4
  <1>12. front \in Seq(Filed)  BY <1>6, <1>10, <1>11, TwoParts
  <1>13. /\ Len(front) = Len(queue) + Len(header)
         /\ \A n \in 1..Len(queue) : front[n] = queue[n]
         /\ \A n \in 1..Len(header) : front[Len(queue) + n] = header[n]
    BY <1>6, <1>10, <1>11, TwoParts
  <1>14. PICK f : f = filed  OBVIOUS
  <1>15. f = front \o last  BY <1>10, <1>14
  <1>16. /\ Len(f) = Len(front) + Len(last)
         /\ \A n \in 1..Len(front) : f[n] = front[n]
         /\ \A n \in 1..Len(last) : f[Len(front) + n] = last[n]
    <2>1. last \in Seq(Filed)  BY <1>9
    <2> QED  BY <1>12, <1>15, <2>1, TwoParts
  <1> HIDE DEF filed
  <1>17. Len(queue) \in Nat /\ Len(f) = Len(queue) + Len(header) + 1 /\ Len(front) = Len(f) - 1
    BY <1>5, <1>6, <1>9, <1>13, <1>16
  <1>18. f[Len(f)] = body
    <2>1. 1 \in 1..Len(last) /\ Len(front) + 1 = Len(f)  BY <1>5, <1>9, <1>17
    <2> QED  BY <1>9, <1>16, <2>1
  <1>19. \A n \in 1..Len(queue) : f[n] = queue[n]
    <2>1. \A n \in 1..Len(queue) : n \in 1..Len(front)  BY <1>5, <1>13, <1>17
    <2> QED  BY <1>13, <1>16, <2>1
  <1>20. ASSUME NEW n \in 1..Len(f), Len(queue) < n, n < Len(f)
         PROVE  f[n][1] = "HEADER" /\ f[n][3] = id[t]
    <2>1. Len(header) \in {0, 1}  BY <1>5
    <2>2. Len(f) = Len(queue) + Len(header) + 1 /\ Len(queue) \in Nat  BY <1>17
    <2>3. n \in Int /\ Len(queue) < n /\ n < Len(queue) + Len(header) + 1  BY <1>20, <2>2
    <2>4. Len(header) = 1 /\ n = Len(queue) + 1  BY <2>1, <2>2, <2>3, InTheMiddle
    <2>5. n \in 1..Len(front) /\ 1 \in 1..Len(header)  BY <1>17, <1>20, <2>4
    <2>6. f[n] = header[1]  BY <1>13, <1>16, <2>4, <2>5
    <2> QED  BY <1>5, <2>4, <2>6
  <1>21. Longer(queue, f, id[t])
    BY <1>4, <1>5, <1>7, <1>17, <1>18, <1>19, <1>20 DEF Longer
  <1>22. f \in Seq(Filed)  BY <1>4, <1>14
  <1>23. \A name, n : token = <<name, n>> => f[Len(f)] = <<name, n, id[t]>>
    BY <1>7, <1>18
  <1>24. queues'[kind] = f  BY <1>8, <1>14
  <1> QED  BY <1>6, <1>8, <1>21, <1>22, <1>23, <1>24 DEF queue, token

\* A thread that has counted its request ends no turn without filing.
LEMMA DoneKept ==
  ASSUME Serving, NEW t \in Ids, Thread(t), NEW kind \in Shared, Counts(t),
         \A k \in Shared : ~ReadShared(t, k)
  PROVE  Done(t, kind)' = Done(t, kind)
  <1>1. tpc \in [Ids -> ThreadPc] /\ Shape(t) /\ turn \in [Ids -> 1..NSwitches] /\ turn[t] \in Nat
    BY LocalFacts
  <1>2. Tests' = Tests  BY LocalFacts, ThreadEffects, Fixed
  <1> USE <1>1, <1>2 DEF Done, Ended, Goto, localVars
  <1>3. CASE ReadParam(t) \/ ReadFirst(t) \/ ReadSecond(t)
    BY <1>3 DEF ReadParam, ReadFirst, ReadSecond
  <1>4. CASE ConnectRequest(t) \/ WakeUp(t)
    BY <1>4 DEF ConnectRequest, WakeUp, PastBarrier
  <1>5. CASE SendStart(t)
    <2>1. messageReceived[t] = 0  BY <1>5 DEF SendStart, Shape, Drawing
    <2> QED  BY <1>5, <2>1 DEF SendStart
  <1>6. CASE Report(t)
    BY <1>6 DEF Report
  <1>7. CASE ReadEnvironment(t)
    <2>1. turn[t] = 1  BY <1>7 DEF ReadEnvironment, Shape, Drawing
    <2>2. turn'[t] = 1 /\ tpc'[t] = "values" /\ tpc[t] = "environment"  BY <1>7 DEF ReadEnvironment
    <2> QED  BY <2>1, <2>2
  <1>8. CASE ReadValues(t)
    BY <1>8 DEF ReadValues
  <1>9. ASSUME NEW k \in Shared, LockPlot(t, k) PROVE Done(t, kind)' = Done(t, kind)
    BY <1>9 DEF LockPlot, Shared, Locking
  <1>10. CASE StopSampler(t) \/ JoinSampler(t)
    BY <1>10 DEF StopSampler, JoinSampler
  <1>11. CASE EndOfFile(t)
    BY <1>11 DEF EndOfFile
  <1> QED  BY <1>3, <1>4, <1>5, <1>6, <1>7, <1>8, <1>9, <1>10, <1>11 DEF Thread

\* The queues change only when a body is filed.
LEMMA QueuesKept ==
  ASSUME NEW t \in Ids, Thread(t), \A k \in Shared : ~ReadShared(t, k)
  PROVE  queues' = queues
  BY DEF Thread, ReadParam, ReadFirst, ReadSecond, ConnectRequest, WakeUp, SendStart, Report,
     ReadEnvironment, ReadValues, LockPlot, StopSampler, JoinSampler, EndOfFile, plotVars

\* A thread counts but once.
LEMMA StillCounts ==
  ASSUME Serving, NEW t \in Ids, Thread(t), Counts(t)
  PROVE  Counts(t)' /\ id'[t] = id[t]
  <1>1. tpc[t] # "created"  BY LocalFacts DEF Counts, Shape, Ended, Drawing
  <1>2. id'[t] = id[t]  BY <1>1, LocalFacts, ThreadEffects
  <1>3. CASE \E kind \in Shared : ReadShared(t, kind)
    <2> PICK kind \in Shared : ReadShared(t, kind)  BY <1>3
    <2>1. messageReceived[t] = 1 /\ messageReceived'[t] \in {1, 2}  BY AfterFiling
    <2> QED  BY <1>2, <2>1 DEF Counts
  <1>4. CASE WakeUp(t)
    BY <1>4, LocalFacts DEF WakeUp, PastBarrier, Goto, Counts, localVars
  <1>5. CASE ConnectRequest(t)
    BY <1>5, LocalFacts DEF ConnectRequest, PastBarrier, Goto, Counts, localVars
  <1>6. CASE ~ConnectRequest(t) /\ ~WakeUp(t)
    <2>1. Passed(t)' = Passed(t)  BY <1>6, PassedKept
    <2>2. CASE Passed(t)
      <3>1. Passed(t)'  BY <2>1, <2>2
      <3> QED  BY <1>2, <3>1 DEF Passed, Counts
    <2>3. CASE ~Passed(t)
      <3>1. tpc[t] = "wait"  BY <2>3 DEF Passed, Counts
      <3> QED  BY <1>6, <3>1 DEF Thread, ReadParam, ReadFirst, ReadSecond, SendStart, Report, Locking,
         ReadEnvironment, ReadValues, LockPlot, ReadShared, StopSampler, JoinSampler, EndOfFile, Shared
    <2> QED  BY <2>2, <2>3
  <1> QED  BY <1>2, <1>3, <1>4, <1>5, <1>6

\* A step that files nothing.
LEMMA BodiedQuiet ==
  ASSUME Serving, NEW kind \in Shared, Bodied(kind), NEW t \in Ids, Thread(t),
         \A k \in Shared : ~ReadShared(t, k)
  PROVE  Bodied(kind)'
  <1>1. /\ scenario' = scenario /\ queues' = queues /\ Ids' = Ids /\ testRange' = testRange
        /\ Tests' = Tests
        /\ \A u \in Ids \ {t} : tpc'[u] = tpc[u] /\ id'[u] = id[u] /\ turn'[u] = turn[u]
    BY LocalFacts, ThreadEffects, QueuesKept, Fixed
  <1>2. \A u \in Ids \ {t} : Counts(u)' = Counts(u) /\ Done(u, kind)' = Done(u, kind)
    <2>1. \A u \in Ids \ {t} : Counts(u)' = Counts(u)  BY ThreadOthers
    <2> QED  BY <1>1, <2>1 DEF Done
  <1>3. Counts(t) => Counts(t)' /\ id'[t] = id[t] /\ Done(t, kind)' = Done(t, kind)
    BY StillCounts, DoneKept
  <1>4. ASSUME ~Counts(t), Counts(t)'
        PROVE  Mine(queues[kind], id'[t]) = {} /\ Done(t, kind)' = 0
    <2>1. queues[kind] = <<>>  BY <1>4 DEF Bodied
    <2>2. tpc'[t] \in {"wait", "start"} /\ turn'[t] = 1
      <3>1. \A k \in Shared : ~ReadShared(t, k)  OBVIOUS
      <3>2. ~Passed(t) /\ ~SendStart(t) /\ ~WakeUp(t)  BY <1>4 DEF Counts, Passed, SendStart, WakeUp
      <3>3. CASE ConnectRequest(t)
        BY <3>3, LocalFacts DEF ConnectRequest, PastBarrier, Goto, localVars, Shape, Ended, Drawing
      <3>4. CASE ~ConnectRequest(t)
        <4>1. ~Passed(t)'  BY <3>2, <3>4, PassedKept
        <4>2. tpc'[t] = "wait"  BY <1>4, <4>1 DEF Counts, Passed
        <4> QED  BY <1>4, <3>1, <3>2, <3>4, <4>2, LocalFacts
              DEF Thread, ReadParam, ReadFirst, ReadSecond, Report, Locking, Counts,
                  ReadEnvironment, ReadValues, LockPlot, StopSampler, JoinSampler, EndOfFile,
                  Shared, Goto
      <3> QED  BY <3>3, <3>4
    <2> QED  BY <2>1, <2>2 DEF Mine, Done, Ended
  <1>5. ASSUME \E u \in Ids : ~Counts(u)' PROVE queues[kind] = <<>>
    BY <1>2, <1>3, <1>5 DEF Bodied
  <1>6. ASSUME NEW u \in Ids, Counts(u)'
        PROVE  Cardinality(Mine(queues[kind], id'[u])) = Done(u, kind)'
    BY <1>1, <1>2, <1>3, <1>4, <1>6, FS_EmptySet DEF Bodied
  <1>7. ASSUME NEW u \in Ids, Counts(u)', ~testRange, Done(u, kind)' > 0
        PROVE  \E n \in DOMAIN queues[kind] : queues[kind][n] = <<kind, 1, id'[u]>>
    <2>1. Done(u, kind)' # 0  BY <1>7
    <2>2. Counts(u)
      <3>1. CASE u = t  BY <1>4, <1>7, <2>1, <3>1
      <3>2. CASE u # t  BY <1>2, <1>7, <3>2
      <3> QED  BY <3>1, <3>2
    <2>3. id'[u] = id[u] /\ Done(u, kind)' = Done(u, kind)
      <3>1. CASE u = t  BY <1>3, <2>2, <3>1
      <3>2. CASE u # t  BY <1>1, <1>2, <3>2
      <3> QED  BY <3>1, <3>2
    <2>4. Done(u, kind) > 0  BY <1>7, <2>3
    <2> QED  BY <1>7, <2>2, <2>3, <2>4 DEF Bodied
  <1> QED  BY <1>1, <1>5, <1>6, <1>7 DEF Bodied

\* Filing ends one thread's turn in one queue.
LEMMA DoneFiling ==
  ASSUME Serving, NEW t \in Ids, NEW kind \in Shared, ReadShared(t, kind)
  PROVE  /\ Done(t, kind) \in Nat /\ Done(t, kind)' = Done(t, kind) + 1
         /\ \A k \in Shared \ {kind} : Done(t, k)' = Done(t, k)
  <1>1. /\ messageReceived[t] = 1 /\ tpc[t] = kind /\ turn[t] \in Nat \ {0}
        /\ scenario' = scenario
        /\ \/ /\ kind = "AVGS" /\ tpc'[t] = "lockRESULTS" /\ turn'[t] = turn[t]
           \/ /\ kind = "RESULTS" /\ tpc'[t] = "values" /\ turn[t] < Tests
              /\ turn'[t] = turn[t] + 1
           \/ /\ kind = "RESULTS" /\ tpc'[t] = "stop" /\ turn[t] = Tests
              /\ turn'[t] = turn[t]
    BY AfterFiling
  <1>2. Tests' = Tests  BY <1>1, Fixed
  <1> QED  BY <1>1, <1>2 DEF Done, Ended, Shared

\* Of a single test a body is filed in the queue of its own kind.
LEMMA OwnKind ==
  ASSUME Serving, NEW t \in Ids, NEW kind \in Shared, ReadShared(t, kind), ~testRange
  PROVE  Head(toMaster[Conn(t)]) = <<kind, 1>>
  <1>1. /\ messageReceived[t] = 1 /\ tpc[t] = kind /\ turn[t] \in Nat \ {0} /\ Receive(t)
    BY AfterFiling
  <1>2. Tests = 1 /\ turn[t] = 1
    <2>1. Tests = 1  BY DEF Tests
    <2> QED  BY <1>1, <2>1, LocalFacts DEF Shape
  <1>3. Reading(t)  BY <1>1 DEF Reading, Counts
  <1>4. Head(toMaster[Conn(t)]) = Script[Position(t) + 1]
    BY <1>1, <1>3, ReadsOn
  <1>5. Position(t) + 1 = IF kind = "AVGS" THEN 5 ELSE 6
    BY <1>1, <1>2 DEF Position, Shared, Ended
  <1>6. Script[5] = <<"AVGS", 1>> /\ Script[6] = <<"RESULTS", 1>>
    BY <1>2, LocalFacts, ScriptStart DEF TypeOK
  <1> QED  BY <1>4, <1>5, <1>6 DEF Shared

LEMMA BodiedFile ==
  ASSUME Serving, NEW k \in Shared, Bodied(k), NEW t \in Ids, NEW kind \in Shared, ReadShared(t, kind)
  PROVE  Bodied(k)'
  <1>0. Thread(t)  BY DEF Thread
  <1>1. /\ scenario' = scenario /\ id' = id /\ Ids' = Ids /\ testRange' = testRange /\ Tests' = Tests
    <2>1. scenario' = scenario /\ id' = id  BY DEF ReadShared, masterVars
    <2> QED  BY <2>1, Fixed
  <1>2. /\ \A u \in Ids : Counts(u)
        /\ \A u, v \in Ids : id[u] = id[v] => u = v
    BY AfterFiling, OneEach
  <1>3. \A u \in Ids : Counts(u)'
    BY <1>0, <1>2, ThreadOthers, StillCounts
  <1>4. /\ \A u \in Ids \ {t} : Done(u, k)' = Done(u, k)
        /\ Done(t, kind) \in Nat /\ Done(t, kind)' = Done(t, kind) + 1
        /\ k # kind => Done(t, k)' = Done(t, k)
    <2>1. \A u \in Ids \ {t} : tpc'[u] = tpc[u] /\ turn'[u] = turn[u]
      BY <1>0, LocalFacts, ThreadEffects
    <2> QED  BY <1>1, <2>1, DoneFiling DEF Done
  <1>5. id[t] \in Ids  BY LocalFacts DEF TypeOK, LocalTypes
  <1>6. CASE k # kind
    <2>1. queues'[k] = queues[k]  BY <1>6, LocalFacts, FilesOne
    <2>2. \A u \in Ids : Done(u, k)' = Done(u, k)  BY <1>4, <1>6
    <2> QED  BY <1>1, <1>2, <1>3, <2>1, <2>2 DEF Bodied
  <1>7. CASE k = kind
    <2> DEFINE queue == queues[k]
               longer == queues'[k]
    <2>1. /\ queue \in Seq(Filed) /\ longer \in Seq(Filed) /\ Longer(queue, longer, id[t])
          /\ \A name, n : Head(toMaster[Conn(t)]) = <<name, n>> =>
                longer[Len(longer)] = <<name, n, id[t]>>
      BY <1>7, LocalFacts, FilesOne
    <2> HIDE DEF queue, longer, Filed
    <2>2. /\ Cardinality(Mine(longer, id[t])) = Cardinality(Mine(queue, id[t])) + 1
          /\ \A j : j # id[t] => Mine(longer, j) = Mine(queue, j)
          /\ \A n \in DOMAIN queue : n \in DOMAIN longer /\ longer[n] = queue[n]
          /\ Len(longer) \in DOMAIN longer
      BY <2>1, MineGrows
    <2>3. \A n \in DOMAIN longer : longer[n][3] \in Ids
      <3>1. DOMAIN longer = 1..Len(longer) /\ DOMAIN queue = 1..Len(queue) /\ Len(queue) \in Nat
            /\ Len(longer) \in Nat
        BY <2>1
      <3>2. ASSUME NEW n \in 1..Len(longer) PROVE longer[n][3] \in Ids
        <4>0. n \in Int /\ Len(queue) \in Int /\ Len(longer) \in Int /\ n <= Len(longer)
          BY <3>1
        <4>1. CASE n <= Len(queue)
          <5>1. n \in DOMAIN queue  BY <3>1, <4>1
          <5>2. queue[n][3] \in Ids  BY <5>1 DEF Bodied, queue
          <5> QED  BY <2>2, <5>1, <5>2
        <4>2. CASE Len(queue) < n /\ n < Len(longer)
          BY <1>5, <2>1, <4>2 DEF Longer
        <4>3. CASE n = Len(longer)
          BY <1>5, <2>1, <4>3 DEF Longer
        <4>4. n <= Len(queue) \/ (Len(queue) < n /\ n < Len(longer)) \/ n = Len(longer)
          BY <4>0
        <4> QED  BY <4>1, <4>2, <4>3, <4>4
      <3> QED  BY <3>1, <3>2
    <2>4. ASSUME NEW u \in Ids PROVE Cardinality(Mine(longer, id[u])) = Done(u, k)'
      <3>1. Cardinality(Mine(queue, id[u])) = Done(u, k)  BY <1>2 DEF Bodied, queue
      <3>2. CASE u = t  BY <1>4, <1>7, <2>2, <3>1, <3>2
      <3>3. CASE u # t
        <4>1. id[u] # id[t]  BY <1>2, <3>3
        <4> QED  BY <1>4, <2>2, <3>1, <3>3, <4>1
      <3> QED  BY <3>2, <3>3
    <2>5. ASSUME NEW u \in Ids, ~testRange, Done(u, k)' > 0
          PROVE  \E n \in DOMAIN longer : longer[n] = <<k, 1, id[u]>>
      <3>1. CASE u = t
        <4>1. longer[Len(longer)] = <<k, 1, id[t]>>
          BY <1>7, <2>1, <2>5, OwnKind
        <4> QED  BY <2>2, <3>1, <4>1
      <3>2. CASE u # t
        <4>1. Done(u, k) > 0  BY <1>4, <2>5, <3>2
        <4>2. PICK n \in DOMAIN queue : queue[n] = <<k, 1, id[u]>>
          BY <1>2, <2>5, <4>1 DEF Bodied, queue
        <4> QED  BY <2>2, <4>2
      <3> QED  BY <3>1, <3>2
    <2> QED  BY <1>1, <1>3, <2>3, <2>4, <2>5 DEF Bodied, longer
  <1> QED  BY <1>6, <1>7

LEMMA BodiedElse ==
  ASSUME Serving, NEW k \in Shared, Bodied(k),
         \/ \E s \in Slaves : Slave(s) \/ Die(s) \/ Accept(s)
         \/ Plot \/ Aside \/ UNCHANGED vars
  PROVE  Bodied(k)'
  <1>0. TypeOK /\ Accepted /\ tpc \in [Ids -> ThreadPc]  BY DEF Serving, Meeting, TypeOK
  <1>1. /\ UNCHANGED <<scenario, queues, localVars>>
        /\ \A t \in Ids : tpc'[t] = tpc[t] \/ (tpc[t] = "off" /\ tpc'[t] = "created")
    BY <1>0, OtherEffects, AcceptEffects
  <1>2. /\ Ids' = Ids /\ testRange' = testRange /\ Tests' = Tests
        /\ UNCHANGED <<id, messageReceived, turn>>
    BY <1>1, Fixed DEF localVars
  <1>3. \A t \in Ids : Counts(t)' <=> Counts(t)
    BY <1>1, <1>2 DEF Counts
  <1>4. \A t \in Ids : Done(t, k)' = Done(t, k)
    BY <1>1, <1>2 DEF Done, Ended
  <1> QED  BY <1>1, <1>2, <1>3, <1>4 DEF Bodied

\* The elements of finitely many sets of one size, no two of which meet.
LEMMA Pages ==
  ASSUME NEW I, IsFiniteSet(I), NEW size \in Nat, NEW S, IsFiniteSet(S), NEW of,
         of \in [S -> I],
         \A i \in I : Cardinality({n \in S : of[n] = i}) = size
  PROVE  Cardinality(S) = Cardinality(I) * size
  <1> DEFINE Part(i) == {n \in S : of[n] = i}
             chosen == [i \in I |-> CHOOSE f : f \in Bijection(1..size, Part(i))]
             place == [p \in I \X (1..size) |-> chosen[p[1]][p[2]]]
  <1>1. ASSUME NEW i \in I PROVE chosen[i] \in Bijection(1..size, Part(i))
    <2>1. Part(i) \in SUBSET S  OBVIOUS
    <2>2. IsFiniteSet(Part(i))  BY <2>1, FS_Subset
    <2>3. Cardinality(Part(i)) = size  OBVIOUS
    <2>4. ExistsBijection(1..size, Part(i))
      BY <2>2, <2>3, FS_CardinalityType
    <2>5. \E f : f \in Bijection(1..size, Part(i))  BY <2>4 DEF ExistsBijection
    <2> QED  BY <2>5
  <1>2. ASSUME NEW i \in I
        PROVE  /\ chosen[i] \in [1..size -> Part(i)]
               /\ \A a, b \in 1..size : chosen[i][a] = chosen[i][b] => a = b
               /\ \A n \in Part(i) : \E a \in 1..size : chosen[i][a] = n
    <2>1. chosen[i] \in Bijection(1..size, Part(i))  BY <1>1
    <2> HIDE DEF chosen, Part
    <2>2. /\ chosen[i] \in [1..size -> Part(i)]
          /\ IsInjective(chosen[i])
          /\ \A n \in Part(i) : \E a \in 1..size : chosen[i][a] = n
      BY <2>1 DEF Bijection, Injection, Surjection
    <2>3. DOMAIN chosen[i] = 1..size  BY <2>2
    <2> QED  BY <2>2, <2>3 DEF IsInjective
  <1> HIDE DEF chosen
  <1>3. \A i \in I, a \in 1..size : chosen[i][a] \in S /\ of[chosen[i][a]] = i
    BY <1>2
  <1>4. place \in [I \X (1..size) -> S]
    BY <1>3
  <1>5. ASSUME NEW p \in I \X (1..size), NEW q \in I \X (1..size), place[p] = place[q]
        PROVE  p = q
    <2>1. PICK i \in I, a \in 1..size : p = <<i, a>>  OBVIOUS
    <2>2. PICK j \in I, b \in 1..size : q = <<j, b>>  OBVIOUS
    <2>3. place[p] = chosen[i][a] /\ place[q] = chosen[j][b]  BY <2>1, <2>2
    <2> HIDE DEF place
    <2>6. chosen[i][a] = chosen[j][b]  BY <1>5, <2>3
    <2>7. of[chosen[i][a]] = i /\ of[chosen[j][b]] = j  BY <1>3
    <2>4. i = j  BY <2>6, <2>7
    <2>5. a = b
      <3>1. chosen[i][a] = chosen[i][b]  BY <2>4, <2>6
      <3> HIDE DEF Part
      <3> QED  BY <1>2, <3>1
    <2> QED  BY <2>1, <2>2, <2>4, <2>5
  <1>6. ASSUME NEW n \in S PROVE \E p \in I \X (1..size) : place[p] = n
    <2>1. of[n] \in I /\ n \in Part(of[n])  OBVIOUS
    <2>2. PICK a \in 1..size : chosen[of[n]][a] = n  BY <1>2, <2>1
    <2>3. <<of[n], a>> \in I \X (1..size)  BY <2>1
    <2>4. place[<<of[n], a>>] = n  BY <2>2, <2>3
    <2> QED  BY <2>3, <2>4
  <1> HIDE DEF place
  <1>7. place \in Bijection(I \X (1..size), S)
    BY <1>4, <1>5, <1>6 DEF Bijection, Injection, Surjection, IsInjective
  <1>8. ExistsBijection(I \X (1..size), S)  BY <1>7 DEF ExistsBijection
  <1>9. IsFiniteSet(1..size) /\ Cardinality(1..size) = size  BY FS_Interval
  <1>10. /\ IsFiniteSet(I \X (1..size))
         /\ Cardinality(I \X (1..size)) = Cardinality(I) * Cardinality(1..size)
    BY <1>9, FS_Product
  <1>11. Cardinality(S) = Cardinality(I \X (1..size))
    BY <1>8, <1>10, FS_Bijection
  <1> QED  BY <1>9, <1>10, <1>11

Plotting == Serving /\ Sampling /\ \A k \in Shared : Bodied(k)

LEMMA PlottingInit == Init => Plotting
  <1> SUFFICES ASSUME Init PROVE Plotting
    OBVIOUS
  <1>1. Serving  BY ServingInit
  <1>2. /\ mpc = "accept" /\ samplers = 0
        /\ \A t \in Ids : tpc[t] = "off" /\ messageReceived[t] = 0
        /\ \A k \in Shared : queues[k] = <<>>
    BY DEF Init
  <1>3. Sampling  BY <1>2 DEF Sampling, HasSampler, Passed
  <1>4. \A t \in Ids : ~Counts(t)  BY <1>1, <1>2, LocalFacts DEF Counts
  <1>5. \A k \in Shared : DOMAIN queues[k] = {}  BY <1>2
  <1>6. \A k \in Shared : Bodied(k)  BY <1>2, <1>4, <1>5 DEF Bodied
  <1> QED  BY <1>1, <1>3, <1>6 DEF Plotting

LEMMA PlottingStep == Plotting /\ [Next]_vars => Plotting'
  <1> SUFFICES ASSUME Serving, Sampling, NEW kind \in Shared, Bodied(kind), [Next]_vars
               PROVE  Serving' /\ Sampling' /\ Bodied(kind)'
    <2>1. Shared # {}  BY DEF Shared
    <2> QED  BY <2>1 DEF Plotting
  <1>1. Serving'  BY ServingStep
  <1>2. Sampling'
    BY SamplingBarrier, SamplingThread, SamplingElse DEF Next, Aside, Main
  <1>3. ASSUME NEW t \in Ids, Thread(t) PROVE Bodied(kind)'
    <2>1. CASE \E k \in Shared : ReadShared(t, k)
      BY <2>1, BodiedFile
    <2>2. CASE \A k \in Shared : ~ReadShared(t, k)
      BY <1>3, <2>2, BodiedQuiet
    <2> QED  BY <2>1, <2>2
  <1>4. Bodied(kind)'
    BY <1>3, BodiedElse DEF Next, Aside, Main
  <1> QED  BY <1>1, <1>2, <1>4

\* When the master plots, every thread has ended and has filed each of its
\* slave's bodies, and the threads' slaves are all of them.
LEMMA AllFiled ==
  ASSUME Plotting, mpc = "plotted", NEW k \in Shared
  PROVE  /\ \A i \in Ids : Cardinality(Mine(queues[k], i)) = Tests
         /\ ~testRange => \A i \in Ids : \E n \in DOMAIN queues[k] : queues[k][n] = <<k, 1, i>>
  <1>1. Serving /\ Sampling /\ Bodied(k)  BY DEF Plotting
  <1>2. \A t \in Ids : tpc[t] = "exited"  BY <1>1 DEF Sampling
  <1>3. \A t \in Ids : messageReceived[t] > 0
    BY <1>1, <1>2, LocalFacts DEF Shape, Ended, Drawing
  <1>4. \A t \in Ids : Counts(t) /\ Done(t, k) = Tests
    BY <1>2, <1>3 DEF Counts, Done, Ended
  <1>5. ASSUME NEW i \in Ids
        PROVE  /\ Cardinality(Mine(queues[k], i)) = Tests
               /\ ~testRange => \E n \in DOMAIN queues[k] : queues[k][n] = <<k, 1, i>>
    <2>1. PICK t \in Ids : id[t] = i  BY <1>1, <1>3, OneEach
    <2>2. Tests \in Nat \ {0}  BY <1>1, LocalFacts
    <2>3. Done(t, k) > 0  BY <1>4, <2>2
    <2> QED  BY <1>1, <1>4, <2>1, <2>3 DEF Bodied
  <1> QED  BY <1>5

\* A queue of one header, at its front, and the bodies of every slave.
LEMMA WholeQueue ==
  ASSUME Plotting, HeaderFirst, mpc = "plotted", NEW k \in Shared
  PROVE  Len(queues[k]) = 1 + Quantity * Tests
  <1>1. /\ Quantity \in Nat \ {0} /\ Tests \in Nat \ {0} /\ Ids = 0..(Quantity - 1)
        /\ IsFiniteSet(Ids) /\ queues[k] \in Seq(Filed)
    BY ScenarioFacts DEF Plotting, Serving, Meeting, TypeOK, PlotTypes
  <1>2. PICK queue : queue = queues[k]  OBVIOUS
  <1>3. queue \in Seq(Filed) /\ DOMAIN queue = 1..Len(queue) /\ Len(queue) \in Nat
    BY <1>1, <1>2
  <1>4. \A n \in 1..Len(queue) : queue[n][1] = "HEADER" <=> n = 1
    BY <1>2, <1>3 DEF HeaderFirst
  <1>5. \A n \in 1..Len(queue) : queue[n][3] \in Ids
    BY <1>2, <1>3 DEF Plotting, Bodied
  <1>6. \A i \in Ids : Cardinality(Mine(queue, i)) = Tests
    BY <1>2, AllFiled
  <1> DEFINE S == 2..Len(queue)
             of == [n \in S |-> queue[n][3]]
  <1>7. ASSUME NEW i \in Ids PROVE {n \in S : of[n] = i} = Mine(queue, i)
    <2>1. \A n \in S : of[n] = queue[n][3]  OBVIOUS
    <2>2. \A n : n \in S <=> n \in 1..Len(queue) /\ n # 1  BY <1>3
    <2> HIDE DEF S, of
    <2> QED  BY <1>3, <1>4, <2>1, <2>2 DEF Mine
  <1>8. of \in [S -> Ids]
    <2>1. \A n \in S : n \in 1..Len(queue)  BY <1>3
    <2> QED  BY <1>5, <2>1
  <1>9. IsFiniteSet(S) /\ Cardinality(S) = IF 2 <= Len(queue) THEN Len(queue) - 2 + 1 ELSE 0
    BY <1>3, FS_Interval
  <1>10. Cardinality(S) = Cardinality(Ids) * Tests
    <2>1. \A i \in Ids : Cardinality({n \in S : of[n] = i}) = Tests
      BY <1>6, <1>7
    <2>2. IsFiniteSet(Ids) /\ Tests \in Nat /\ IsFiniteSet(S)
      BY <1>1, <1>9
    <2>3. PICK T, f : T = S /\ f = of  OBVIOUS
    <2> HIDE DEF S, of
    <2>4. /\ IsFiniteSet(T) /\ f \in [T -> Ids]
          /\ \A i \in Ids : Cardinality({n \in T : f[n] = i}) = Tests
      BY <1>8, <2>1, <2>2, <2>3
    <2>5. Cardinality(T) = Cardinality(Ids) * Tests
      BY <2>2, <2>4, Pages
    <2> QED  BY <2>3, <2>5
  <1>11. Cardinality(Ids) = Quantity
    BY <1>1, FS_Interval
  <1>12. Quantity * Tests \in Nat \ {0}
    <2>1. \A q, r \in Nat \ {0} : q * r \in Nat \ {0}  OBVIOUS
    <2> QED  BY <1>1, <2>1
  <1>13. Len(queue) = 1 + Quantity * Tests
    <2> HIDE DEF S
    <2> QED  BY <1>3, <1>9, <1>10, <1>11, <1>12
  <1> QED  BY <1>2, <1>13

\* What the master plots is whole: in each shared queue one body for every slave
\* and test, behind one header, for any number of slaves and tests, whichever
\* thread read which slave's parameter first (myserver.c:44-212, myreport.c).
THEOREM WhollyPlotted == Spec => []WholePlot
  <1>1. Plotting /\ HeaderFirst => WholePlot
    <2> SUFFICES ASSUME Plotting, HeaderFirst, mpc = "plotted", NEW k \in Shared
                 PROVE  /\ \A t \in Ids : Cardinality(Mine(queues[k], t)) = Tests
                        /\ Len(queues[k]) = 1 + Quantity * Tests
                        /\ ~testRange => \A t \in Ids : \E n \in DOMAIN queues[k] :
                                             queues[k][n] = <<k, 1, t>>
      BY DEF WholePlot, Mine
    <2> QED  BY AllFiled, WholeQueue
  <1> QED  BY <1>1, PlottingInit, PlottingStep, HeadersFirst, PTL DEF Spec
=============================================================================
