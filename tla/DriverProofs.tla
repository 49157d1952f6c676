----------------------------- MODULE DriverProofs -----------------------------
(***************************************************************************)
(* Proofs about module Driver, for all command lines, numbers of switches  *)
(* and of loops, results and times: its types, what a delay covers, how    *)
(* the report is framed, and what is averaged.                             *)
(***************************************************************************)
EXTENDS Driver, SequenceTheorems, FiniteSetTheorems, TLAPS

\* The numbers that the command line gives and the driver computes with.
Numbers == {"nSwitches", "loopsPerTest", "warmup", "cooldown", "delay", "msTestLen"}

Params ==
    /\ DOMAIN params = DOMAIN Defaults(0)
    /\ \A f \in Numbers : params[f] \in Nat
    /\ argv \in Seq(Given)

LEMMA NumbersDeclared == ASSUME NEW r PROVE Numbers \subseteq DOMAIN Defaults(r)
  BY DEF Numbers, Defaults

LEMMA DefaultNumbers == ASSUME NEW r, NEW f \in Numbers PROVE Defaults(r)[f] \in Nat
  <1>1. \A name \in {"cooldown", "delay", "loops", "ms-per-test", "switches", "warmup"} :
            Default(name) \in Nat
    BY DefaultsDeclared
  <1> QED  BY <1>1 DEF Numbers, Defaults

LEMMA DefaultFields == ASSUME NEW r PROVE DOMAIN Defaults(r) = DOMAIN Defaults(0)
  BY DEF Defaults

LEMMA UnsignedType == ASSUME NEW n \in Int PROVE Unsigned(n) \in Nat
  <1>1. PICK m \in Nat \ {0} : m = 2^W  BY WidthAssumption
  <1>2. n % m \in Nat  BY <1>1
  <1> QED  BY <1>1, <1>2 DEF Unsigned

\* An option changes one field, or two, and a number to a number.
LEMMA SetParams ==
  ASSUME NEW c \in Handled, NEW arg, c \in DOMAIN Field => arg \in Int,
         NEW p, DOMAIN p = DOMAIN Defaults(0), \A f \in Numbers : p[f] \in Nat
  PROVE  /\ DOMAIN Set(p, c, arg) = DOMAIN p
         /\ \A f \in Numbers : Set(p, c, arg)[f] \in Nat
  <1>0. Numbers \subseteq DOMAIN p  BY NumbersDeclared
  <1>1. CASE c \in DOMAIN Field
    <2>1. Set(p, c, arg) = [p EXCEPT ![Field[c]] = Unsigned(arg)]  BY <1>1 DEF Set, Field
    <2>2. Unsigned(arg) \in Nat  BY <1>1, UnsignedType
    <2> QED  BY <1>0, <2>1, <2>2
  <1>2. CASE c \notin DOMAIN Field
    <2>1. c \in {"C", "f", "L", "n", "o", "r", "t"}  BY <1>2 DEF Handled
    <2>2. CASE c = "C"  BY <1>0, <1>2, <2>2 DEF Set, Numbers
    <2>3. CASE c = "f"  BY <1>0, <1>2, <2>3 DEF Set, Numbers
    <2>4. CASE c = "L"  BY <1>0, <1>2, <2>4 DEF Set, Numbers
    <2>5. CASE c = "n"  BY <1>0, <1>2, <2>5 DEF Set, Numbers
    <2>6. CASE c = "o"  BY <1>0, <1>2, <2>6 DEF Set, Numbers
    <2>7. CASE c = "r"  BY <1>0, <1>2, <2>7 DEF Set, Numbers
    <2>8. CASE c = "t"  BY <1>0, <1>2, <2>8 DEF Set, Numbers
    <2> QED  BY <2>1, <2>2, <2>3, <2>4, <2>5, <2>6, <2>7, <2>8
  <1> QED  BY <1>1, <1>2

LEMMA ParamsInit == Init => Params
  <1> SUFFICES ASSUME Init PROVE Params
    OBVIOUS
  <1>1. argv \in Seq(Given)  BY LinesAssumption DEF Init
  <1>2. PICK r \in RandomOffset : params = Defaults(r)  BY DEF Init
  <1> QED  BY <1>1, <1>2, DefaultNumbers, DefaultFields DEF Params

LEMMA ParamsStep == Params /\ [Next]_vars => Params'
  <1> SUFFICES ASSUME Params, [Next]_vars PROVE Params'
    OBVIOUS
  <1>1. ASSUME UNCHANGED argVars PROVE Params'
    BY <1>1 DEF argVars, Params
  <1>2. ASSUME ParseOption PROVE Params'
    <2>1. PICK g : g = Head(argv)  OBVIOUS
    <2>2. PICK o : o = Getopt(g)  OBVIOUS
    <2>3. /\ argv # <<>> /\ argv' = Tail(argv) /\ o.c \in Handled /\ ~ReadsNull(o.c, o.optarg)
          /\ params' = Set(params, o.c, o.optarg)
      BY <1>2, <2>1, <2>2 DEF ParseOption
    <2>4. g \in Given /\ argv' \in Seq(Given)  BY <2>1, <2>3 DEF Params
    <2>5. o.c \in DOMAIN Field => o.optarg \in Int  BY <2>2, <2>3, <2>4, LinesAssumption
    <2> QED  BY <2>3, <2>4, <2>5, SetParams DEF Params
  <1>3. ASSUME BeginLoop PROVE Params'
    <2>1. params' = [params EXCEPT !.delay = IF j > 0 THEN 0 ELSE @] /\ UNCHANGED argv
      BY <1>3 DEF BeginLoop
    <2>2. Numbers \subseteq DOMAIN params /\ "delay" \in Numbers
      BY NumbersDeclared DEF Params, Numbers
    <2> QED  BY <2>1, <2>2 DEF Params
  <1>4. CASE UNCHANGED vars  BY <1>1, <1>4 DEF vars
  <1>5. CASE Next
    <2>1. CASE Benchmarking
      BY <1>1, <1>2, <1>3, <2>1
      DEF Benchmarking, ParseCrashes, Manual, Main, Start, StartCrashes, ConnectDivides,
          ConnectFails, ConnectSwitch, Poll, PollExits, EndLoop, Result, ResultCrashes,
          Finish, Join
    <2>2. CASE StartMessage \/ SamplerEnds \/ SamplerCrashes \/ SamplerDivides
      BY <1>1, <2>2 DEF StartMessage, SamplerEnds, SamplerCrashes, SamplerDivides, DiesSampling
    <2> QED  BY <1>5, <2>1, <2>2 DEF Next
  <1> QED  BY <1>4, <1>5

\* What does not change once the options are read.
LEMMA Steady ==
  ASSUME Params, [Next]_vars
  PROVE  \/ ParseOption
         \/ NSwitches' = NSwitches /\ Loops' = Loops /\ TestRange' = TestRange
  <1>1. ASSUME UNCHANGED params
        PROVE  NSwitches' = NSwitches /\ Loops' = Loops /\ TestRange' = TestRange
    BY <1>1 DEF NSwitches, Loops, TestRange
  <1>2. ASSUME BeginLoop
        PROVE  NSwitches' = NSwitches /\ Loops' = Loops /\ TestRange' = TestRange
    <2>1. params' = [params EXCEPT !.delay = IF j > 0 THEN 0 ELSE @]  BY <1>2 DEF BeginLoop
    <2>2. {"nSwitches", "loopsPerTest", "testRange"} \subseteq DOMAIN params
      BY DEF Params, Defaults
    <2> QED  BY <2>1, <2>2 DEF NSwitches, Loops, TestRange
  <1>3. CASE UNCHANGED vars  BY <1>1, <1>3 DEF vars, argVars
  <1>4. CASE Next
    <2>1. CASE Benchmarking
      BY <1>1, <1>2, <2>1
      DEF Benchmarking, ParseCrashes, Manual, Main, Start, StartCrashes, ConnectDivides,
          ConnectFails, ConnectSwitch, Poll, PollExits, EndLoop, Result, ResultCrashes,
          Finish, Join, argVars
    <2>2. CASE StartMessage \/ SamplerEnds \/ SamplerCrashes \/ SamplerDivides
      BY <1>1, <2>2
      DEF StartMessage, SamplerEnds, SamplerCrashes, SamplerDivides, DiesSampling, argVars
    <2> QED  BY <1>4, <2>1, <2>2 DEF Next
  <1> QED  BY <1>3, <1>4

-----------------------------------------------------------------------------
(* Times and results *)

PCs == {"options", "waiting", "start", "connect", "loop", "poll", "join", "serving", "done",
        "exited", "crashed"}

Tallies ==
    /\ pc \in PCs
    /\ clock \in Nat /\ then \in Nat /\ (pc = "poll" => then <= clock)
    /\ sum \in Nat /\ min \in 0..DblMax /\ max \in Nat
    /\ sampler \in {"off", "on", "done"} /\ snmpStop \in BOOLEAN

LEMMA DblMaxType == DblMax \in Nat
  BY SMT DEF DblMax

LEMMA TalliesInit == Init => Tallies
  <1> SUFFICES ASSUME Init PROVE Tallies
    OBVIOUS
  <1>1. pc = "options" /\ clock = 0 /\ then = 0 /\ sum = 0 /\ min = DblMax /\ max = 0
    BY DEF Init
  <1>2. sampler = "off" /\ snmpStop = FALSE  BY DEF Init
  <1>3. clock \in Nat /\ then \in Nat /\ sum \in Nat /\ max \in Nat  BY <1>1
  <1>4. min \in 0..DblMax  BY <1>1, DblMaxType
  <1>5. pc \in PCs /\ pc # "poll"  BY <1>1 DEF PCs
  <1> QED  BY <1>2, <1>3, <1>4, <1>5 DEF Tallies

\* Time has passed at the end of a loop, so that its result is a number.
LEMMA EndLoopTimes ==
  ASSUME Params, Tallies, EndLoop
  PROVE  /\ clock' \in Nat
         /\ clock' - params.delay \in Nat \ {0}
         /\ clock' - then - params.delay \in Nat
         /\ \E v \in Nat : Account(v)
         /\ pc' = "loop" /\ UNCHANGED <<then, sampler, snmpStop>>
  <1>1. params.delay \in Nat /\ params.msTestLen \in Nat  BY DEF Params, Numbers
  <1>2. QueueTime \in Nat \ {0} /\ Counts \subseteq Nat  BY TimesAssumption
  <1>3. clock \in Nat /\ then \in Nat  BY DEF Tallies
  <1>4. clock - then > params.msTestLen + params.delay  BY DEF EndLoop, TimeIsUp
  <1>5. clock' = clock + QueueTime  BY DEF EndLoop
  <1>6. PICK passed : passed = clock' - params.delay  OBVIOUS
  <1>7. passed \in Nat \ {0}  BY <1>1, <1>2, <1>3, <1>4, <1>5, <1>6
  <1>8. \E v \in Nat : Account(v)
    <2>1. PICK count \in Counts : Account((1000 * count) \div passed)
      BY <1>5, <1>6, SMT DEF EndLoop
    <2>2. (1000 * count) \div passed \in Nat  BY <1>2, <1>7, <2>1, SMT
    <2> QED  BY <2>1, <2>2, SMT
  <1>9. pc' = "loop" /\ UNCHANGED <<then, sampler, snmpStop>>
    BY SMT DEF EndLoop, snmpVars
  <1> QED  BY <1>1, <1>2, <1>3, <1>4, <1>5, <1>6, <1>7, <1>8, <1>9

LEMMA AccountTypes ==
  ASSUME Tallies, NEW v \in Nat, Account(v)
  PROVE  sum' \in Nat /\ min' \in 0..DblMax /\ max' \in Nat
  BY DblMaxType DEF Tallies, Account

LEMMA TalliesStep == Params /\ Tallies /\ [Next]_vars => Tallies'
  <1> SUFFICES ASSUME Params, Tallies, [Next]_vars PROVE Tallies'
    OBVIOUS
  <1> USE DEF Tallies, PCs
  <1>1. ASSUME ParseOption PROVE Tallies'
    BY <1>1 DEF ParseOption, timeVars, resultVars, snmpVars
  <1>2. ASSUME ParseCrashes \/ Manual \/ StartCrashes \/ ConnectDivides \/ ConnectFails
               \/ PollExits \/ ResultCrashes \/ SamplerCrashes \/ SamplerDivides
        PROVE  Tallies'
    BY <1>2 DEF ParseCrashes, Manual, StartCrashes, ConnectDivides, ConnectFails, PollExits,
                ResultCrashes, SamplerCrashes, SamplerDivides, DiesSampling,
                timeVars, resultVars, snmpVars
  <1>3. ASSUME Main \/ StartMessage PROVE Tallies'
    BY <1>3 DEF Main, StartMessage, timeVars, resultVars, snmpVars
  <1>4. ASSUME Start PROVE Tallies'
    BY <1>4 DEF Start, timeVars, resultVars
  <1>5. ASSUME ConnectSwitch PROVE Tallies'
    <2>1. /\ sum' = 0 /\ UNCHANGED <<then, min, max, sampler, snmpStop>>
          /\ clock' \in {clock, 0} /\ pc' \in {pc, "loop"} /\ pc = "connect"
      BY <1>5 DEF ConnectSwitch, snmpVars
    <2> QED  BY <2>1
  <1>6. ASSUME BeginLoop PROVE Tallies'
    BY <1>6 DEF BeginLoop, resultVars, snmpVars
  <1>7. ASSUME Poll PROVE Tallies'
    <2>1. PICK d \in PollTimes : clock' = clock + d  BY <1>7 DEF Poll
    <2>2. d \in Nat  BY <2>1, TimesAssumption
    <2> QED  BY <1>7, <2>1, <2>2 DEF Poll, resultVars, snmpVars
  <1>8. ASSUME EndLoop PROVE Tallies'
    <2>1. /\ clock' \in Nat /\ \E v \in Nat : Account(v)
          /\ pc' = "loop" /\ UNCHANGED <<then, sampler, snmpStop>>
      BY <1>8, EndLoopTimes
    <2>2. sum' \in Nat /\ min' \in 0..DblMax /\ max' \in Nat  BY <2>1, AccountTypes
    <2> QED  BY <2>1, <2>2
  <1>9. ASSUME Result PROVE Tallies'
    BY <1>9 DEF Result, timeVars, resultVars, snmpVars
  <1>10. ASSUME Finish \/ Join PROVE Tallies'
    <2>1. Alone \in BOOLEAN  BY DEF Alone
    <2> QED  BY <1>10, <2>1 DEF Finish, Join, timeVars, resultVars, snmpVars
  <1>11. ASSUME SamplerEnds PROVE Tallies'
    BY <1>11 DEF SamplerEnds, timeVars, resultVars
  <1>12. ASSUME UNCHANGED vars PROVE Tallies'
    BY <1>12 DEF vars, timeVars, resultVars, snmpVars
  <1> QED  BY <1>1, <1>2, <1>3, <1>4, <1>5, <1>6, <1>7, <1>8, <1>9, <1>10, <1>11, <1>12
           DEF Next, Benchmarking

-----------------------------------------------------------------------------
(* Switches and rows *)

Row  == [first : Int, second : Int, min : Int, max : Int, counted : Int, sum : Int]
Rate == [passed : Int, took : Int]
Kinds == {"ENV", "ROW", "LIMITER"}

SeqTypes ==
    /\ switchDelay \in Seq(Nat) /\ values \in Seq(Kinds)
    /\ avgs \in Seq(Rate) /\ rows \in Seq(Row)

Before == pc \in {"options", "waiting", "start", "serving"}
Within == pc \in {"loop", "poll"}
Across == pc \in {"connect", "join", "done"}

\* The tests that are behind a place between two tests.
Tested == IF TestRange THEN i ELSE IF i = NSwitches /\ NSwitches # 0 THEN 1 ELSE 0

\* How many switches are connected and how many rows were made at each place.
Places ==
    /\ i \in Nat /\ j \in Nat /\ i <= NSwitches /\ SeqTypes
    /\ Before => /\ i = 0 /\ switchDelay = <<>>
                 /\ rows = <<>> /\ avgs = <<>> /\ values = <<>>
    /\ Within => /\ i < NSwitches /\ Len(switchDelay) = i + 1
                 /\ TestRange \/ i + 1 = NSwitches
                 /\ Len(rows) = IF TestRange THEN i ELSE 0
    /\ Across => Len(switchDelay) = i /\ Len(rows) = Tested
    /\ pc \in {"join", "done"} => i = NSwitches
    /\ pc \in {"exited", "crashed"} => Len(switchDelay) \in {i, i + 1} /\ Len(rows) <= NSwitches

LEMMA NSwitchesType == Params => NSwitches \in Nat /\ Loops \in Nat /\ Warmup \in Nat /\ Cooldown \in Nat
  BY DEF Params, Numbers, NSwitches, Loops, Warmup, Cooldown

LEMMA PlacesInit == Params /\ Init => Places
  <1> SUFFICES ASSUME Params, Init PROVE Places
    OBVIOUS
  <1>1. pc = "options" /\ i = 0 /\ j = 0  BY DEF Init
  <1>2. switchDelay = <<>> /\ rows = <<>> /\ avgs = <<>> /\ values = <<>>  BY DEF Init
  <1>3. SeqTypes  BY <1>2 DEF SeqTypes
  <1> QED  BY <1>1, <1>2, <1>3, NSwitchesType DEF Places, Before, Within, Across

LEMMA ReciprocalType == ASSUME NEW v \in Nat PROVE Reciprocal(v) \in Int
  <1>1. CASE v = 0  BY <1>1, SMT DEF Reciprocal
  <1>2. CASE v > 0  BY <1>2, SMT DEF Reciprocal
  <1> QED  BY <1>1, <1>2

LEMMA ResultRow ==
  ASSUME Tallies, NEW n \in Int PROVE FormatResult(n, sum) \in Row
  <1>1. min \in Nat /\ max \in Nat /\ sum \in Nat  BY DblMaxType DEF Tallies
  <1> QED  BY <1>1, ReciprocalType DEF FormatResult, Row

\* The steps that connect no switch and make no row.
LEMMA PlacesKept ==
  ASSUME Params, Places, pc \in PCs, NSwitches' = NSwitches, TestRange' = TestRange,
         UNCHANGED <<i, switchDelay, rows>>, SeqTypes', j' \in Nat,
         \/ Within /\ Within'
         \/ Across /\ Across' /\ (pc' \in {"join", "done"} => i = NSwitches)
         \/ Before /\ Before' /\ UNCHANGED <<avgs, values>>
         \/ pc' \in {"exited", "crashed"}
         \/ Before /\ pc' = "connect"
         \/ UNCHANGED <<pc, avgs, values>>
  PROVE  Places'
  <1>1. NSwitches \in Nat  BY NSwitchesType
  <1>2. Tested' = Tested  BY DEF Tested
  <1>3. CASE Within /\ Within'
    BY <1>1, <1>3 DEF Places, Within, Before, Across
  <1>4. CASE Across /\ Across' /\ (pc' \in {"join", "done"} => i = NSwitches)
    BY <1>1, <1>2, <1>4 DEF Places, Within, Before, Across
  <1>5. CASE Before /\ Before' /\ UNCHANGED <<avgs, values>>
    BY <1>1, <1>5 DEF Places, Within, Before, Across
  <1>6. CASE pc' \in {"exited", "crashed"}
    <2>1. Len(switchDelay) \in {i, i + 1} /\ Len(rows) <= NSwitches
      <3>1. CASE Before  BY <1>1, <3>1 DEF Places
      <3>2. CASE Within  BY <1>1, <3>2 DEF Places
      <3>3. CASE Across
        <4>1. i \in Nat /\ i <= NSwitches /\ Len(switchDelay) = i /\ Len(rows) = Tested
          BY <3>3 DEF Places
        <4>2. CASE TestRange  BY <4>1, <4>2 DEF Tested
        <4>3. CASE ~TestRange  BY <1>1, <4>1, <4>3 DEF Tested
        <4> QED  BY <4>2, <4>3
      <3>4. CASE pc \in {"exited", "crashed"}  BY <3>4 DEF Places
      <3> QED  BY <3>1, <3>2, <3>3, <3>4 DEF PCs, Before, Within, Across
    <2> QED  BY <1>1, <1>6, <2>1 DEF Places, Within, Before, Across
  <1>7. CASE Before /\ pc' = "connect"
    <2>1. Len(switchDelay) = i /\ Len(rows) = Tested
      BY <1>1, <1>7 DEF Places, Tested
    <2> QED  BY <1>1, <1>2, <1>7, <2>1 DEF Places, Within, Before, Across
  <1>8. CASE UNCHANGED <<pc, avgs, values>>
    BY <1>1, <1>2, <1>8 DEF Places, Within, Before, Across
  <1> QED  BY <1>3, <1>4, <1>5, <1>6, <1>7, <1>8

LEMMA PlacesStep == Params /\ Tallies /\ Places /\ [Next]_vars => Places'
  <1> SUFFICES ASSUME Params, Tallies, Places, [Next]_vars PROVE Places'
    OBVIOUS
  <1>a. pc \in PCs /\ i \in Nat /\ j \in Nat /\ SeqTypes  BY DEF Tallies, Places
  <1>b. NSwitches \in Nat /\ Loops \in Nat /\ Warmup \in Nat /\ Cooldown \in Nat
    BY NSwitchesType
  <1>c. NSwitches' \in Nat
    <2>1. Params'  BY ParamsStep
    <2> QED  BY <2>1 DEF Params, Numbers, NSwitches
  <1>1. ASSUME ParseOption PROVE Places'
    <2>1. /\ pc = "options" /\ UNCHANGED <<pc, i, j, switchDelay, values, avgs, rows>>
      BY <1>1 DEF ParseOption, netVars, queueVars
    <2> QED  BY <1>c, <2>1 DEF Places, SeqTypes, Before, Within, Across
  <1>2. ASSUME ~ParseOption PROVE NSwitches' = NSwitches /\ TestRange' = TestRange
    BY <1>2, Steady
  <1>3. ASSUME UNCHANGED <<i, j, switchDelay, values, avgs, rows>>, ~ParseOption,
               \/ Within /\ Within'
               \/ Across /\ Across' /\ (pc' \in {"join", "done"} => i = NSwitches)
               \/ Before /\ Before'
               \/ pc' \in {"exited", "crashed"}
               \/ UNCHANGED pc
        PROVE  Places'
    <2>1. SeqTypes' /\ j' \in Nat  BY <1>a, <1>3 DEF SeqTypes
    <2> QED  BY <1>a, <1>2, <1>3, <2>1, PlacesKept
  <1>4. ASSUME ~ParseOption, ParseCrashes \/ Manual \/ StartCrashes \/ ConnectDivides
               \/ ConnectFails \/ PollExits \/ ResultCrashes \/ SamplerCrashes \/ SamplerDivides
        PROVE  Places'
    <2>1. UNCHANGED <<i, j, switchDelay, values, avgs, rows>> /\ pc' \in {"exited", "crashed"}
      BY <1>4 DEF ParseCrashes, Manual, StartCrashes, ConnectDivides, ConnectFails,
                  PollExits, ResultCrashes, SamplerCrashes, SamplerDivides, DiesSampling,
                  netVars, queueVars
    <2> QED  BY <1>3, <1>4, <2>1
  <1>5. ASSUME ~ParseOption, Main \/ StartMessage PROVE Places'
    <2>1. /\ UNCHANGED <<i, j, switchDelay, values, avgs, rows>>
          /\ pc \in {"options", "waiting"} /\ pc' \in {"start", "serving", "waiting"}
      BY <1>5 DEF Main, StartMessage, netVars, queueVars
    <2> QED  BY <1>3, <1>5, <2>1 DEF Before
  <1>6. ASSUME ~ParseOption, Start PROVE Places'
    <2>1. /\ UNCHANGED <<i, j, switchDelay, avgs, rows>> /\ values' = Append(values, "ENV")
          /\ pc = "start" /\ pc' = "connect"
      BY <1>6 DEF Start, netVars
    <2>2. SeqTypes' /\ j' \in Nat  BY <1>a, <2>1 DEF SeqTypes, Kinds
    <2> QED  BY <1>a, <1>2, <1>6, <2>1, <2>2, PlacesKept DEF Before
  <1>7. ASSUME ~ParseOption, ConnectSwitch PROVE Places'
    <2>1. /\ pc = "connect" /\ i < NSwitches /\ switchDelay' = Append(switchDelay, params.delay)
          /\ UNCHANGED <<values, avgs, rows>>
          /\ IF TestRange \/ i + 1 = NSwitches
             THEN pc' = "loop" /\ j' = 0 /\ UNCHANGED i
             ELSE i' = i + 1 /\ UNCHANGED <<pc, j>>
      BY <1>7 DEF ConnectSwitch, queueVars
    <2>2. params.delay \in Nat  BY DEF Params, Numbers
    <2>3. SeqTypes' /\ Len(switchDelay') = Len(switchDelay) + 1
      BY <1>a, <2>1, <2>2 DEF SeqTypes
    <2>4. Len(switchDelay) = i /\ Len(rows) = Tested  BY <2>1 DEF Places, Across
    <2>5. Len(rows) = IF TestRange THEN i ELSE 0  BY <1>a, <2>1, <2>4 DEF Tested
    <2>6. CASE TestRange \/ i + 1 = NSwitches
      <3>1. pc' = "loop" /\ j' = 0 /\ i' = i  BY <2>1, <2>6
      <3> QED  BY <1>a, <1>b, <1>2, <1>7, <2>1, <2>3, <2>4, <2>5, <2>6, <3>1
               DEF Places, Before, Within, Across
    <2>7. CASE ~(TestRange \/ i + 1 = NSwitches)
      <3>1. pc' = "connect" /\ i' = i + 1 /\ j' = j  BY <2>1, <2>7
      <3>2. i' # NSwitches /\ i' <= NSwitches  BY <1>a, <1>b, <2>1, <2>7, <3>1
      <3>3. Tested' = 0  BY <1>2, <1>7, <2>7, <3>2 DEF Tested
      <3>4. Len(rows') = 0  BY <2>1, <2>5, <2>7
      <3> QED  BY <1>a, <1>b, <1>2, <1>7, <2>1, <2>3, <2>4, <3>1, <3>2, <3>3, <3>4
               DEF Places, Before, Within, Across
    <2> QED  BY <2>6, <2>7
  <1>8. ASSUME ~ParseOption, BeginLoop \/ Poll PROVE Places'
    <2>1. UNCHANGED <<i, j, switchDelay, values, avgs, rows>> /\ Within /\ Within'
      BY <1>8 DEF BeginLoop, Poll, netVars, queueVars, Within
    <2> QED  BY <1>3, <1>8, <2>1
  <1>9. ASSUME ~ParseOption, EndLoop PROVE Places'
    <2>1. /\ UNCHANGED <<i, switchDelay, rows>> /\ j' = j + 1 /\ Within /\ Within'
          /\ values' = values \o <<"ROW">> \o IF j = Loops - 1 THEN <<"LIMITER">> ELSE <<>>
          /\ avgs' = avgs \o <<[passed |-> clock' - params.delay,
                                took |-> clock' - then - params.delay]>>
                          \o IF j = Loops - 1 THEN <<Limiter>> ELSE <<>>
      BY <1>9, SMT DEF EndLoop, netVars, Within
    <2>2. [passed |-> clock' - params.delay, took |-> clock' - then - params.delay] \in Rate
      BY <1>9, EndLoopTimes DEF Rate
    <2>3. Limiter \in Rate  BY DEF Limiter, Rate
    <2>4. values' \in Seq(Kinds)
      <3>1. values \o <<"ROW">> \in Seq(Kinds)  BY <1>a DEF SeqTypes, Kinds
      <3>2. CASE j = Loops - 1  BY <2>1, <3>1, <3>2 DEF Kinds
      <3>3. CASE j # Loops - 1  BY <2>1, <3>1, <3>3
      <3> QED  BY <3>2, <3>3
    <2>5. avgs' \in Seq(Rate)
      <3>1. PICK r : r = [passed |-> clock' - params.delay, took |-> clock' - then - params.delay]
        OBVIOUS
      <3>2. avgs \o <<r>> \in Seq(Rate)  BY <1>a, <2>2, <3>1 DEF SeqTypes
      <3>3. CASE j = Loops - 1  BY <2>1, <2>3, <3>1, <3>2, <3>3
      <3>4. CASE j # Loops - 1  BY <2>1, <3>1, <3>2, <3>4
      <3> QED  BY <3>3, <3>4
    <2>6. SeqTypes' /\ j' \in Nat  BY <1>a, <2>1, <2>4, <2>5 DEF SeqTypes
    <2> QED  BY <1>a, <1>2, <1>9, <2>1, <2>6, PlacesKept
  <1>10. ASSUME ~ParseOption, Result PROVE Places'
    <2>1. /\ pc = "loop" /\ pc' = "connect" /\ i' = i + 1 /\ UNCHANGED <<switchDelay, values, avgs>>
          /\ rows' = Append(rows, FormatResult(Loops - Warmup - Cooldown, sum))
          /\ j' \in {CooldownFrom, Warmup}
      BY <1>10 DEF Result, netVars
    <2>2. FormatResult(Loops - Warmup - Cooldown, sum) \in Row  BY <1>b, ResultRow
    <2>3. SeqTypes' /\ Len(rows') = Len(rows) + 1
      <3>1. PICK r : r = FormatResult(Loops - Warmup - Cooldown, sum)  OBVIOUS
      <3>2. rows' = Append(rows, r) /\ r \in Row  BY <2>1, <2>2, <3>1
      <3> QED  BY <1>a, <2>1, <3>2 DEF SeqTypes
    <2>4. j' \in Nat
      <3>1. Loops - Cooldown \in Int  BY <1>b
      <3>2. CooldownFrom \in Nat  BY <3>1, UnsignedType DEF CooldownFrom
      <3> QED  BY <1>b, <2>1, <3>2
    <2>5. /\ i < NSwitches /\ Len(switchDelay) = i + 1
          /\ TestRange \/ i + 1 = NSwitches
          /\ Len(rows) = IF TestRange THEN i ELSE 0
      BY <2>1 DEF Places, Within
    <2>6. Tested' = IF TestRange THEN i + 1 ELSE 1
      BY <1>a, <1>b, <1>2, <1>10, <2>1, <2>5 DEF Tested
    <2> QED  BY <1>a, <1>b, <1>2, <1>10, <2>1, <2>3, <2>4, <2>5, <2>6
             DEF Places, Before, Within, Across
  <1>11. ASSUME ~ParseOption, Finish \/ Join PROVE Places'
    <2>1. /\ UNCHANGED <<i, j, switchDelay, values, avgs, rows>> /\ Across /\ Across'
          /\ pc = "connect" => i >= NSwitches
          /\ pc \in {"connect", "join"}
      BY <1>11 DEF Finish, Join, netVars, queueVars, Across
    <2>2. i = NSwitches  BY <1>a, <1>b, <2>1 DEF Places
    <2> QED  BY <1>3, <1>11, <2>1, <2>2
  <1>12. ASSUME ~ParseOption, SamplerEnds \/ UNCHANGED vars PROVE Places'
    <2>1. UNCHANGED <<pc, i, j, switchDelay, values, avgs, rows>>
      BY <1>12 DEF SamplerEnds, vars, netVars, queueVars
    <2> QED  BY <1>3, <1>12, <2>1
  <1> QED  BY <1>1, <1>4, <1>5, <1>6, <1>7, <1>8, <1>9, <1>10, <1>11, <1>12
           DEF Next, Benchmarking


-----------------------------------------------------------------------------
(* The delay *)

\* As long as no loop has begun: of a single test every switch, and of a ranged one
\* the last, was initialised with the delay that is still in params.
Delays ==
    /\ pc = "connect" /\ ~TestRange /\ i < NSwitches =>
        \A s \in 1..i : switchDelay[s] = params.delay
    /\ Within /\ j = 0 =>
        \A s \in 1..(i + 1) : ~TestRange \/ s = i + 1 => switchDelay[s] = params.delay

LEMMA DelaysInit == Init => Delays
  <1> SUFFICES ASSUME Init PROVE Delays
    OBVIOUS
  <1>1. pc = "options"  BY DEF Init
  <1> QED  BY <1>1 DEF Delays, Within

LEMMA DelaysStep == Params /\ Tallies /\ Places /\ Delays /\ [Next]_vars => Delays'
  <1> SUFFICES ASSUME Params, Tallies, Places, Delays, [Next]_vars PROVE Delays'
    OBVIOUS
  <1>a. i \in Nat /\ j \in Nat /\ switchDelay \in Seq(Nat)  BY DEF Places, SeqTypes
  <1>b. NSwitches \in Nat  BY NSwitchesType
  <1>1. ASSUME ~Within', pc' # "connect" PROVE Delays'
    BY <1>1 DEF Delays
  <1>2. ASSUME ~ParseOption PROVE NSwitches' = NSwitches /\ TestRange' = TestRange
    BY <1>2, Steady
  <1>3. ASSUME ParseOption PROVE Delays'
    <2>1. pc' = "options"  BY <1>3 DEF ParseOption
    <2> QED  BY <1>1, <2>1 DEF Within
  <1>4. ASSUME ~ParseOption, Start PROVE Delays'
    <2>1. i' = 0 /\ pc' = "connect"  BY <1>4 DEF Start, Places, Before
    <2> QED  BY <2>1 DEF Delays, Within
  <1>5. ASSUME ~ParseOption, ConnectSwitch PROVE Delays'
    <2>1. /\ pc = "connect" /\ i < NSwitches /\ switchDelay' = Append(switchDelay, params.delay)
          /\ UNCHANGED params
          /\ IF TestRange \/ i + 1 = NSwitches
             THEN pc' = "loop" /\ j' = 0 /\ UNCHANGED i
             ELSE i' = i + 1 /\ UNCHANGED <<pc, j>>
      BY <1>5 DEF ConnectSwitch, argVars
    <2>2. Len(switchDelay) = i /\ params.delay \in Nat
      BY <2>1 DEF Places, Across, Params, Numbers
    <2>3. switchDelay'[i + 1] = params.delay /\ \A s \in 1..i : switchDelay'[s] = switchDelay[s]
      BY <1>a, <2>1, <2>2
    <2>4. ~TestRange => \A s \in 1..i : switchDelay[s] = params.delay  BY <2>1 DEF Delays
    <2>5. \A s \in 1..(i + 1) : s \in 1..i \/ s = i + 1  BY <1>a
    <2>6. \A s \in 1..(i + 1) : ~TestRange \/ s = i + 1 => switchDelay'[s] = params.delay
      BY <2>3, <2>4, <2>5
    <2>7. CASE TestRange \/ i + 1 = NSwitches
      <3>1. pc' = "loop" /\ i' = i  BY <2>1, <2>7
      <3>2. params' = params /\ TestRange' = TestRange  BY <1>2, <1>5, <2>1
      <3>3. \A s \in 1..(i' + 1) :
                ~TestRange' \/ s = i' + 1 => switchDelay'[s] = params'.delay
        BY <2>6, <3>1, <3>2
      <3> QED  BY <3>1, <3>3 DEF Delays, Within
    <2>8. CASE ~(TestRange \/ i + 1 = NSwitches)
      <3>1. pc' = "connect" /\ i' = i + 1  BY <2>1, <2>8
      <3> QED  BY <1>2, <1>5, <2>1, <2>6, <2>8, <3>1 DEF Delays, Within
    <2> QED  BY <2>7, <2>8
  <1>6. ASSUME ~ParseOption, BeginLoop PROVE Delays'
    <2>1. /\ pc = "loop" /\ pc' = "poll" /\ UNCHANGED <<i, j, switchDelay>>
          /\ params' = [params EXCEPT !.delay = IF j > 0 THEN 0 ELSE @]
      BY <1>6 DEF BeginLoop, netVars
    <2>2. "delay" \in DOMAIN params  BY NumbersDeclared DEF Params, Numbers
    <2>3. j = 0 => params'.delay = params.delay  BY <2>1, <2>2
    <2> QED  BY <1>2, <1>6, <2>1, <2>3 DEF Delays, Within
  <1>7. ASSUME ~ParseOption, EndLoop PROVE Delays'
    <2>1. pc' = "loop" /\ j' = j + 1  BY <1>7, SMT DEF EndLoop
    <2> QED  BY <1>a, <2>1 DEF Delays
  <1>8. ASSUME ~ParseOption, Result PROVE Delays'
    <2>1. pc = "loop" /\ pc' = "connect" /\ i' = i + 1  BY <1>8 DEF Result
    <2>2. TestRange \/ i + 1 = NSwitches  BY <2>1 DEF Places, Within
    <2> QED  BY <1>a, <1>b, <1>2, <1>8, <2>1, <2>2 DEF Delays, Within
  <1>9. ASSUME ~ParseOption, Poll \/ SamplerEnds \/ UNCHANGED vars PROVE Delays'
    <2>1. UNCHANGED <<pc, i, j, switchDelay, params>>
      BY <1>9 DEF Poll, SamplerEnds, vars, argVars, netVars
    <2> QED  BY <1>2, <1>9, <2>1 DEF Delays, Within
  <1>10. ASSUME ParseCrashes \/ Manual \/ Main \/ StartMessage \/ StartCrashes \/ ConnectDivides
                \/ ConnectFails \/ PollExits \/ ResultCrashes \/ SamplerCrashes \/ SamplerDivides
                \/ Finish \/ Join
         PROVE  Delays'
    <2>1. ~Within' /\ pc' # "connect"
      BY <1>10 DEF ParseCrashes, Manual, Main, StartMessage, StartCrashes, ConnectDivides,
                   ConnectFails, PollExits, ResultCrashes, SamplerCrashes, SamplerDivides,
                   DiesSampling, Finish, Join, Within
    <2> QED  BY <1>1, <2>1
  <1> QED  BY <1>3, <1>4, <1>5, <1>6, <1>7, <1>8, <1>9, <1>10 DEF Next, Benchmarking

\* The first loop of a test is as much longer as its new switches delay, for every
\* delay, number of switches and range.
THEOREM DelayCovered == Spec => []CoversDelay
  <1>1. Places /\ Delays => CoversDelay
    <2> SUFFICES ASSUME Places, Delays, pc = "poll", j = 0
                 PROVE  \A s \in DOMAIN switchDelay :
                            ~TestRange \/ s = i + 1 => switchDelay[s] = params.delay
      BY DEF CoversDelay
    <2>1. Within /\ switchDelay \in Seq(Nat) /\ Len(switchDelay) = i + 1
      BY DEF Places, Within, SeqTypes
    <2>2. DOMAIN switchDelay = 1..(i + 1)  BY <2>1
    <2> QED  BY <2>1, <2>2 DEF Delays
  <1> QED  BY <1>1, ParamsInit, ParamsStep, TalliesInit, TalliesStep, PlacesInit, PlacesStep,
              DelaysInit, DelaysStep, PTL DEF Spec

-----------------------------------------------------------------------------
(* The frames of the report *)

\* The entries of k tests in one queue: a row of each loop and a LIMITER.
Entries(k) == k * (Loops + 1)

\* k tests are ended in both queues.
Ended(k) ==
    \A r \in 1..k : /\ Entries(r) \in 1..Len(avgs) /\ avgs[Entries(r)] = Limiter
                    /\ Entries(r) + 1 \in 1..Len(values)
                    /\ values[Entries(r) + 1] = "LIMITER"

Extra == IF j = Loops THEN 1 ELSE 0

\* Between two tests all that were made are in the queues with their limiters; within
\* one the loops that ended are too, and its limiter when they all have.
Frames ==
    Loops > 0 =>
        /\ Within => /\ j <= Loops /\ (pc = "poll" => j < Loops)
                     /\ Len(avgs) = Entries(Len(rows)) + j + Extra
                     /\ Len(values) = Entries(Len(rows)) + 1 + j + Extra
                     /\ Ended(Len(rows) + Extra)
        /\ Across => /\ Len(avgs) = Entries(Len(rows))
                     /\ Len(values) = Entries(Len(rows)) + 1
                     /\ Ended(Len(rows))

LEMMA EntriesNext ==
  ASSUME Params, NEW k \in Nat
  PROVE  /\ Entries(k) \in Nat /\ Entries(0) = 0
         /\ Entries(k + 1) = Entries(k) + Loops + 1
  <1>1. Loops \in Nat  BY NSwitchesType
  <1>2. ASSUME NEW l \in Nat
        PROVE  k * l \in Nat /\ 0 * l = 0 /\ (k + 1) * l = k * l + l
    OBVIOUS
  <1>3. PICK m \in Nat : m = Loops + 1  BY <1>1
  <1>4. k * m \in Nat /\ 0 * m = 0 /\ (k + 1) * m = k * m + m  BY <1>2
  <1> QED  BY <1>1, <1>3, <1>4 DEF Entries

LEMMA FramesInit == Init => Frames
  <1> SUFFICES ASSUME Init PROVE Frames
    OBVIOUS
  <1>1. pc = "options"  BY DEF Init
  <1> QED  BY <1>1 DEF Frames, Within, Across

\* Entries that are appended leave the ended tests as they are.
LEMMA EndedKept ==
  ASSUME SeqTypes, Loops' = Loops, NEW k, Ended(k),
         NEW v \in Seq(Kinds), values' = values \o v, NEW a \in Seq(Rate), avgs' = avgs \o a
  PROVE  Ended(k)'
  <1>1. \A r : Entries(r)' = Entries(r)  BY DEF Entries
  <1>2. ASSUME NEW n \in 1..Len(values)
        PROVE  n \in 1..Len(values') /\ values'[n] = values[n]
    BY <1>2 DEF SeqTypes
  <1>3. ASSUME NEW n \in 1..Len(avgs) PROVE n \in 1..Len(avgs') /\ avgs'[n] = avgs[n]
    BY <1>3 DEF SeqTypes
  <1> QED  BY <1>1, <1>2, <1>3 DEF Ended

LEMMA Concat ==
  ASSUME NEW S, NEW s \in Seq(S), NEW t \in Seq(S)
  PROVE  /\ s \o t \in Seq(S) /\ Len(s \o t) = Len(s) + Len(t) /\ Len(s) \in Nat /\ Len(t) \in Nat
         /\ \A n \in 1..Len(t) : (s \o t)[Len(s) + n] = t[n]
  OBVIOUS

LEMMA TwoAppended ==
  ASSUME NEW S, NEW s \in Seq(S), NEW x \in S, NEW y \in S
  PROVE  \E t \in Seq(S) : (s \o <<x>>) \o <<y>> = s \o t /\ Len(t) = 2 /\ t[2] = y
  <1>1. /\ <<x>> \in Seq(S) /\ Len(<<x>>) = 1
        /\ <<y>> \in Seq(S) /\ Len(<<y>>) = 1 /\ <<y>>[1] = y
    OBVIOUS
  <1>2. PICK u, w : u = <<x>> /\ w = <<y>>  OBVIOUS
  <1>3. u \o w \in Seq(S) /\ Len(u \o w) = 2 /\ (u \o w)[2] = y
    <2>1. Len(u \o w) = 1 + 1 /\ (u \o w)[1 + 1] = w[1]  BY <1>1, <1>2, Concat
    <2> QED  BY <1>1, <1>2, <2>1, Concat
  <1>4. (s \o u) \o w = s \o (u \o w)  BY <1>1, <1>2, ConcatAssociative
  <1> QED  BY <1>2, <1>3, <1>4

\* What the end of a loop appends.
LEMMA EndLoopAppends ==
  ASSUME Params, Tallies, Places, EndLoop
  PROVE  \E v \in Seq(Kinds), a \in Seq(Rate) :
            /\ values' = values \o v /\ avgs' = avgs \o a
            /\ j # Loops - 1 => Len(v) = 1 /\ Len(a) = 1
            /\ j = Loops - 1 => /\ Len(v) = 2 /\ v[2] = "LIMITER"
                                /\ Len(a) = 2 /\ a[2] = Limiter
  <1>1. PICK r : r = [passed |-> clock' - params.delay, took |-> clock' - then - params.delay]
    OBVIOUS
  <1>2. r \in Rate  BY <1>1, EndLoopTimes DEF Rate
  <1>3. /\ values' = values \o <<"ROW">> \o IF j = Loops - 1 THEN <<"LIMITER">> ELSE <<>>
        /\ avgs' = avgs \o <<r>> \o IF j = Loops - 1 THEN <<Limiter>> ELSE <<>>
    BY <1>1, SMT DEF EndLoop
  <1>4. values \in Seq(Kinds) /\ avgs \in Seq(Rate)  BY DEF Places, SeqTypes
  <1>5. Limiter \in Rate  BY DEF Limiter, Rate
  <1>6. CASE j = Loops - 1
    <2>1. \E v \in Seq(Kinds) : values' = values \o v /\ Len(v) = 2 /\ v[2] = "LIMITER"
      <3>1. values' = (values \o <<"ROW">>) \o <<"LIMITER">>  BY <1>3, <1>6
      <3>2. PICK x, y : x = "ROW" /\ y = "LIMITER"  OBVIOUS
      <3>3. x \in Kinds /\ y \in Kinds  BY <3>2 DEF Kinds
      <3>4. \E t \in Seq(Kinds) : (values \o <<x>>) \o <<y>> = values \o t /\ Len(t) = 2 /\ t[2] = y
        BY <1>4, <3>3, TwoAppended
      <3> QED  BY <3>1, <3>2, <3>4
    <2>2. \E a \in Seq(Rate) : avgs' = avgs \o a /\ Len(a) = 2 /\ a[2] = Limiter
      <3>1. avgs' = (avgs \o <<r>>) \o <<Limiter>>  BY <1>3, <1>6
      <3>2. \E t \in Seq(Rate) :
                (avgs \o <<r>>) \o <<Limiter>> = avgs \o t /\ Len(t) = 2 /\ t[2] = Limiter
        BY <1>2, <1>4, <1>5, TwoAppended
      <3> QED  BY <3>1, <3>2
    <2> QED  BY <1>6, <2>1, <2>2
  <1>7. CASE j # Loops - 1
    <2>1. values' = values \o <<"ROW">>
      <3>1. values' = (values \o <<"ROW">>) \o <<>>  BY <1>3, <1>7
      <3>2. values \o <<"ROW">> \in Seq(Kinds)  BY <1>4 DEF Kinds
      <3> QED  BY <3>1, <3>2, ConcatEmptySeq
    <2>2. avgs' = avgs \o <<r>>
      <3>1. avgs' = (avgs \o <<r>>) \o <<>>  BY <1>3, <1>7
      <3>2. avgs \o <<r>> \in Seq(Rate)  BY <1>2, <1>4
      <3> QED  BY <3>1, <3>2, ConcatEmptySeq
    <2>3. <<"ROW">> \in Seq(Kinds) /\ <<r>> \in Seq(Rate)  BY <1>2 DEF Kinds
    <2> QED  BY <1>7, <2>1, <2>2, <2>3
  <1> QED  BY <1>6, <1>7

LEMMA FramesStep == Params /\ Tallies /\ Places /\ Frames /\ [Next]_vars => Frames'
  <1> SUFFICES ASSUME Params, Tallies, Places, Frames, [Next]_vars, Loops' > 0 PROVE Frames'
    BY DEF Frames
  <1>a. i \in Nat /\ j \in Nat /\ SeqTypes /\ Len(rows) \in Nat  BY DEF Places, SeqTypes
  <1>b. NSwitches \in Nat /\ Loops \in Nat  BY NSwitchesType
  <1>1. ASSUME ~Within', ~Across' PROVE Frames'
    BY <1>1 DEF Frames
  <1>2. ASSUME ~ParseOption PROVE Loops' = Loops
    BY <1>2, Steady
  <1>3. ASSUME Loops' = Loops, UNCHANGED <<values, avgs, rows>>,
               \/ Across /\ Across'
               \/ Within /\ Within' /\ UNCHANGED j /\ (pc' = "poll" => j < Loops)
               \/ UNCHANGED <<pc, j>>
        PROVE  Frames'
    <2>1. Extra' = IF j' = Loops THEN 1 ELSE 0  BY <1>3 DEF Extra
    <2>2. \A k : Entries(k)' = Entries(k)  BY <1>3 DEF Entries
    <2>3. \A k : Ended(k)' = Ended(k)  BY <1>3, <2>2 DEF Ended
    <2>4. CASE Across /\ Across'
      BY <1>3, <2>2, <2>3, <2>4 DEF Frames, Across, Within
    <2>5. CASE Within /\ Within' /\ UNCHANGED j /\ (pc' = "poll" => j < Loops)
      <3>1. Extra' = Extra  BY <2>1, <2>5 DEF Extra
      <3> QED  BY <1>3, <2>2, <2>3, <2>5, <3>1 DEF Frames, Across, Within
    <2>6. CASE UNCHANGED <<pc, j>>
      <3>1. Extra' = Extra  BY <2>1, <2>6 DEF Extra
      <3> QED  BY <1>3, <2>2, <2>3, <2>6, <3>1 DEF Frames, Across, Within
    <2> QED  BY <1>3, <2>4, <2>5, <2>6
  <1>4. ASSUME ParseOption PROVE Frames'
    <2>1. pc' = "options"  BY <1>4 DEF ParseOption
    <2> QED  BY <1>1, <2>1 DEF Within, Across
  <1>5. ASSUME ParseCrashes \/ Manual \/ Main \/ StartMessage \/ StartCrashes \/ ConnectDivides
               \/ ConnectFails \/ PollExits \/ ResultCrashes \/ SamplerCrashes \/ SamplerDivides
        PROVE  Frames'
    <2>1. ~Within' /\ ~Across'
      BY <1>5 DEF ParseCrashes, Manual, Main, StartMessage, StartCrashes, ConnectDivides,
                  ConnectFails, PollExits, ResultCrashes, SamplerCrashes, SamplerDivides,
                  DiesSampling, Within, Across
    <2> QED  BY <1>1, <2>1
  <1>6. ASSUME ~ParseOption, Start PROVE Frames'
    <2>1. /\ pc' = "connect" /\ rows' = <<>> /\ avgs' = <<>> /\ values' = <<"ENV">>
      BY <1>6 DEF Start, Places, Before
    <2>2. Entries(0) = 0 /\ Entries(0)' = 0  BY <1>2, <1>6, EntriesNext DEF Entries
    <2>3. Ended(0)'  BY DEF Ended
    <2>4. Len(rows') = 0 /\ Len(avgs') = 0 /\ Len(values') = 1  BY <2>1
    <2> QED  BY <2>1, <2>2, <2>3, <2>4 DEF Frames, Within, Across
  <1>7. ASSUME ~ParseOption, ConnectSwitch PROVE Frames'
    <2>1. /\ pc = "connect" /\ UNCHANGED <<values, avgs, rows>>
          /\ pc' = "connect" \/ (pc' = "loop" /\ j' = 0)
      BY <1>7 DEF ConnectSwitch, queueVars
    <2>2. CASE pc' = "connect"
      BY <1>2, <1>3, <1>7, <2>1, <2>2 DEF Across
    <2>3. CASE pc' = "loop" /\ j' = 0
      <3>1. Extra' = 0 /\ Loops' = Loops  BY <1>2, <1>7, <2>3 DEF Extra
      <3>2. /\ Len(avgs) = Entries(Len(rows)) /\ Len(values) = Entries(Len(rows)) + 1
            /\ Ended(Len(rows))
        BY <2>1, <3>1 DEF Frames, Across
      <3>3. \A k : Entries(k)' = Entries(k)  BY <3>1 DEF Entries
      <3>4. \A k : Ended(k)' = Ended(k)  BY <2>1, <3>3 DEF Ended
      <3>5. Entries(Len(rows)) \in Nat  BY <1>a, EntriesNext
      <3> QED  BY <1>a, <1>b, <2>1, <2>3, <3>1, <3>2, <3>3, <3>4, <3>5 DEF Frames, Within, Across
    <2> QED  BY <2>1, <2>2, <2>3
  <1>8. ASSUME ~ParseOption, BeginLoop PROVE Frames'
    <2>1. UNCHANGED <<j, values, avgs, rows>> /\ Within /\ Within' /\ j < Loops
      BY <1>8 DEF BeginLoop, queueVars, Within
    <2> QED  BY <1>2, <1>3, <1>8, <2>1
  <1>9. ASSUME ~ParseOption, EndLoop PROVE Frames'
    <2>1. pc = "poll" /\ pc' = "loop" /\ j' = j + 1 /\ UNCHANGED rows  BY <1>9, SMT DEF EndLoop
    <2>2. Loops' = Loops  BY <1>2, <1>9
    <2>3. /\ j < Loops /\ Extra = 0 /\ Ended(Len(rows))
          /\ Len(avgs) = Entries(Len(rows)) + j /\ Len(values) = Entries(Len(rows)) + 1 + j
      <3>1. j < Loops  BY <2>1, <2>2 DEF Frames, Within
      <3>2. Extra = 0  BY <1>a, <1>b, <3>1 DEF Extra
      <3>3. Entries(Len(rows)) \in Nat  BY <1>a, EntriesNext
      <3> QED  BY <1>a, <2>1, <2>2, <3>1, <3>2, <3>3 DEF Frames, Within
    <2>4. PICK v \in Seq(Kinds), a \in Seq(Rate) :
            /\ values' = values \o v /\ avgs' = avgs \o a
            /\ j # Loops - 1 => Len(v) = 1 /\ Len(a) = 1
            /\ j = Loops - 1 => /\ Len(v) = 2 /\ v[2] = "LIMITER"
                                /\ Len(a) = 2 /\ a[2] = Limiter
      BY <1>9, EndLoopAppends
    <2>5. Ended(Len(rows))'  BY <1>a, <2>1, <2>2, <2>3, <2>4, EndedKept
    <2>6. /\ Len(values') = Len(values) + Len(v) /\ Len(avgs') = Len(avgs) + Len(a)
          /\ Len(v) \in Nat /\ Len(a) \in Nat
          /\ \A n \in 1..Len(v) : values'[Len(values) + n] = v[n]
          /\ \A n \in 1..Len(a) : avgs'[Len(avgs) + n] = a[n]
      <3>1. values \in Seq(Kinds) /\ avgs \in Seq(Rate)  BY <1>a DEF SeqTypes
      <3>2. values' = values \o v /\ avgs' = avgs \o a  BY <2>4
      <3>3. /\ Len(values \o v) = Len(values) + Len(v) /\ Len(v) \in Nat
            /\ \A n \in 1..Len(v) : (values \o v)[Len(values) + n] = v[n]
        BY <2>4, <3>1, Concat
      <3>4. /\ Len(avgs \o a) = Len(avgs) + Len(a) /\ Len(a) \in Nat
            /\ \A n \in 1..Len(a) : (avgs \o a)[Len(avgs) + n] = a[n]
        BY <2>4, <3>1, Concat
      <3> QED  BY <3>2, <3>3, <3>4
    <2>7. \A k : Entries(k)' = Entries(k)  BY <2>2 DEF Entries
    <2>8. PICK k, e : k = Len(rows) /\ e = Entries(k)  OBVIOUS
    <2>9. k \in Nat /\ e \in Nat /\ Entries(k + 1) = e + Loops + 1  BY <1>a, <2>8, EntriesNext
    <2>10. Len(avgs) = e + j /\ Len(values) = e + 1 + j  BY <2>3, <2>8
    <2>11. CASE j # Loops - 1
      <3>1. j' # Loops /\ j' <= Loops /\ j' \in Nat  BY <1>a, <1>b, <2>1, <2>3, <2>11
      <3>2. Extra' = 0  BY <2>2, <3>1 DEF Extra
      <3>3. Len(avgs') = e + j' /\ Len(values') = e + 1 + j'
        <4>1. Len(v) = 1 /\ Len(a) = 1  BY <2>4, <2>11
        <4> QED  BY <1>a, <2>1, <2>6, <2>9, <2>10, <4>1
      <3>4. Len(rows') + Extra' = Len(rows)  BY <1>a, <2>1, <3>2
      <3>5. Ended(Len(rows) + Extra)'  BY <2>1, <2>5, <3>4 DEF Ended
      <3>6. Entries(Len(rows))' = e  BY <2>1, <2>7, <2>8
      <3>7. /\ Len(avgs') = Entries(Len(rows))' + j' + Extra'
            /\ Len(values') = Entries(Len(rows))' + 1 + j' + Extra'
        BY <2>9, <3>1, <3>2, <3>3, <3>6
      <3> QED  BY <2>1, <2>2, <3>1, <3>5, <3>7 DEF Frames, Within, Across
    <2>12. CASE j = Loops - 1
      <3>1. j' = Loops  BY <1>a, <1>b, <2>1, <2>12
      <3>2. Extra' = 1  BY <2>2, <3>1 DEF Extra
      <3>3. Len(avgs') = e + Loops + 1 /\ Len(values') = e + Loops + 2
        <4>1. Len(v) = 2 /\ Len(a) = 2  BY <2>4, <2>12
        <4> QED  BY <1>a, <1>b, <2>6, <2>9, <2>12, <2>10, <4>1
      <3>4. avgs'[e + Loops + 1] = Limiter
        <4>1. Len(avgs) + 2 = e + Loops + 1  BY <1>a, <1>b, <2>9, <2>12, <2>10
        <4>2. a[2] = Limiter /\ 2 \in 1..Len(a)
          <5>1. Len(a) = 2 /\ a[2] = Limiter  BY <2>4, <2>12
          <5> QED  BY <5>1
        <4>3. avgs'[Len(avgs) + 2] = Limiter  BY <2>6, <4>2
        <4> QED  BY <4>1, <4>3
      <3>5. values'[e + Loops + 2] = "LIMITER"
        <4>1. Len(values) + 2 = e + Loops + 2  BY <1>a, <1>b, <2>9, <2>12, <2>10
        <4>2. v[2] = "LIMITER" /\ 2 \in 1..Len(v)
          <5>1. Len(v) = 2 /\ v[2] = "LIMITER"  BY <2>4, <2>12
          <5> QED  BY <5>1
        <4>3. values'[Len(values) + 2] = "LIMITER"  BY <2>6, <4>2
        <4> QED  BY <4>1, <4>3
      <3>6. Ended(k + 1)'
        <4>1. ASSUME NEW r \in 1..(k + 1)
              PROVE  /\ Entries(r)' \in 1..Len(avgs') /\ avgs'[Entries(r)'] = Limiter
                     /\ Entries(r)' + 1 \in 1..Len(values')
                     /\ values'[Entries(r)' + 1] = "LIMITER"
          <5>1. CASE r = k + 1
            <6>1. Entries(r)' = e + Loops + 1  BY <2>7, <2>9, <5>1
            <6>2. Entries(r)' + 1 = e + Loops + 2  BY <1>b, <2>9, <6>1
            <6> QED  BY <1>b, <2>9, <3>3, <3>4, <3>5, <6>1, <6>2
          <5>2. CASE r # k + 1
            <6>1. r \in 1..k  BY <2>9, <5>2
            <6> QED  BY <2>1, <2>5, <2>8, <6>1 DEF Ended
          <5> QED  BY <5>1, <5>2
        <4> QED  BY <4>1 DEF Ended
      <3>7. Len(rows') + Extra' = k + 1  BY <2>1, <2>8, <3>2
      <3>8. Ended(Len(rows) + Extra)'  BY <3>6, <3>7 DEF Ended
      <3>9. Entries(Len(rows))' = e  BY <2>1, <2>7, <2>8
      <3>10. /\ Len(avgs') = Entries(Len(rows))' + j' + Extra'
             /\ Len(values') = Entries(Len(rows))' + 1 + j' + Extra'
        BY <1>b, <2>9, <3>1, <3>2, <3>3, <3>9
      <3> QED  BY <1>b, <2>1, <2>2, <3>1, <3>8, <3>10
               DEF Frames, Within, Across
    <2> QED  BY <2>11, <2>12
  <1>10. ASSUME ~ParseOption, Result PROVE Frames'
    <2>1. /\ pc = "loop" /\ pc' = "connect" /\ j >= Loops /\ UNCHANGED <<values, avgs>>
          /\ Len(rows') = Len(rows) + 1
      <3>1. PICK r : r = FormatResult(Loops - Warmup - Cooldown, sum)  OBVIOUS
      <3>2. r \in Row
        <4>1. Loops - Warmup - Cooldown \in Int  BY NSwitchesType
        <4> QED  BY <3>1, <4>1, ResultRow
      <3>3. rows' = Append(rows, r)  BY <1>10, <3>1 DEF Result
      <3>4. Len(rows') = Len(rows) + 1  BY <1>a, <3>2, <3>3 DEF SeqTypes
      <3> QED  BY <1>10, <3>4 DEF Result
    <2>2. Loops' = Loops  BY <1>2, <1>10
    <2>3. j = Loops  BY <1>a, <1>b, <2>1, <2>2 DEF Frames, Within
    <2>4. Extra = 1  BY <2>3 DEF Extra
    <2>5. PICK k, e : k = Len(rows) /\ e = Entries(k)  OBVIOUS
    <2>6. k \in Nat /\ e \in Nat /\ Entries(k + 1) = e + Loops + 1  BY <1>a, <2>5, EntriesNext
    <2>7. /\ Len(avgs) = e + Loops + 1 /\ Len(values) = e + 1 + Loops + 1
          /\ Ended(k + 1)
      BY <2>1, <2>2, <2>3, <2>4, <2>5 DEF Frames, Within
    <2>8. \A n : Entries(n)' = Entries(n)  BY <2>2 DEF Entries
    <2>9. Ended(k + 1)'  BY <2>1, <2>7, <2>8 DEF Ended
    <2>10. Len(rows') = k + 1  BY <2>1, <2>5
    <2>11. Ended(Len(rows))'  BY <2>9, <2>10 DEF Ended
    <2> QED  BY <1>b, <2>1, <2>6, <2>7, <2>8, <2>10, <2>11 DEF Frames, Within, Across
  <1>11. ASSUME ~ParseOption, Finish \/ Join PROVE Frames'
    <2>1. UNCHANGED <<values, avgs, rows>> /\ Across /\ Across'
      BY <1>11 DEF Finish, Join, queueVars, Across
    <2> QED  BY <1>2, <1>3, <1>11, <2>1
  <1>12. ASSUME ~ParseOption, Poll \/ SamplerEnds \/ UNCHANGED vars PROVE Frames'
    <2>1. UNCHANGED <<pc, j, values, avgs, rows>>
      BY <1>12 DEF Poll, SamplerEnds, vars, queueVars
    <2> QED  BY <1>2, <1>3, <1>12, <2>1
  <1> QED  BY <1>4, <1>5, <1>6, <1>7, <1>8, <1>9, <1>10, <1>11, <1>12 DEF Next, Benchmarking

\* One LIMITER ends the rows of every test, in both queues and in the place where the
\* master looks for it, for every number of loops, switches and tests.
THEOREM ReportFramed == Spec => []Framed
  <1>1. Params /\ Places /\ Frames => Framed
    <2> SUFFICES ASSUME Params, Places, Frames, pc = "done", Loops > 0, NSwitches > 0
                 PROVE  /\ Len(rows) = IF TestRange THEN NSwitches ELSE 1
                        /\ Len(values) = 1 + Len(rows) * (Loops + 1)
                        /\ Len(avgs) = Len(rows) * (Loops + 1)
                        /\ \A r \in DOMAIN rows : /\ values[1 + r * (Loops + 1)] = "LIMITER"
                                                  /\ avgs[r * (Loops + 1)] = Limiter
      BY DEF Framed
    <2>1. NSwitches \in Nat /\ i = NSwitches /\ Len(rows) = Tested
      BY NSwitchesType DEF Places, Across
    <2>2. Len(rows) = IF TestRange THEN NSwitches ELSE 1  BY <2>1 DEF Tested
    <2>3. PICK k : k = Len(rows)  OBVIOUS
    <2>4. Len(avgs) = Entries(k) /\ Len(values) = Entries(k) + 1 /\ Ended(k)
      BY <2>3 DEF Frames, Across
    <2>5. k \in Nat /\ DOMAIN rows = 1..k  BY <2>3 DEF Places, SeqTypes
    <2>6. \A n \in Nat : Entries(n) = n * (Loops + 1) /\ Entries(n) \in Nat
      BY EntriesNext DEF Entries
    <2>7. Len(avgs) = k * (Loops + 1) /\ Len(values) = 1 + k * (Loops + 1)
      BY <2>4, <2>5, <2>6
    <2>8. ASSUME NEW r \in 1..k
          PROVE  values[1 + r * (Loops + 1)] = "LIMITER" /\ avgs[r * (Loops + 1)] = Limiter
      <3>1. /\ avgs[Entries(r)] = Limiter /\ values[Entries(r) + 1] = "LIMITER"
        BY <2>4 DEF Ended
      <3>2. Entries(r) = r * (Loops + 1) /\ Entries(r) + 1 = 1 + r * (Loops + 1)
        BY <2>6
      <3> QED  BY <3>1, <3>2
    <2> QED  BY <2>2, <2>3, <2>5, <2>7, <2>8
  <1> QED  BY <1>1, ParamsInit, ParamsStep, TalliesInit, TalliesStep, PlacesInit, PlacesStep,
              FramesInit, FramesStep, PTL DEF Spec

-----------------------------------------------------------------------------
(* Sums *)

\* The sum of a function's values, as a fold, and the recursion behind it.
Total(f, S) == MapThenSumSet(LAMBDA k : f[k], S)

Chosen(s) == CHOOSE x \in s : TRUE
Adds(f, s, g) == IF s = {} THEN 0 ELSE f[Chosen(s)] + g[s \ {Chosen(s)}]
Partial(f, S, g) == g = [s \in SUBSET S |-> Adds(f, s, g)]

\* Of the subsets of a finite set with some property, one has no smaller.
LEMMA Smallest ==
  ASSUME NEW S, IsFiniteSet(S), NEW B, B \subseteq SUBSET S, B # {}
  PROVE  \E s \in B : IsFiniteSet(s) /\ \A x \in s : s \ {x} \notin B
  <1>1. B \subseteq FiniteSubsetsOf(S)
    <2> SUFFICES ASSUME NEW s \in B PROVE IsFiniteSet(s) /\ s \subseteq S
      BY DEF FiniteSubsetsOf
    <2> QED  BY FS_Subset
  <1>2. PICK s \in B : \A t \in B : ~(<<t, s>> \in StrictSubsetOrdering(S))
    BY <1>1, FS_StrictSubsetOrderingWellFounded, WFMin
  <1>3. ASSUME NEW x \in s, s \ {x} \in B PROVE FALSE
    <2>1. s \ {x} \subseteq s /\ s \ {x} # s  OBVIOUS
    <2>2. <<s \ {x}, s>> \in StrictSubsetOrdering(S)
      BY <2>1 DEF StrictSubsetOrdering
    <2> QED  BY <1>2, <1>3, <2>2
  <1>4. IsFiniteSet(s)  BY FS_Subset
  <1> QED  BY <1>3, <1>4

LEMMA AnyElement == ASSUME NEW s, s # {} PROVE Chosen(s) \in s
  BY DEF Chosen

\* A solution for the subsets of at most n elements.
Small(S, n) == {s \in SUBSET S : Cardinality(s) <= n}
Upto(f, S, n, g) == g = [s \in Small(S, n) |-> Adds(f, s, g)]

\* The recursion has a solution: by that for the sets with one element less.
LEMMA Recursive ==
  ASSUME NEW f, NEW S, IsFiniteSet(S)
  PROVE  \E g : Partial(f, S, g)
  <1> DEFINE B == {s \in SUBSET S : ~\E g : Upto(f, S, Cardinality(s), g)}
  <1>0. ASSUME NEW s \in SUBSET S
        PROVE  /\ IsFiniteSet(s) /\ Cardinality(s) \in Nat /\ Cardinality(s) <= Cardinality(S)
               /\ Cardinality(s) = 0 <=> s = {}
               /\ s # {} => /\ s \ {Chosen(s)} \in SUBSET S
                            /\ Cardinality(s \ {Chosen(s)}) = Cardinality(s) - 1
    <2>1. IsFiniteSet(s) /\ Cardinality(s) <= Cardinality(S)  BY FS_Subset
    <2>2. Cardinality(s) \in Nat  BY <2>1, FS_CardinalityType
    <2>3. Cardinality(s) = 0 <=> s = {}  BY <2>1, FS_EmptySet
    <2>4. s # {} => Cardinality(s \ {Chosen(s)}) = Cardinality(s) - 1
      BY <2>1, AnyElement, FS_RemoveElement
    <2> QED  BY <2>1, <2>2, <2>3, <2>4
  <1>1. SUFFICES B = {}
    <2>1. PICK g : Upto(f, S, Cardinality(S), g)  BY <1>1
    <2>2. Small(S, Cardinality(S)) = SUBSET S  BY <1>0 DEF Small
    <2> QED  BY <2>1, <2>2 DEF Partial, Upto
  <1>2. SUFFICES ASSUME NEW s \in B, \A x \in s : s \ {x} \notin B PROVE FALSE
    BY Smallest
  <1>3. PICK n \in Nat : n = Cardinality(s)  BY <1>0
  <1>a. SUFFICES \E g : Upto(f, S, n, g)
    BY <1>3
  <1>4. CASE s = {}
    <2>0. n = 0  BY <1>0, <1>3, <1>4
    <2>1. \A t \in Small(S, n) : t = {}
      <3> SUFFICES ASSUME NEW t \in SUBSET S, Cardinality(t) <= 0 PROVE t = {}
        BY <2>0 DEF Small
      <3>1. Cardinality(t) \in Nat /\ (Cardinality(t) = 0 <=> t = {})  BY <1>0
      <3> QED  BY <3>1
    <2>2. PICK g : g = [t \in Small(S, n) |-> 0]  OBVIOUS
    <2>3. \A t \in Small(S, n) : Adds(f, t, g) = 0  BY <2>1 DEF Adds
    <2>4. Upto(f, S, n, g)  BY <2>2, <2>3 DEF Upto
    <2> QED  BY <2>4
  <1>5. CASE s # {}
    <2>1. PICK g : Upto(f, S, n - 1, g)
      <3>1. s \ {Chosen(s)} \notin B /\ s \ {Chosen(s)} \in SUBSET S
        BY <1>0, <1>2, <1>5, AnyElement
      <3>2. Cardinality(s \ {Chosen(s)}) = n - 1  BY <1>0, <1>3, <1>5
      <3> QED  BY <3>1, <3>2
    <2>2. PICK h : h = [t \in Small(S, n) |-> Adds(f, t, g)]  OBVIOUS
    <2>3. ASSUME NEW t \in Small(S, n) PROVE Adds(f, t, g) = Adds(f, t, h)
      <3>1. CASE t = {}  BY <3>1 DEF Adds
      <3>2. CASE t # {}
        <4>1. PICK u : u = t \ {Chosen(t)}  OBVIOUS
        <4>2. PICK m \in Nat : m = Cardinality(t) /\ m <= n /\ t \in SUBSET S
          BY <1>0 DEF Small
        <4>3. u \in SUBSET S /\ Cardinality(u) = m - 1  BY <1>0, <3>2, <4>1, <4>2
        <4>4. u \in Small(S, n - 1) /\ u \in Small(S, n)  BY <4>2, <4>3 DEF Small
        <4>5. g[u] = Adds(f, u, g)  BY <2>1, <4>4 DEF Upto
        <4>6. h[u] = Adds(f, u, g)  BY <2>2, <4>4
        <4> QED  BY <3>2, <4>1, <4>5, <4>6 DEF Adds
      <3> QED  BY <3>1, <3>2
    <2>4. Upto(f, S, n, h)  BY <2>2, <2>3 DEF Upto
    <2> QED  BY <2>4
  <1> QED  BY <1>4, <1>5

LEMMA TotalPartial ==
  ASSUME NEW f, NEW S, IsFiniteSet(S)
  PROVE  \E g : Partial(f, S, g) /\ Total(f, S) = g[S]
  <1>1. PICK g : g = CHOOSE h : h = [s \in SUBSET S |-> Adds(f, s, h)]  OBVIOUS
  <1>2. Partial(f, S, g)  BY <1>1, Recursive DEF Partial
  <1>3. Total(f, S) = g[S]
    BY <1>1 DEF Total, MapThenSumSet, MapThenFoldSet, Adds, Chosen
  <1> QED  BY <1>2, <1>3

\* Equal values have equal sums.
LEMMA SameTotal ==
  ASSUME NEW f, NEW h, NEW S, IsFiniteSet(S), NEW T \in SUBSET S, \A x \in T : f[x] = h[x],
         NEW g, Partial(f, T, g), NEW k, Partial(h, S, k)
  PROVE  g[T] = k[T]
  <1> DEFINE B == {s \in SUBSET T : g[s] # k[s]}
  <1>0. IsFiniteSet(T)  BY FS_Subset
  <1>1. SUFFICES ASSUME NEW s \in B, \A x \in s : s \ {x} \notin B PROVE FALSE
    <2>1. B = {}  BY <1>0, <1>1, Smallest
    <2> QED  BY <2>1
  <1>2. g[s] = Adds(f, s, g) /\ k[s] = Adds(h, s, k)  BY DEF Partial
  <1>3. CASE s = {}  BY <1>2, <1>3 DEF Adds
  <1>4. CASE s # {}
    <2>1. PICK x : x = Chosen(s) /\ x \in s  BY <1>4, AnyElement
    <2>2. g[s \ {x}] = k[s \ {x}]  BY <1>1, <2>1
    <2>3. f[x] = h[x]  BY <2>1
    <2> QED  BY <1>2, <1>4, <2>1, <2>2, <2>3 DEF Adds
  <1> QED  BY <1>3, <1>4

\* Any element may be the last that is added.
LEMMA AnyOrder ==
  ASSUME NEW f, NEW S, IsFiniteSet(S), \A x \in S : f[x] \in Int, NEW g, Partial(f, S, g)
  PROVE  \A s \in SUBSET S : g[s] \in Int /\ \A x \in s : g[s] = f[x] + g[s \ {x}]
  <1>1. \A s \in SUBSET S : g[s] \in Int
    <2> DEFINE B == {s \in SUBSET S : g[s] \notin Int}
    <2>1. SUFFICES ASSUME NEW s \in B, \A x \in s : s \ {x} \notin B PROVE FALSE
      <3>1. B = {}  BY <2>1, Smallest
      <3> QED  BY <3>1
    <2>2. g[s] = Adds(f, s, g)  BY DEF Partial
    <2>3. CASE s = {}  BY <2>2, <2>3 DEF Adds
    <2>4. CASE s # {}
      <3>1. PICK x : x = Chosen(s) /\ x \in s  BY <2>4, AnyElement
      <3>2. g[s \ {x}] \in Int /\ f[x] \in Int  BY <2>1, <3>1
      <3> QED  BY <2>2, <2>4, <3>1, <3>2 DEF Adds
    <2> QED  BY <2>3, <2>4
  <1>2. \A s \in SUBSET S : \A x \in s : g[s] = f[x] + g[s \ {x}]
    <2> DEFINE B == {s \in SUBSET S : \E x \in s : g[s] # f[x] + g[s \ {x}]}
    <2>1. SUFFICES ASSUME NEW s \in B, \A x \in s : s \ {x} \notin B PROVE FALSE
      <3>1. B = {}  BY <2>1, Smallest
      <3> QED  BY <3>1
    <2>2. PICK x \in s : g[s] # f[x] + g[s \ {x}]  OBVIOUS
    <2>3. PICK y : y = Chosen(s) /\ y \in s  BY AnyElement
    <2>4. g[s] = f[y] + g[s \ {y}]  BY <2>2, <2>3 DEF Partial, Adds
    <2>5. x # y  BY <2>2, <2>4
    <2>6. PICK u : u = s \ {x, y}  OBVIOUS
    <2>7. s \ {y} \notin B /\ x \in s \ {y} /\ (s \ {y}) \ {x} = u
      BY <2>1, <2>3, <2>5, <2>6
    <2>8. g[s \ {y}] = f[x] + g[u]  BY <2>7
    <2>9. s \ {x} \notin B /\ y \in s \ {x} /\ (s \ {x}) \ {y} = u
      BY <2>1, <2>2, <2>3, <2>5, <2>6
    <2>10. g[s \ {x}] = f[y] + g[u]  BY <2>9
    <2>11. f[x] \in Int /\ f[y] \in Int /\ g[u] \in Int  BY <1>1, <2>3, <2>6
    <2> QED  BY <2>2, <2>4, <2>8, <2>10, <2>11
  <1> QED  BY <1>1, <1>2

LEMMA TotalEmpty == ASSUME NEW f PROVE Total(f, {}) = 0
  <1>1. IsFiniteSet({})  BY FS_EmptySet
  <1>2. PICK g : Partial(f, {}, g) /\ Total(f, {}) = g[{}]  BY <1>1, TotalPartial
  <1> QED  BY <1>2 DEF Partial, Adds

LEMMA TotalSame ==
  ASSUME NEW f, NEW h, NEW S, IsFiniteSet(S), \A x \in S : f[x] = h[x]
  PROVE  Total(f, S) = Total(h, S)
  <1>1. PICK g : Partial(f, S, g) /\ Total(f, S) = g[S]  BY TotalPartial
  <1>2. PICK k : Partial(h, S, k) /\ Total(h, S) = k[S]  BY TotalPartial
  <1>3. g[S] = k[S]  BY <1>1, <1>2, SameTotal
  <1> QED  BY <1>1, <1>2, <1>3

LEMMA TotalAdded ==
  ASSUME NEW f, NEW S, IsFiniteSet(S), NEW y, y \notin S, \A x \in S \cup {y} : f[x] \in Int
  PROVE  Total(f, S) \in Int /\ Total(f, S \cup {y}) = Total(f, S) + f[y]
  <1>1. PICK T : T = S \cup {y}  OBVIOUS
  <1>2. IsFiniteSet(T) /\ S \in SUBSET T /\ y \in T /\ T \ {y} = S
    <2>1. IsFiniteSet(T)  BY <1>1, FS_AddElement
    <2>2. S \in SUBSET T /\ y \in T /\ T \ {y} = S  BY <1>1
    <2> QED  BY <2>1, <2>2
  <1>3. PICK g : Partial(f, S, g) /\ Total(f, S) = g[S]  BY TotalPartial
  <1>4. PICK k : Partial(f, T, k) /\ Total(f, T) = k[T]  BY <1>2, TotalPartial
  <1>5. g[S] = k[S]
    <2>1. Partial(f, S, g) /\ Partial(f, T, k) /\ IsFiniteSet(T) /\ S \in SUBSET T
      BY <1>2, <1>3, <1>4
    <2>2. \A x \in S : f[x] = f[x]  OBVIOUS
    <2> QED  BY <2>1, <2>2, SameTotal
  <1>6. k[S] \in Int /\ k[T] = f[y] + k[S]  BY <1>1, <1>2, <1>4, AnyOrder
  <1> QED  BY <1>1, <1>3, <1>4, <1>5, <1>6

-----------------------------------------------------------------------------
(* The averages of a test *)

\* The loops of a test that are averaged, of the first n, and how many they are.
Averaged(n) == IF n < Loops - Cooldown THEN n ELSE Loops - Cooldown
Counted(n)  == Warmup..(Averaged(n) - 1)
Count(n)    == IF Averaged(n) > Warmup THEN Averaged(n) - Warmup ELSE 0

\* An unsigned int, like the differences that are computed with it.
Narrow == Loops < 2^W

Stored ==
    /\ DOMAIN results \subseteq Nat
    /\ \A k \in DOMAIN results : results[k] \in Nat

\* While a test runs, sum is that of its loops so far, which lie between min and
\* max; these are of all tests so far.
Running ==
    Within /\ Fits =>
        /\ IF pc = "poll" THEN j < Loops ELSE j <= Loops
        /\ 0..(j - 1) \subseteq DOMAIN results
        /\ sum = Total(results, Counted(j))
        /\ min * Count(j) <= sum
        /\ sum <= max * Count(j)

\* If no loop is averaged there is no largest.
NoLargest ==
    /\ Before => max = 0
    /\ Fits /\ Loops - Cooldown <= Warmup => max = 0

Averages == Narrow /\ Stored /\ Running /\ NoLargest /\ RowSound

LEMMA ProductOrder ==
  ASSUME NEW a \in Nat, NEW b \in Nat, NEW c \in Nat, a <= b PROVE a * c <= b * c
  <1>1. PICK d \in Nat : b = a + d
    <2>1. b - a \in Nat /\ b = a + (b - a)  OBVIOUS
    <2> QED  BY <2>1
  <1>2. d * c \in Nat /\ a * c \in Nat  OBVIOUS
  <1>3. b * c = a * c + d * c  BY <1>1
  <1> QED  BY <1>2, <1>3

\* A sum that lies between multiples of the extremes does so with one term more.
LEMMA NextBounds ==
  ASSUME NEW least \in Nat, NEW largest \in Nat, NEW total \in Nat, NEW n \in Nat,
         least * n <= total, total <= largest * n,
         NEW v \in Nat, NEW a \in Nat, a <= least, a <= v,
         NEW b \in Nat, largest <= b, v <= b
  PROVE  a * (n + 1) <= total + v /\ total + v <= b * (n + 1)
  <1>1. a * n <= least * n /\ largest * n <= b * n  BY ProductOrder
  <1>2. PICK an \in Nat : an = a * n  OBVIOUS
  <1>3. PICK bn \in Nat : bn = b * n  OBVIOUS
  <1>4. an <= total /\ total <= bn  BY <1>1, <1>2, <1>3
  <1>5. an + a <= total + v /\ total + v <= bn + b
    <2>1. \A x, y \in Nat : x <= total /\ y <= v => x + y <= total + v  OBVIOUS
    <2>2. \A x, y \in Nat : total <= x /\ v <= y => total + v <= x + y  OBVIOUS
    <2> QED  BY <1>2, <1>3, <1>4, <2>1, <2>2
  <1>6. a * (n + 1) = an + a /\ b * (n + 1) = bn + b  BY <1>2, <1>3
  <1> QED  BY <1>5, <1>6

LEMMA NarrowInit == Params /\ Init => Narrow
  <1> SUFFICES ASSUME Init PROVE Narrow
    OBVIOUS
  <1>1. PICK r \in RandomOffset : params = Defaults(r)  BY DEF Init
  <1>2. params.loopsPerTest = Default("loops")  BY <1>1 DEF Defaults
  <1>3. Default("loops") < 2^W  BY DefaultsDeclared
  <1> QED  BY <1>2, <1>3 DEF Narrow, Loops

\* The numbers of loops stay what the options make them.
LEMMA LoopsKept ==
  ASSUME Params, [Next]_vars
  PROVE  \/ ParseOption
         \/ Loops' = Loops /\ Warmup' = Warmup /\ Cooldown' = Cooldown
  <1>1. ASSUME UNCHANGED params
        PROVE  Loops' = Loops /\ Warmup' = Warmup /\ Cooldown' = Cooldown
    BY <1>1 DEF Loops, Warmup, Cooldown
  <1>2. ASSUME BeginLoop
        PROVE  Loops' = Loops /\ Warmup' = Warmup /\ Cooldown' = Cooldown
    <2>1. params' = [params EXCEPT !.delay = IF j > 0 THEN 0 ELSE @]  BY <1>2 DEF BeginLoop
    <2>2. {"loopsPerTest", "warmup", "cooldown"} \subseteq DOMAIN params
      BY DEF Params, Defaults
    <2> QED  BY <2>1, <2>2 DEF Loops, Warmup, Cooldown
  <1>3. CASE UNCHANGED vars  BY <1>1, <1>3 DEF vars, argVars
  <1>4. CASE Next
    <2>1. CASE Benchmarking
      BY <1>1, <1>2, <2>1
      DEF Benchmarking, ParseCrashes, Manual, Main, Start, StartCrashes, ConnectDivides,
          ConnectFails, ConnectSwitch, Poll, PollExits, EndLoop, Result, ResultCrashes,
          Finish, Join, argVars
    <2>2. CASE StartMessage \/ SamplerEnds \/ SamplerCrashes \/ SamplerDivides
      BY <1>1, <2>2
      DEF StartMessage, SamplerEnds, SamplerCrashes, SamplerDivides, DiesSampling, argVars
    <2> QED  BY <1>4, <2>1, <2>2 DEF Next
  <1> QED  BY <1>3, <1>4

LEMMA NarrowStep == Params /\ Narrow /\ [Next]_vars => Narrow'
  <1> SUFFICES ASSUME Params, Narrow, [Next]_vars PROVE Narrow'
    OBVIOUS
  <1>1. CASE ParseOption
    <2>1. PICK o : o = Getopt(Head(argv))  OBVIOUS
    <2>2. o.c \in Handled /\ params' = Set(params, o.c, o.optarg)
          /\ ~ReadsNull(o.c, o.optarg) /\ argv # <<>>
      BY <1>1, <2>1 DEF ParseOption
    <2>3. PICK c, arg : c = o.c /\ arg = o.optarg  OBVIOUS
    <2>4. c \in DOMAIN Field => arg \in Int
      <3>1. Head(argv) \in Given  BY <2>2 DEF Params
      <3> QED  BY <2>1, <2>2, <2>3, <3>1, LinesAssumption
    <2>5. {"loopsPerTest"} \subseteq DOMAIN params  BY DEF Params, Defaults
    <2>6. CASE c \in DOMAIN Field
      <3>1. params' = [params EXCEPT ![Field[c]] = Unsigned(arg)]
        BY <2>2, <2>3, <2>6 DEF Set, Field
      <3>2. Unsigned(arg) < 2^W
        <4>1. PICK m \in Nat \ {0} : m = 2^W  BY WidthAssumption
        <4>2. PICK n \in Int : n = arg  BY <2>4, <2>6
        <4>3. n % m < m  BY <4>1, <4>2
        <4> QED  BY <4>1, <4>2, <4>3 DEF Unsigned
      <3>3. params'["loopsPerTest"] \in {Unsigned(arg), params["loopsPerTest"]}
        BY <2>5, <3>1
      <3> QED  BY <3>2, <3>3 DEF Narrow, Loops
    <2>7. CASE c \notin DOMAIN Field
      <3>0. c \in {"C", "f", "L", "n", "o", "r", "t"}  BY <2>2, <2>3, <2>7 DEF Handled
      <3>1. params'.loopsPerTest = params.loopsPerTest
        BY <2>2, <2>3, <2>5, <2>7, <3>0 DEF Set
      <3> QED  BY <3>1 DEF Narrow, Loops
    <2> QED  BY <2>6, <2>7
  <1>2. CASE ~ParseOption
    <2>1. Loops' = Loops  BY <1>2, LoopsKept
    <2> QED  BY <2>1 DEF Narrow
  <1> QED  BY <1>1, <1>2

\* The end of the loops that are averaged, where no subtraction wraps.
LEMMA CooldownExact ==
  ASSUME Params, Narrow, Fits PROVE CooldownFrom = Loops - Cooldown
  <1>1. Loops \in Nat /\ Cooldown \in Nat  BY NSwitchesType
  <1>2. PICK m \in Nat \ {0} : m = 2^W  BY WidthAssumption
  <1>3. PICK n \in Nat : n = Loops - Cooldown /\ n <= Loops  BY <1>1 DEF Fits
  <1>4. n < m  BY <1>1, <1>2, <1>3 DEF Narrow
  <1>5. n % m = n  BY <1>2, <1>3, <1>4
  <1> QED  BY <1>2, <1>3, <1>5 DEF CooldownFrom, Unsigned

\* One loop more: it is averaged or not.
LEMMA NextCounted ==
  ASSUME Params, Fits, NEW n \in Nat, n < Loops
  PROVE  IF n < Warmup \/ n >= Loops - Cooldown
         THEN Counted(n + 1) = Counted(n) /\ Count(n + 1) = Count(n)
         ELSE /\ Counted(n + 1) = Counted(n) \cup {n} /\ n \notin Counted(n)
              /\ Count(n + 1) = Count(n) + 1
  <1>1. Loops \in Nat /\ Warmup \in Nat /\ Cooldown \in Nat  BY NSwitchesType
  <1>2. PICK last \in Nat : last = Loops - Cooldown  BY <1>1 DEF Fits
  <1>3. CASE n < Warmup
    BY <1>1, <1>2, <1>3 DEF Counted, Count, Averaged
  <1>4. CASE n >= last
    BY <1>1, <1>2, <1>4 DEF Counted, Count, Averaged
  <1>5. CASE Warmup <= n /\ n < last
    BY <1>1, <1>2, <1>5 DEF Counted, Count, Averaged
  <1> QED  BY <1>1, <1>2, <1>3, <1>4, <1>5

LEMMA CountedType ==
  ASSUME Params, Fits, NEW n \in Nat
  PROVE  /\ Counted(n) \subseteq 0..(n - 1) /\ IsFiniteSet(Counted(n)) /\ Count(n) \in Nat
         /\ Counted(0) = {} /\ Count(0) = 0
  <1>1. Loops \in Nat /\ Warmup \in Nat /\ Cooldown \in Nat  BY NSwitchesType
  <1>2. PICK last \in Nat : last = Loops - Cooldown  BY <1>1 DEF Fits
  <1>3. Averaged(n) \in Nat /\ Averaged(n) <= n /\ Averaged(0) = 0
    BY <1>1, <1>2 DEF Averaged
  <1>4. IsFiniteSet(Counted(n))  BY <1>1, <1>3, FS_Interval DEF Counted
  <1> QED  BY <1>1, <1>3, <1>4 DEF Counted, Count

LEMMA AveragesInit == Params /\ Init => Averages
  <1> SUFFICES ASSUME Params, Init PROVE Averages
    OBVIOUS
  <1>1. pc = "options" /\ max = 0 /\ results = <<>> /\ rows = <<>>  BY DEF Init
  <1>2. DOMAIN results = {} /\ DOMAIN rows = {}  BY <1>1
  <1> QED  BY <1>1, <1>2, NarrowInit
           DEF Averages, Stored, Running, NoLargest, RowSound, Within, Before

\* What a loop adds.
LEMMA RunningNext ==
  ASSUME Params, Tallies, Narrow, Stored, Running, NoLargest, j \in Nat, Fits,
         pc = "poll", NEW v \in Nat, Account(v), j' = j + 1, pc' = "loop",
         Loops' = Loops, Warmup' = Warmup, Cooldown' = Cooldown
  PROVE  Stored' /\ Running' /\ (Loops - Cooldown <= Warmup => max' = 0)
  <1>0. /\ j < Loops /\ 0..(j - 1) \subseteq DOMAIN results
        /\ sum = Total(results, Counted(j))
        /\ min * Count(j) <= sum /\ sum <= max * Count(j)
    BY DEF Running, Within
  <1>1. Loops \in Nat /\ Warmup \in Nat /\ Cooldown \in Nat  BY NSwitchesType
  <1>2. sum \in Nat /\ min \in Nat /\ max \in Nat  BY DblMaxType DEF Tallies
  <1>3. CooldownFrom = Loops - Cooldown  BY CooldownExact
  <1>4. PICK r : r = [k \in DOMAIN results \cup {j} |-> IF k = j THEN v ELSE results[k]]
    OBVIOUS
  <1>5. /\ DOMAIN r = DOMAIN results \cup {j} /\ r[j] = v
        /\ \A k \in DOMAIN results : k # j => r[k] = results[k]
        /\ \A k \in DOMAIN r : r[k] \in Nat
    BY <1>4 DEF Stored
  <1>6. results' = r  BY <1>4 DEF Account
  <1>7. Stored'  BY <1>5, <1>6 DEF Stored
  <1>8. /\ Counted(j) \subseteq 0..(j - 1) /\ IsFiniteSet(Counted(j)) /\ Count(j) \in Nat
        /\ Counted(j + 1) \subseteq 0..j
    <2>1. j + 1 \in Nat /\ j + 1 - 1 = j  OBVIOUS
    <2> QED  BY <2>1, CountedType
  <1>9. Total(r, Counted(j)) = sum
    <2>1. \A k \in Counted(j) : k \in DOMAIN results /\ k # j  BY <1>0, <1>8
    <2>2. \A k \in Counted(j) : r[k] = results[k]  BY <1>5, <2>1
    <2> QED  BY <1>0, <1>8, <2>2, TotalSame
  <1>10. 0..j \subseteq DOMAIN r  BY <1>0, <1>5
  <1>11. /\ sum' = Total(r, Counted(j + 1))
         /\ min' * Count(j + 1) <= sum' /\ sum' <= max' * Count(j + 1)
         /\ Loops - Cooldown <= Warmup => max' = 0
    <2>1. CASE j < Warmup \/ j >= Loops - Cooldown
      <3>1. Counted(j + 1) = Counted(j) /\ Count(j + 1) = Count(j)
        BY <1>0, <2>1, NextCounted
      <3>2. sum' = sum /\ min' = min /\ max' = max  BY <1>3, <2>1 DEF Account
      <3>3. Loops - Cooldown <= Warmup => max = 0  BY DEF NoLargest
      <3> QED  BY <1>0, <1>9, <3>1, <3>2, <3>3
    <2>2. CASE ~(j < Warmup \/ j >= Loops - Cooldown)
      <3>1. /\ Counted(j + 1) = Counted(j) \cup {j} /\ j \notin Counted(j)
            /\ Count(j + 1) = Count(j) + 1
        BY <1>0, <2>2, NextCounted
      <3>2. /\ sum' = sum + v
            /\ max' = IF v > max THEN v ELSE max
            /\ min' = IF v < min THEN v ELSE min
        BY <1>3, <2>2 DEF Account
      <3>3. Total(r, Counted(j + 1)) = Total(r, Counted(j)) + r[j]
        <4>1. \A k \in Counted(j) \cup {j} : r[k] \in Int
          BY <1>5, <1>8, <1>10, <3>1
        <4> QED  BY <1>8, <3>1, <4>1, TotalAdded
      <3>4. sum' = Total(r, Counted(j + 1))  BY <1>5, <1>9, <3>2, <3>3
      <3>5. PICK n \in Nat : n = Count(j)  BY <1>8
      <3>6. PICK a \in Nat : a = min' /\ a <= min /\ a <= v  BY <1>2, <3>2
      <3>7. PICK b \in Nat : b = max' /\ max <= b /\ v <= b  BY <1>2, <3>2
      <3>8. min * n <= sum /\ sum <= max * n  BY <1>0, <3>5
      <3>9. a * (n + 1) <= sum + v /\ sum + v <= b * (n + 1)
        BY <1>2, <3>6, <3>7, <3>8, NextBounds
      <3> QED  BY <1>1, <2>2, <3>1, <3>2, <3>4, <3>5, <3>6, <3>7, <3>9
    <2> QED  BY <2>1, <2>2
  <1>12. Running'
    <2>1. Counted(j)' = Counted(j + 1) /\ Count(j)' = Count(j + 1)
      BY DEF Counted, Count, Averaged
    <2>2. pc' = "loop" /\ j' <= Loops' /\ 0..(j' - 1) \subseteq DOMAIN results'
      BY <1>0, <1>1, <1>6, <1>10
    <2>3. /\ sum' = Total(results', Counted(j)')
          /\ min' * Count(j)' <= sum' /\ sum' <= max' * Count(j)'
      BY <1>6, <1>11, <2>1
    <2> QED  BY <2>2, <2>3 DEF Running
  <1> QED  BY <1>7, <1>11, <1>12

LEMMA AveragesStep ==
  Params /\ Tallies /\ Places /\ Averages /\ [Next]_vars => Averages'
  <1> SUFFICES ASSUME Params, Tallies, Places, Averages, [Next]_vars PROVE Averages'
    OBVIOUS
  <1>0. Narrow'  BY NarrowStep DEF Averages
  <1>a. Loops \in Nat /\ Warmup \in Nat /\ Cooldown \in Nat  BY NSwitchesType
  <1>b. j \in Nat /\ rows \in Seq(Row)  BY DEF Places, SeqTypes
  <1>c. sum \in Nat /\ min \in Nat /\ max \in Nat  BY DblMaxType DEF Tallies
  <1>1. ASSUME ~ParseOption
        PROVE  /\ Loops' = Loops /\ Warmup' = Warmup /\ Cooldown' = Cooldown
               /\ Fits' <=> Fits
               /\ \A n : Counted(n)' = Counted(n) /\ Count(n)' = Count(n)
    <2>1. Loops' = Loops /\ Warmup' = Warmup /\ Cooldown' = Cooldown  BY <1>1, LoopsKept
    <2> QED  BY <2>1 DEF Fits, Counted, Count, Averaged
  <1>2. ASSUME ~ParseOption, UNCHANGED <<resultVars, rows>>, Before' => Before,
               Within' => Within /\ UNCHANGED <<pc, j>>
        PROVE  Averages'
    <2>1. UNCHANGED <<results, sum, min, max, rows>>  BY <1>2 DEF resultVars
    <2>2. Stored' /\ NoLargest' /\ RowSound'
      BY <1>1, <1>2, <2>1 DEF Averages, Stored, NoLargest, RowSound
    <2>3. Running'
      <3>1. CASE Within'
        <4>1. Within /\ UNCHANGED <<pc, j>>  BY <1>2, <3>1
        <4>2. Fits => /\ Counted(j)' = Counted(j) /\ Count(j)' = Count(j)
          BY <1>1, <1>2, <4>1 DEF Counted, Count, Averaged
        <4> QED  BY <1>1, <1>2, <2>1, <4>1, <4>2 DEF Averages, Running
      <3>2. CASE ~Within'  BY <3>2 DEF Running
      <3> QED  BY <3>1, <3>2
    <2> QED  BY <1>0, <2>2, <2>3 DEF Averages
  <1>3. ASSUME ParseOption PROVE Averages'
    <2>1. pc = "options" /\ UNCHANGED <<pc, results, sum, min, max, rows>>
      BY <1>3 DEF ParseOption, resultVars, queueVars
    <2>2. max = 0 /\ rows = <<>>  BY <2>1 DEF Averages, NoLargest, Places, Before
    <2>3. DOMAIN rows' = {}  BY <2>1, <2>2
    <2> QED  BY <1>0, <2>1, <2>2, <2>3
             DEF Averages, Stored, Running, NoLargest, RowSound, Within
  <1>4. ASSUME ~ParseOption, ParseCrashes \/ Manual \/ StartCrashes \/ ConnectDivides
               \/ ConnectFails \/ PollExits \/ ResultCrashes \/ SamplerCrashes \/ SamplerDivides
        PROVE  Averages'
    <2>1. UNCHANGED <<resultVars, rows>> /\ pc' \in {"exited", "crashed"}
      BY <1>4 DEF ParseCrashes, Manual, StartCrashes, ConnectDivides, ConnectFails,
                  PollExits, ResultCrashes, SamplerCrashes, SamplerDivides, DiesSampling, queueVars
    <2> QED  BY <1>2, <1>4, <2>1 DEF Before, Within
  <1>5. ASSUME ~ParseOption, Main \/ StartMessage \/ Start \/ Finish \/ Join PROVE Averages'
    <2>1. /\ UNCHANGED <<resultVars, rows>>
          /\ \/ pc \in {"options", "waiting"} /\ pc' \in {"start", "serving", "waiting"}
             \/ pc' \in {"connect", "join", "done"}
      BY <1>5 DEF Main, StartMessage, Start, Finish, Join, queueVars
    <2> QED  BY <1>2, <1>5, <2>1 DEF Before, Within
  <1>6. ASSUME ~ParseOption, Poll \/ SamplerEnds \/ UNCHANGED vars PROVE Averages'
    <2>1. UNCHANGED <<resultVars, rows, pc, j>>
      BY <1>6 DEF Poll, SamplerEnds, vars, queueVars
    <2> QED  BY <1>2, <1>6, <2>1 DEF Before, Within
  <1>7. ASSUME ~ParseOption, ConnectSwitch PROVE Averages'
    <2>1. /\ pc = "connect" /\ sum' = 0 /\ UNCHANGED <<results, min, max, rows>>
          /\ pc' = "connect" \/ (pc' = "loop" /\ j' = 0)
      BY <1>7 DEF ConnectSwitch, queueVars
    <2>2. Stored' /\ NoLargest' /\ RowSound'
      BY <1>1, <1>7, <2>1 DEF Averages, Stored, NoLargest, RowSound, Before
    <2>3. Running'
      <3> SUFFICES ASSUME pc' = "loop", Fits, j' = 0 PROVE Running'
        BY <1>1, <1>7, <2>1 DEF Running, Within
      <3>1. Counted(0) = {} /\ Count(0) = 0  BY CountedType
      <3>2. Counted(j)' = {} /\ Count(j)' = 0
        BY <1>1, <1>7, <3>1 DEF Counted, Count, Averaged
      <3>3. Total(results', {}) = 0  BY TotalEmpty
      <3>4. min' * 0 = 0 /\ max' * 0 = 0  BY <1>c, <2>1
      <3>5. j' <= Loops' /\ 0..(j' - 1) = {}  BY <1>1, <1>7, <1>a
      <3> QED  BY <2>1, <3>2, <3>3, <3>4, <3>5 DEF Running
    <2> QED  BY <1>0, <2>2, <2>3 DEF Averages
  <1>8. ASSUME ~ParseOption, BeginLoop PROVE Averages'
    <2>1. /\ pc = "loop" /\ pc' = "poll" /\ j < Loops
          /\ UNCHANGED <<j, results, sum, min, max, rows>>
      BY <1>8 DEF BeginLoop, resultVars, queueVars
    <2>2. Stored' /\ NoLargest' /\ RowSound'
      BY <1>1, <1>8, <2>1 DEF Averages, Stored, NoLargest, RowSound, Before
    <2>3. Counted(j)' = Counted(j) /\ Count(j)' = Count(j)
      BY <1>1, <1>8, <2>1 DEF Counted, Count, Averaged
    <2>4. Running'
      BY <1>1, <1>8, <2>1, <2>3 DEF Averages, Running, Within
    <2> QED  BY <1>0, <2>2, <2>4 DEF Averages
  <1>9. ASSUME ~ParseOption, EndLoop PROVE Averages'
    <2>1. PICK v \in Nat : Account(v)  BY <1>9, EndLoopTimes
    <2>2. pc = "poll" /\ pc' = "loop" /\ j' = j + 1 /\ rows' = rows
      BY <1>9, SMT DEF EndLoop
    <2>3. RowSound'  BY <1>1, <1>9, <2>2 DEF Averages, RowSound
    <2>4. CASE Fits
      <3>1. Stored' /\ Running' /\ (Loops - Cooldown <= Warmup => max' = 0)
        BY <1>1, <1>9, <1>b, <2>1, <2>2, <2>4, RunningNext DEF Averages
      <3>2. NoLargest'  BY <1>1, <1>9, <2>2, <3>1 DEF NoLargest, Before
      <3> QED  BY <1>0, <2>3, <3>1, <3>2 DEF Averages
    <2>5. CASE ~Fits
      <3>1. Stored'
        <4>1. results' = [k \in DOMAIN results \cup {j} |-> IF k = j THEN v ELSE results[k]]
          BY <2>1 DEF Account
        <4> QED  BY <1>b, <4>1 DEF Averages, Stored
      <3>2. Running' /\ NoLargest'
        BY <1>1, <1>9, <2>2, <2>5 DEF Running, NoLargest, Before
      <3> QED  BY <1>0, <2>3, <3>1, <3>2 DEF Averages
    <2> QED  BY <2>4, <2>5
  <1>10. ASSUME ~ParseOption, Result PROVE Averages'
    <2>1. PICK row : row = FormatResult(Loops - Warmup - Cooldown, sum)  OBVIOUS
    <2>2. /\ pc = "loop" /\ pc' = "connect" /\ j >= Loops
          /\ rows' = Append(rows, row) /\ UNCHANGED <<results, sum, min, max>>
      BY <1>10, <2>1 DEF Result, resultVars
    <2>3. row \in Row
      <3>1. Loops - Warmup - Cooldown \in Int  BY <1>a
      <3> QED  BY <2>1, <3>1, ResultRow
    <2>4. row.min = min /\ row.max = max /\ row.sum = sum /\ row.counted = Loops - Warmup - Cooldown
      BY <2>1 DEF FormatResult
    <2>5. Stored' /\ NoLargest' /\ Running'
      BY <1>1, <1>10, <2>2 DEF Averages, Stored, NoLargest, Running, Before, Within
    <2>6. ASSUME Fits
          PROVE  row.min * row.counted <= row.sum /\ row.sum <= row.max * row.counted
      <3>1. j = Loops /\ min * Count(j) <= sum /\ sum <= max * Count(j)
        BY <1>a, <1>b, <2>2, <2>6 DEF Averages, Running, Within
      <3>2. PICK last \in Nat : last = Loops - Cooldown /\ last <= Loops
        BY <1>a, <2>6 DEF Fits
      <3>3. Averaged(j) = last  BY <1>a, <3>1, <3>2 DEF Averaged
      <3>4. CASE last > Warmup
        <4>1. Count(j) = Loops - Warmup - Cooldown
          BY <1>a, <3>2, <3>3, <3>4 DEF Count
        <4> QED  BY <2>4, <3>1, <4>1
      <3>5. CASE last <= Warmup
        <4>1. Count(j) = 0  BY <1>a, <3>2, <3>3, <3>5 DEF Count
        <4>2. max = 0  BY <2>6, <3>2, <3>5 DEF Averages, NoLargest
        <4>3. sum = 0  BY <1>c, <3>1, <4>1, <4>2
        <4>4. PICK d \in Nat : row.counted = 0 - d
          <5>1. Warmup - last \in Nat /\ row.counted = 0 - (Warmup - last)
            BY <1>a, <2>4, <3>2, <3>5
          <5> QED  BY <5>1
        <4>5. min * (0 - d) <= 0 /\ 0 <= 0 * (0 - d)
          <5>1. min * d \in Nat  BY <1>c
          <5>2. min * (0 - d) = 0 - min * d  BY <1>c
          <5>3. 0 * (0 - d) = 0  OBVIOUS
          <5> QED  BY <5>1, <5>2, <5>3
        <4> QED  BY <2>4, <4>2, <4>3, <4>4, <4>5
      <3> QED  BY <1>a, <3>2, <3>4, <3>5
    <2>7. RowSound'
      <3> SUFFICES ASSUME Fits, NEW r \in DOMAIN rows'
                   PROVE  /\ rows'[r].min * rows'[r].counted <= rows'[r].sum
                          /\ rows'[r].sum <= rows'[r].max * rows'[r].counted
        BY <1>1, <1>10 DEF RowSound
      <3>1. PICK n \in Nat : n = Len(rows) /\ DOMAIN rows = 1..n  BY <1>b
      <3>2. /\ DOMAIN rows' = 1..(n + 1) /\ rows'[n + 1] = row
            /\ \A m \in 1..n : rows'[m] = rows[m]
        BY <1>b, <2>2, <2>3, <3>1, AppendProperties
      <3>3. CASE r = n + 1  BY <2>6, <3>2, <3>3
      <3>4. CASE r # n + 1
        <4>1. r \in 1..n /\ rows'[r] = rows[r]  BY <3>1, <3>2, <3>4
        <4> QED  BY <3>1, <4>1 DEF Averages, RowSound
      <3> QED  BY <3>3, <3>4
    <2> QED  BY <1>0, <2>5, <2>7 DEF Averages
  <1> QED  BY <1>3, <1>4, <1>5, <1>6, <1>7, <1>8, <1>9, <1>10 DEF Next, Benchmarking

\* What is averaged at the end of a test is the sum of its loops between warmup and
\* cooldown, of all of them and no other.
THEOREM LoopsSummed == Spec => []SumCounts
  <1>1. Params /\ Tallies /\ Places /\ Averages => SumCounts
    <2> SUFFICES ASSUME Params, Places, Averages, pc = "loop", j >= Loops, Fits
                 PROVE  sum = Total(results, Warmup..(Loops - Cooldown - 1))
      BY DEF SumCounts, TestEnds, Total
    <2>1. Loops \in Nat /\ Warmup \in Nat /\ Cooldown \in Nat /\ j \in Nat
      BY NSwitchesType DEF Places
    <2>2. j = Loops /\ sum = Total(results, Counted(j))
      BY <2>1 DEF Averages, Running, Within
    <2>3. Averaged(j) = Loops - Cooldown  BY <2>1, <2>2 DEF Averaged, Fits
    <2> QED  BY <2>2, <2>3 DEF Counted
  <1> QED  BY <1>1, ParamsInit, ParamsStep, TalliesInit, TalliesStep, PlacesInit, PlacesStep,
              AveragesInit, AveragesStep, PTL DEF Spec

\* The average of every row lies between its extremes, which are those of all tests
\* so far; also if warmup and cooldown leave no loop to average.
THEOREM RowsSound == Spec => []RowSound
  <1>1. Averages => RowSound  BY DEF Averages
  <1> QED  BY <1>1, ParamsInit, ParamsStep, TalliesInit, TalliesStep, PlacesInit, PlacesStep,
              AveragesInit, AveragesStep, PTL DEF Spec
=============================================================================
