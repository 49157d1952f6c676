------------------------------ MODULE SnmpProofs ------------------------------
(***************************************************************************)
(* Proofs about module Snmp: the poll stays aligned up to an error, and    *)
(* the queues staggered, for all numbers, fates of requests and cycles.    *)
(***************************************************************************)
EXTENDS Snmp, TLAPS

Numbers == op \in Int /\ current \in Int /\ errored \in BOOLEAN

\* What the poll's two places have to do with each other: while a request is out,
\* and there is one whenever a host is active.
Place ==
    /\ Numbers
    /\ pc = "select" => /\ 1 <= op /\ op <= current /\ current <= 5
                        /\ active = 1
                        /\ ~errored => op = current
    /\ pc = "open" => active = 0
    /\ pc = "sleep" => active = 0

LEMMA Five == Len(Oids) = 5 /\ NoOid = 6
  BY DEF Oids, NoOid

LEMMA PlaceInit == Init => Place
  <1> SUFFICES ASSUME Init PROVE Place
    OBVIOUS
  <1>1. op \in Int /\ current \in Int  BY DEF Init
  <1>2. errored \in BOOLEAN  BY DEF Init
  <1>3. pc = "open" /\ active = 0  BY DEF Init
  <1> QED  BY <1>1, <1>2, <1>3 DEF Place, Numbers

\* The two ways an answer is followed by the next request.
LEMMA NextGetStep ==
  ASSUME Place, pc = "select", NEW e \in BOOLEAN, NextGet(e)
  PROVE  /\ current' = current + 1
         /\ \/ pc' = "select" /\ active' = 1 /\ current < 5
            \/ pc' = "sleep" /\ active' = 0
  <1>1. active = 1 /\ current \in Int /\ current <= 5  BY DEF Place, Numbers
  <1>2. ASSUME Inactive PROVE pc' = "sleep" /\ active' = 0
    BY <1>1, <1>2 DEF Inactive
  <1>3. current' = current + 1  BY DEF NextGet
  <1>4. CASE current + 1 < NoOid
    <2>1. current < 5  BY <1>1, <1>4, Five
    <2>2. PICK ok \in Sends : IF ok THEN UNCHANGED <<pc, active>> ELSE Inactive
      BY <1>4 DEF NextGet
    <2>3. CASE ok  BY <1>1, <1>3, <2>1, <2>2, <2>3
    <2>4. CASE ~ok  BY <1>2, <1>3, <2>2, <2>4
    <2> QED  BY <2>3, <2>4
  <1>5. CASE ~(current + 1 < NoOid)
    <2>1. Inactive  BY <1>5 DEF NextGet
    <2> QED  BY <1>2, <1>3, <2>1
  <1> QED  BY <1>4, <1>5

LEMMA PlaceStep == Place /\ [Next]_vars => Place'
  <1> SUFFICES ASSUME Place, [Next]_vars PROVE Place'
    OBVIOUS
  <1>n. Numbers  BY DEF Place
  <1>1. ASSUME Open PROVE Place'
    <2>1. pc = "open" /\ active = 0 /\ op' = 1 /\ current' = 1 /\ errored' = FALSE
      BY <1>1 DEF Open, Place
    <2>2. PICK ok \in Sends :
            /\ active' = IF ok THEN active + 1 ELSE active
            /\ pc' = IF active' > 0 THEN "select" ELSE "sleep"
      BY <1>1 DEF Open
    <2>3. PICK a : a = active'  OBVIOUS
    <2>4. CASE ok
      <3>1. a = 1  BY <2>1, <2>2, <2>3, <2>4
      <3>2. pc' = "select"  BY <2>2, <2>3, <3>1
      <3>3. op' \in Int /\ current' \in Int /\ 1 <= op' /\ op' <= current' /\ current' <= 5
        BY <2>1
      <3>4. errored' \in BOOLEAN /\ (~errored' => op' = current')  BY <2>1
      <3> QED  BY <2>3, <3>1, <3>2, <3>3, <3>4 DEF Place, Numbers
    <2>5. CASE ~ok
      <3>1. a = 0  BY <2>1, <2>2, <2>3, <2>5
      <3>2. pc' = "sleep"  BY <2>2, <2>3, <3>1
      <3>3. op' \in Int /\ current' \in Int  BY <2>1
      <3>4. errored' \in BOOLEAN  BY <2>1
      <3> QED  BY <2>3, <3>1, <3>2, <3>3, <3>4 DEF Place, Numbers
    <2> QED  BY <2>4, <2>5
  <1>2. ASSUME Value PROVE Place'
    <2>1. pc = "select" /\ UNCHANGED errored /\ NextGet(FALSE)  BY <1>2 DEF Value, Requested
    <2>2. op' = op + 1  BY <1>2 DEF Value, PrintResult
    <2>3. /\ current' = current + 1
          /\ \/ pc' = "select" /\ active' = 1 /\ current < 5
             \/ pc' = "sleep" /\ active' = 0
      BY <2>1, NextGetStep
    <2>4. PICK o, c : o = op' /\ c = current'  OBVIOUS
    <2>5. o \in Int /\ c \in Int /\ o = op + 1 /\ c = current + 1
      BY <1>n, <2>2, <2>3, <2>4 DEF Numbers
    <2>6. 1 <= op /\ op <= current  BY <2>1 DEF Place
    <2>7. ~errored => op = current  BY <2>1 DEF Place
    <2>8. 1 <= o /\ o <= c /\ (current < 5 => c <= 5)  BY <1>n, <2>5, <2>6 DEF Numbers
    <2>9. ~errored' => o = c  BY <2>1, <2>5, <2>7
    <2>10. errored' \in BOOLEAN  BY <1>n, <2>1 DEF Numbers
    <2> QED  BY <2>3, <2>4, <2>5, <2>8, <2>9, <2>10 DEF Place, Numbers
  <1>3. ASSUME Error PROVE Place'
    <2>1. pc = "select" /\ errored' = TRUE /\ UNCHANGED op /\ NextGet(TRUE)
      BY <1>3 DEF Error, Requested
    <2>2. /\ current' = current + 1
          /\ \/ pc' = "select" /\ active' = 1 /\ current < 5
             \/ pc' = "sleep" /\ active' = 0
      BY <2>1, NextGetStep
    <2>3. PICK c : c = current'  OBVIOUS
    <2>4. 1 <= op /\ op <= current  BY <2>1 DEF Place
    <2>5. c \in Int /\ op <= c /\ (current < 5 => c <= 5)
      BY <1>n, <2>2, <2>3, <2>4 DEF Numbers
    <2> QED  BY <1>n, <2>1, <2>2, <2>3, <2>4, <2>5 DEF Place, Numbers
  <1>4. ASSUME Timeout PROVE Place'
    <2>1. pc = "select" /\ Inactive /\ UNCHANGED <<op, current, errored>>
      BY <1>4 DEF Timeout, Requested
    <2>2. active = 1  BY <2>1 DEF Place
    <2>3. pc' = "sleep" /\ active' = 0  BY <2>1, <2>2 DEF Inactive
    <2> QED  BY <1>n, <2>1, <2>3 DEF Place, Numbers
  <1>5. ASSUME DivideByZero \/ OpenCrashes PROVE Place'
    BY <1>5, <1>n DEF DivideByZero, OpenCrashes, Place, Numbers
  <1>6. ASSUME CheckStop PROVE Place'
    BY <1>6, <1>n DEF CheckStop, Place, Numbers
  <1>7. ASSUME Stop PROVE Place'
    BY <1>7, <1>n DEF Stop, Place, Numbers
  <1>8. ASSUME PlotDistributed PROVE Place'
    BY <1>8, <1>n DEF PlotDistributed, Place, Numbers
  <1>9. ASSUME UNCHANGED vars PROVE Place'
    BY <1>9, <1>n DEF vars, state, Place, Numbers
  <1> QED  BY <1>1, <1>2, <1>3, <1>4, <1>5, <1>6, <1>7, <1>8, <1>9 DEF Next, Step, Sampler

\* An answer is filed as what was asked for, up to an error, and never as a later
\* oid or as one behind the last.
THEOREM PollAligned == Spec => []Aligned
  <1>1. Place => Aligned
    <2> SUFFICES ASSUME Place, pc = "select"
                 PROVE  op <= current /\ current < NoOid /\ (~errored => op = current)
      BY DEF Aligned
    <2>1. op <= current /\ current <= 5 /\ current \in Int  BY DEF Place, Numbers
    <2>2. current < NoOid  BY <2>1, Five
    <2> QED  BY <2>1, <2>2 DEF Place
  <1> QED  BY <1>1, PlaceInit, PlaceStep, PTL DEF Spec

-----------------------------------------------------------------------------
(* The queues *)

\* Each queue is as long as the one before it, or shorter, and one shorter at
\* least when its turn is next.
Levels ==
    /\ length \in [Queues -> Int]
    /\ length["TIME"] = length["CPU"]
    /\ length["CPU"] <= length["MEMORY"] /\ (op = 3 => length["CPU"] < length["MEMORY"])
    /\ length["IN"] <= length["CPU"]     /\ (op = 4 => length["IN"] < length["CPU"])
    /\ length["OUT"] <= length["IN"]     /\ (op = 5 => length["OUT"] < length["IN"])

LEMMA LevelsInit == Init => Levels
  BY DEF Init, Levels, Queues

\* A step that files nothing and leaves op alone, or back at the first oid.
LEMMA LevelsKept ==
  ASSUME Levels, UNCHANGED length, UNCHANGED op \/ op' = 1 PROVE Levels'
  BY DEF Levels

\* What File does to the queues.
LEMMA Filed ==
  ASSUME Levels, NEW Q, File(Q)
  PROVE  /\ length' \in [Queues -> Int]
         /\ \A q \in Queues : length'[q] = IF q \in Q THEN length[q] + 1 ELSE length[q]
  BY DEF File, Levels

LEMMA LevelsPrinted ==
  ASSUME Levels, op \in Int, 1 <= op, op <= 5, NEW n, PrintResult(n) PROVE Levels'
  <1>1. op' = op + 1  BY DEF PrintResult
  <1>2. PICK l, o : l = length' /\ o = op'  OBVIOUS
  <1>3. /\ o = op + 1
        /\ {"TIME", "MEMORY", "CPU", "IN", "OUT"} = Queues
        /\ \A q \in Queues : length[q] \in Int
    BY <1>1, <1>2 DEF Levels, Queues
  <1>4. CASE op = 1
    <2>1. Oids[op] = "RAM_SIZE"  BY <1>4 DEF Oids
    <2>2. l = length  BY <1>2, <2>1 DEF PrintResult
    <2> QED  BY <1>2, <1>3, <1>4, <2>2 DEF Levels
  <1>5. CASE op = 2
    <2>1. Oids[op] = "RAM_USED"  BY <1>5 DEF Oids
    <2>2. File({"MEMORY"})  BY <2>1 DEF PrintResult
    <2> QED  BY <1>2, <1>3, <1>5, <2>2, Filed DEF Levels
  <1>6. CASE op = 3
    <2>1. Oids[op] = "CPU_IDLE"  BY <1>6 DEF Oids
    <2>2. File({"TIME", "CPU"})  BY <2>1 DEF PrintResult
    <2> QED  BY <1>2, <1>3, <1>6, <2>2, Filed DEF Levels
  <1>7. CASE op = 4
    <2>1. Oids[op] = "BYTES_IN"  BY <1>7 DEF Oids
    <2>2. File({"IN"})  BY <2>1 DEF PrintResult
    <2> QED  BY <1>2, <1>3, <1>7, <2>2, Filed DEF Levels
  <1>8. CASE op = 5
    <2>1. Oids[op] = "BYTES_OUT"  BY <1>8 DEF Oids
    <2>2. File({"OUT"})  BY <2>1 DEF PrintResult
    <2> QED  BY <1>2, <1>3, <1>8, <2>2, Filed DEF Levels
  <1> QED  BY <1>4, <1>5, <1>6, <1>7, <1>8

LEMMA LevelsStep == Place /\ Levels /\ [Next]_vars => Levels'
  <1> SUFFICES ASSUME Place, Levels, [Next]_vars PROVE Levels'
    OBVIOUS
  <1>1. ASSUME Value PROVE Levels'
    <2>1. pc = "select"  BY <1>1 DEF Value, Requested
    <2>2. op \in Int /\ 1 <= op /\ op <= 5  BY <2>1 DEF Place, Numbers
    <2>3. PICK n \in Ram : PrintResult(n)  BY <1>1 DEF Value
    <2> QED  BY <2>2, <2>3, LevelsPrinted
  <1>2. ASSUME Open PROVE Levels'  BY <1>2, LevelsKept DEF Open
  <1>3. ASSUME Error PROVE Levels'  BY <1>3, LevelsKept DEF Error
  <1>4. ASSUME Timeout PROVE Levels'  BY <1>4, LevelsKept DEF Timeout
  <1>5. ASSUME DivideByZero \/ OpenCrashes PROVE Levels'
    BY <1>5, LevelsKept DEF DivideByZero, OpenCrashes
  <1>6. ASSUME CheckStop PROVE Levels'  BY <1>6, LevelsKept DEF CheckStop
  <1>7. ASSUME Stop PROVE Levels'  BY <1>7, LevelsKept DEF Stop
  <1>8. ASSUME PlotDistributed PROVE Levels'  BY <1>8, LevelsKept DEF PlotDistributed
  <1>9. ASSUME UNCHANGED vars PROVE Levels'  BY <1>9, LevelsKept DEF vars, state
  <1> QED  BY <1>1, <1>2, <1>3, <1>4, <1>5, <1>6, <1>7, <1>8, <1>9 DEF Next, Step, Sampler

\* Wherever a cycle is cut short, and even when answers are filed under a wrong
\* name, no queue is longer than one that is filled before it, and every time
\* stamp has its CPU sample.
THEOREM QueuesStaggered == Spec => []Staggered
  <1>1. Levels => Staggered  BY DEF Levels, Staggered, Queues
  <1> QED  BY <1>1, PlaceInit, PlaceStep, LevelsInit, LevelsStep, PTL DEF Spec
-----------------------------------------------------------------------------
(* The plot *)

\* While no request is missed: within a cycle the queues whose turn was before op
\* are one longer than the others, and between two cycles all are of one length,
\* which is not 0 once a cycle has ended.
Whole ==
    ~missed =>
        /\ plot # "crashed"
        /\ pc = "open" => op \in Int /\ \A q \in Queues : length[q] = length["OUT"] /\ length[q] >= 0
        /\ pc = "select" => /\ ~errored
                            /\ length["OUT"] >= 0
                            /\ length["MEMORY"] = length["OUT"] + IF op > 2 THEN 1 ELSE 0
                            /\ length["CPU"] = length["OUT"] + IF op > 3 THEN 1 ELSE 0
                            /\ length["TIME"] = length["CPU"]
                            /\ length["IN"] = length["OUT"] + IF op > 4 THEN 1 ELSE 0
        /\ pc \in {"sleep", "done"} => \A q \in Queues : length[q] = length["OUT"] /\ length[q] > 0

LEMMA WholeInit == Init => Whole
  BY DEF Init, Whole, Queues

\* The last request of a cycle is not missed only if it was answered.
LEMMA NextGetWhole ==
  ASSUME Place, pc = "select", NEW e \in BOOLEAN, NextGet(e), missed \in BOOLEAN, ~missed'
  PROVE  ~e /\ ~missed /\ (pc' = "select" \/ (current = 5 /\ pc' = "sleep"))
  <1>1. active = 1 /\ current \in Int /\ current <= 5  BY DEF Place, Numbers
  <1>2. CASE current + 1 < NoOid
    <2>1. PICK ok \in Sends : /\ missed' = (missed \/ e \/ ~ok)
                              /\ IF ok THEN UNCHANGED <<pc, active>> ELSE Inactive
      BY <1>2 DEF NextGet
    <2>2. ~missed /\ ~e /\ ok  BY <2>1
    <2> QED  BY <2>1, <2>2
  <1>3. CASE ~(current + 1 < NoOid)
    <2>1. missed' = (missed \/ e) /\ Inactive  BY <1>3 DEF NextGet
    <2>2. current = 5  BY <1>1, <1>3, Five
    <2>3. pc' = "sleep"  BY <1>1, <2>1 DEF Inactive
    <2> QED  BY <2>1, <2>2, <2>3
  <1> QED  BY <1>2, <1>3

\* A step that leaves the queues and the plot alone and begins no cycle.
LEMMA WholeKept ==
  ASSUME Whole, UNCHANGED <<length, plot, op, errored, pc>>, missed => missed' PROVE Whole'
  BY DEF Whole

LEMMA WholePrinted ==
  ASSUME Place, Levels, Whole, pc = "select", ~missed, NEW n, PrintResult(n),
         op = current, pc' = "select" \/ (current = 5 /\ pc' = "sleep"),
         UNCHANGED <<plot, errored>>, current' = current + 1,
         pc' = "select" => current < 5
  PROVE  Whole'
  <1>1. op' = op + 1 /\ op \in Int /\ 1 <= op /\ op <= 5
    BY DEF PrintResult, Place, Numbers
  <1>2. /\ Queues = {"TIME", "MEMORY", "CPU", "IN", "OUT"}
        /\ \A q \in Queues : length[q] \in Int
    BY DEF Levels, Queues
  <1>3. /\ plot' # "crashed" /\ ~errored' /\ length["OUT"] >= 0
        /\ length["MEMORY"] = length["OUT"] + IF op > 2 THEN 1 ELSE 0
        /\ length["CPU"] = length["OUT"] + IF op > 3 THEN 1 ELSE 0
        /\ length["TIME"] = length["CPU"]
        /\ length["IN"] = length["OUT"] + IF op > 4 THEN 1 ELSE 0
    BY DEF Whole
  <1>4. PICK l, o : l = length' /\ o = op'  OBVIOUS
  <1>5. CASE op = 1
    <2>1. Oids[op] = "RAM_SIZE"  BY <1>5 DEF Oids
    <2>2. l = length  BY <1>4, <2>1 DEF PrintResult
    <2>3. pc' = "select"  BY <1>5
    <2> QED  BY <1>1, <1>2, <1>3, <1>4, <1>5, <2>2, <2>3 DEF Whole
  <1>6. CASE op = 2
    <2>1. Oids[op] = "RAM_USED"  BY <1>6 DEF Oids
    <2>2. File({"MEMORY"})  BY <2>1 DEF PrintResult
    <2>3. pc' = "select"  BY <1>6
    <2> QED  BY <1>1, <1>2, <1>3, <1>4, <1>6, <2>2, <2>3, Filed DEF Whole
  <1>7. CASE op = 3
    <2>1. Oids[op] = "CPU_IDLE"  BY <1>7 DEF Oids
    <2>2. File({"TIME", "CPU"})  BY <2>1 DEF PrintResult
    <2>3. pc' = "select"  BY <1>7
    <2> QED  BY <1>1, <1>2, <1>3, <1>4, <1>7, <2>2, <2>3, Filed DEF Whole
  <1>8. CASE op = 4
    <2>1. Oids[op] = "BYTES_IN"  BY <1>8 DEF Oids
    <2>2. File({"IN"})  BY <2>1 DEF PrintResult
    <2>3. pc' = "select"  BY <1>8
    <2> QED  BY <1>1, <1>2, <1>3, <1>4, <1>8, <2>2, <2>3, Filed DEF Whole
  <1>9. CASE op = 5
    <2>1. Oids[op] = "BYTES_OUT"  BY <1>9 DEF Oids
    <2>2. File({"OUT"})  BY <2>1 DEF PrintResult
    <2>3. pc' = "sleep"  BY <1>9
    <2> QED  BY <1>1, <1>2, <1>3, <1>4, <1>9, <2>2, <2>3, Filed DEF Whole
  <1> QED  BY <1>1, <1>5, <1>6, <1>7, <1>8, <1>9

LEMMA WholeStep == missed \in BOOLEAN /\ Place /\ Levels /\ Whole /\ [Next]_vars => Whole'
  <1> SUFFICES ASSUME missed \in BOOLEAN, Place, Levels, Whole, [Next]_vars, ~missed'
               PROVE  Whole'
    BY DEF Whole
  <1>1. ASSUME Open PROVE Whole'
    <2>1. PICK ok \in Sends :
            /\ active' = IF ok THEN active + 1 ELSE active
            /\ pc' = IF active' > 0 THEN "select" ELSE "sleep"
            /\ missed' = (missed \/ ~ok)
      BY <1>1 DEF Open
    <2>2. ok /\ ~missed  BY <2>1
    <2>3. pc = "open" /\ active = 0 /\ op' = 1 /\ errored' = FALSE /\ UNCHANGED <<length, plot>>
      BY <1>1 DEF Open, Place
    <2>4. PICK a : a = active'  OBVIOUS
    <2>5. a = 1  BY <2>1, <2>2, <2>3, <2>4
    <2>6. pc' = "select"  BY <2>1, <2>4, <2>5
    <2>7. \A q \in Queues : length[q] \in Int  BY DEF Levels
    <2> QED  BY <2>2, <2>3, <2>6, <2>7 DEF Whole, Queues
  <1>2. ASSUME Value PROVE Whole'
    <2>1. pc = "select" /\ NextGet(FALSE) /\ UNCHANGED <<plot, errored>>
      BY <1>2 DEF Value, Requested
    <2>2. ~missed /\ (pc' = "select" \/ (current = 5 /\ pc' = "sleep"))
      BY <2>1, NextGetWhole
    <2>3. current' = current + 1 /\ (pc' = "select" => current < 5)
      BY <2>1, NextGetStep
    <2>4. op = current  BY <2>1, <2>2 DEF Place, Whole
    <2>5. PICK n \in Ram : PrintResult(n)  BY <1>2 DEF Value
    <2> QED  BY <2>1, <2>2, <2>3, <2>4, <2>5, WholePrinted
  <1>3. ASSUME Error PROVE Whole'
    BY <1>3, NextGetWhole DEF Error, Requested
  <1>4. ASSUME Timeout PROVE Whole'
    BY <1>4 DEF Timeout
  <1>5. ASSUME DivideByZero \/ OpenCrashes PROVE Whole'
    BY <1>5 DEF DivideByZero, OpenCrashes, Whole
  <1>6. ASSUME CheckStop PROVE Whole'
    BY <1>6 DEF CheckStop, Whole, Levels, Place, Numbers
  <1>7. ASSUME Stop PROVE Whole'
    BY <1>7, WholeKept DEF Stop
  <1>8. ASSUME PlotDistributed PROVE Whole'
    <2>1. /\ pc = "done" /\ UNCHANGED <<pc, op, length, errored, missed>>
          /\ plot' = IF \A q \in Queues : length[q] >= PlotRows THEN "done" ELSE "crashed"
      BY <1>8 DEF PlotDistributed
    <2>2. \A q \in Queues : length[q] = length["OUT"] /\ length[q] > 0 /\ length[q] \in Int
      BY <2>1 DEF Whole, Levels
    <2>3. PlotRows = length["OUT"]  BY <2>2 DEF PlotRows, Queues
    <2>4. \A q \in Queues : length[q] >= PlotRows  BY <2>2, <2>3 DEF Queues
    <2> QED  BY <2>1, <2>2, <2>4 DEF Whole
  <1>9. ASSUME UNCHANGED vars PROVE Whole'
    BY <1>9, WholeKept DEF vars, state
  <1> QED  BY <1>1, <1>2, <1>3, <1>4, <1>5, <1>6, <1>7, <1>8, <1>9 DEF Next, Step, Sampler

MissedIsBool == missed \in BOOLEAN

LEMMA MissedType == MissedIsBool /\ [Next]_vars => MissedIsBool'
  BY DEF Next, Step, Sampler, Open, OpenCrashes, Value, NextGet, DivideByZero,
         Error, Timeout, CheckStop, Stop, PlotDistributed, vars, state, MissedIsBool

\* As long as no request was missed, the graphs never read a sample that is not
\* there, whenever the thread is stopped.
THEOREM PlotIsSafe == Spec => []PlotSafe
  <1>1. Whole => PlotSafe  BY DEF Whole, PlotSafe
  <1>2. Init => MissedIsBool  BY DEF Init, MissedIsBool
  <1>3. MissedIsBool /\ Place /\ Levels /\ Whole /\ [Next]_vars => Whole'
    BY WholeStep DEF MissedIsBool
  <1> QED  BY <1>1, <1>2, <1>3, PlaceInit, PlaceStep, LevelsInit, LevelsStep, WholeInit,
              MissedType, PTL DEF Spec
=============================================================================
