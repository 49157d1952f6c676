---------------------------- MODULE PlottingProofs ----------------------------
(***************************************************************************)
(* Proofs about module Plotting, for all parameters, sizes of buffers,     *)
(* lengths of rows, numbers of slaves, failures and sizes of pipes: the    *)
(* master reads the report in step, the characters implement the channel   *)
(* of messages; a session's files are there as long as gnuplot may read    *)
(* them, and no longer; and each chart shows all its curves.               *)
(***************************************************************************)
EXTENDS Plotting, SequenceTheorems, FiniteSetTheorems, TLAPS

\* The values that params can have.
Slaves == [nSwitches : Switches, loops : Loops, mode : {0, 1}, testRange : {0, 1},
           valuesRow : RowLengths, avgsRow : {1}, resultsRow : {2}, quantity : Quantities]

\* A message has no LIMITER but, it may be, at its end.
Shape(s) ==
    /\ s \in Seq(Nat) /\ s # <<>>
    /\ \A k \in 1..(Len(s) - 1) : s[k] # LIMITER

\* The well-ordering of the natural numbers, from that of finite sets.
LEMMA Least ==
  ASSUME NEW T, T \subseteq Nat, T # {}
  PROVE  \E x \in T : \A y \in T : x <= y
  <1> DEFINE Below == {0..n : n \in T}
  <1>1. Below \subseteq FiniteSubsetsOf(Nat)
    <2> SUFFICES ASSUME NEW n \in T PROVE IsFiniteSet(0..n) /\ 0..n \subseteq Nat
      BY DEF FiniteSubsetsOf
    <2> QED  BY FS_Interval
  <1>2. Below # {}  OBVIOUS
  <1>3. PICK b \in Below : \A a \in Below : ~(<<a, b>> \in StrictSubsetOrdering(Nat))
    BY <1>1, <1>2, FS_StrictSubsetOrderingWellFounded, WFMin
  <1>4. PICK x \in T : b = 0..x  OBVIOUS
  <1>5. ASSUME NEW y \in T, y < x PROVE FALSE
    <2>1. 0..y \subseteq 0..x /\ x \in 0..x /\ x \notin 0..y  BY <1>5
    <2>2. <<0..y, b>> \in StrictSubsetOrdering(Nat)
      BY <1>4, <2>1 DEF StrictSubsetOrdering
    <2> QED  BY <1>3, <2>2
  <1> QED  BY <1>4, <1>5

\* Digits is defined for every number: the least width it fits, or all there is.
LEMMA DigitsType == ASSUME NEW n \in Nat PROVE Digits(n) \in 1..Room
  <1> DEFINE Wide == {d \in 1..Room : d = Room \/ n < Base^d}
  <1>1. Room \in Wide /\ Wide \subseteq Nat  BY SizeAssumption
  <1>2. PICK x \in Wide : \A y \in Wide : x <= y  BY <1>1, Least
  <1>3. x < Room => n < Base^x  BY <1>2, SizeAssumption
  <1>4. x > 1 => n >= Base^(x - 1)
    <2> SUFFICES ASSUME x > 1 PROVE n >= Base^(x - 1)
      OBVIOUS
    <2>1. x - 1 \in 1..Room /\ x - 1 \notin Wide  BY <1>2, SizeAssumption
    <2>2. PICK b \in Nat \ {0, 1} : b = Base  BY SizeAssumption
    <2>3. PICK e \in Nat : e = x - 1  BY <2>1
    <2>4. b^e \in Int  OBVIOUS
    <2> QED  BY <2>1, <2>2, <2>3, <2>4
  <1> QED  BY <1>2, <1>3, <1>4 DEF Digits

LEMMA EnqueueShape ==
  ASSUME NEW i \in Nat \ {0}, NEW length \in Nat \ {0}, NEW size \in Nat \ {0}
  PROVE  Shape(Enqueue(i, length, TRUE, size))
  <1>1. PICK m \in Nat \ {0} : m = Minimum(length, size) /\ m <= length  BY DEF Minimum
  <1>2. PICK s : s = [k \in 1..m |-> IF TRUE /\ k = length THEN LIMITER ELSE i]  OBVIOUS
  <1>3. s = Enqueue(i, length, TRUE, size)  BY <1>1, <1>2 DEF Enqueue
  <1>4. s \in [1..m -> Nat]  BY <1>2 DEF LIMITER
  <1>5. s \in Seq(Nat) /\ Len(s) = m  BY <1>4
  <1>6. \A k \in 1..(m - 1) : s[k] = i  BY <1>1, <1>2
  <1> QED  BY <1>3, <1>5, <1>6 DEF Shape, LIMITER

LEMMA RowsShape ==
  ASSUME NEW i \in Nat \ {0}, NEW loops \in Nat \ {0}, NEW length \in Nat \ {0}
  PROVE  Shape(Rows(i, loops, length))
  <1>1. PICK full \in Nat : full = Minimum(length, RowSize)
    BY SizeAssumption DEF Minimum
  <1>2. PICK last : last = Enqueue(i, length + 2, TRUE, RowSize)  OBVIOUS
  <1>3. Shape(last)
    <2>1. length + 2 \in Nat \ {0} /\ RowSize \in Nat \ {0}  BY SizeAssumption
    <2> QED  BY <1>2, <2>1, EnqueueShape
  <1>4. PICK n \in Nat : n = (loops - 1) * full  OBVIOUS
  <1>5. PICK rows : rows = [k \in 1..n |-> i]  OBVIOUS
  <1>6. rows \in Seq(Nat) /\ Len(rows) = n  BY <1>5
  <1>7. Rows(i, loops, length) = rows \o last  BY <1>1, <1>2, <1>4, <1>5 DEF Rows
  <1>8. PICK m \in Nat \ {0} : m = Len(last) /\ \A k \in 1..(m - 1) : last[k] # LIMITER
    BY <1>3 DEF Shape
  <1>9. PICK s : s = rows \o last  OBVIOUS
  <1>10. /\ s \in Seq(Nat) /\ Len(s) = n + m
         /\ \A k \in 1..(n + m) : s[k] = IF k <= n THEN rows[k] ELSE last[k - n]
    <2>1. last \in Seq(Nat)  BY <1>3 DEF Shape
    <2>2. rows \in Seq(Nat) /\ Len(rows) = n /\ Len(last) = m  BY <1>6, <1>8
    <2>3. /\ s \in Seq(Nat) /\ Len(s) = Len(rows) + Len(last)
          /\ \A k \in 1..(Len(rows) + Len(last)) :
                s[k] = IF k <= Len(rows) THEN rows[k] ELSE last[k - Len(rows)]
      BY <1>6, <1>9, <2>1, ConcatProperties
    <2> QED  BY <2>2, <2>3
  <1>11. ASSUME NEW k \in 1..(n + m - 1) PROVE s[k] # LIMITER
    <2>1. CASE k <= n  BY <1>5, <1>10, <2>1 DEF LIMITER
    <2>2. CASE k > n
      <3>1. k - n \in 1..(m - 1) /\ k \in 1..(n + m)  BY <2>2
      <3>2. s[k] = last[k - n]  BY <1>10, <2>2, <3>1
      <3> QED  BY <1>8, <3>1, <3>2
    <2> QED  BY <2>1, <2>2
  <1>12. s # <<>>  BY <1>10
  <1> QED  BY <1>7, <1>9, <1>10, <1>11, <1>12 DEF Shape

LEMMA MessagesShape ==
  ASSUME NEW p \in Slaves
  PROVE  /\ Tests(p) \in Nat \ {0} /\ Len(Messages(p)) = 4 + 3 * Tests(p)
         /\ DOMAIN Messages(p) = 1..Len(Messages(p))
         /\ \A i \in 1..Len(Messages(p)) : Shape(Messages(p)[i])
  <1>1. /\ p.nSwitches \in Nat \ {0} /\ p.loops \in Nat \ {0} /\ p.mode \in Nat
        /\ p.testRange \in Nat /\ p.valuesRow \in Nat \ {0} /\ p.avgsRow \in Nat \ {0}
        /\ p.resultsRow \in Nat \ {0}
    <2>1. /\ p.nSwitches \in Switches /\ p.loops \in Loops /\ p.valuesRow \in RowLengths
          /\ p.mode \in {0, 1} /\ p.testRange \in {0, 1}
          /\ p.avgsRow = 1 /\ p.resultsRow = 2
      BY DEF Slaves
    <2>2. p.nSwitches \in Nat \ {0} /\ p.loops \in Nat \ {0}  BY <2>1, ParamAssumption
    <2>3. p.valuesRow \in Nat \ {0}  BY <2>1, SizeAssumption
    <2> QED  BY <2>1, <2>2, <2>3
  <1>2. PICK n \in Nat \ {0} : n = Tests(p)  BY <1>1 DEF Tests
  <1>3. PICK m : m = Messages(p)  OBVIOUS
  <1>4. DOMAIN m = 1..(4 + 3 * n)  BY <1>2, <1>3 DEF Messages
  <1>5. ASSUME NEW i \in 1..(4 + 3 * n) PROVE Shape(m[i])
    <2>0. i \in Nat \ {0}  OBVIOUS
    <2>1. CASE i <= 4
      <3>1. PICK d : d = Numbers(p)[i]  OBVIOUS
      <3>2. d \in Nat  BY <1>1, <2>1, <3>1 DEF Numbers
      <3>3. Digits(d) + 1 \in Nat \ {0}  BY <3>2, DigitsType, SizeAssumption
      <3>4. Room + 1 \in Nat \ {0}  BY SizeAssumption
      <3>5. Shape(Number(i, d))  BY <2>0, <3>3, <3>4, EnqueueShape DEF Number
      <3> QED  BY <1>2, <1>3, <2>1, <3>1, <3>5 DEF Messages
    <2>2. CASE i > 4 /\ i <= 4 + n
      <3>1. m[i] = Rows(i, p.loops, p.valuesRow)  BY <1>2, <1>3, <2>2 DEF Messages
      <3> QED  BY <1>1, <3>1, RowsShape
    <2>3. CASE i > 4 + n /\ i <= 4 + 2 * n
      <3>1. m[i] = Rows(i, p.loops, p.avgsRow)  BY <1>2, <1>3, <2>3 DEF Messages
      <3> QED  BY <1>1, <3>1, RowsShape
    <2>4. CASE i > 4 + 2 * n
      <3>1. m[i] = Result(i, p.resultsRow)  BY <1>2, <1>3, <2>4 DEF Messages
      <3>2. p.resultsRow + 1 \in Nat \ {0}  BY <1>1
      <3>3. RowSize \in Nat \ {0}  BY SizeAssumption
      <3> QED  BY <2>0, <3>1, <3>2, <3>3, EnqueueShape DEF Result
    <2> QED  BY <1>2, <2>1, <2>2, <2>3, <2>4
  <1>6. Len(m) = 4 + 3 * n  BY <1>2, <1>3, <1>4 DEF Messages
  <1> QED  BY <1>2, <1>3, <1>4, <1>5, <1>6

-----------------------------------------------------------------------------
(* The master reads in step *)

Queued == params \in Slaves /\ messages = Messages(params)

\* A character of a message, or the end.
Position(pos) ==
    /\ pos \in (Nat \ {0}) \X (Nat \ {0})
    /\ pos[1] <= Len(messages) + 1
    /\ pos[1] <= Len(messages) => pos[2] <= Len(messages[pos[1]])
    /\ pos[1] = Len(messages) + 1 => pos[2] = 1

\* The master is never ahead of the slave.
Positions ==
    /\ Position(wpos) /\ Position(rpos)
    /\ rpos[1] < wpos[1] \/ (rpos[1] = wpos[1] /\ rpos[2] <= wpos[2])

Strings ==
    /\ array \in Seq(Nat) /\ got \in Seq(Seq(Nat))
    /\ number \in Seq(Nat) /\ Len(number) = Minimum(Len(got), 4)

\* If the messages fit, where the master is tells what it has read.
InPlace ==
    /\ rpos = <<Len(got) + 1, Len(array) + 1>>
    /\ \A i \in 1..Len(got) : got[i] = Content(i)
    /\ \A k \in 1..Len(array) : array[k] = messages[Len(got) + 1][k]
    /\ \A i \in 1..Len(number) : number[i] = Numbers(params)[i]

ReportInv == Queued /\ Positions /\ Strings /\ (Fits => InPlace)

LEMMA QueuedShape ==
  ASSUME Queued
  PROVE  /\ Len(messages) \in Nat \ {0} /\ DOMAIN messages = 1..Len(messages)
         /\ Len(messages) >= 7
         /\ \A i \in 1..Len(messages) : Shape(messages[i]) /\ Len(messages[i]) \in Nat \ {0}
  <1>1. \A s : Shape(s) => Len(s) \in Nat \ {0}  BY DEF Shape
  <1> QED  BY <1>1, MessagesShape DEF Queued

LEMMA AfterPosition ==
  ASSUME Queued, NEW pos, Position(pos), pos[1] <= Len(messages)
  PROVE  /\ Position(After(pos))
         /\ After(pos) = IF pos[2] < Len(messages[pos[1]]) THEN <<pos[1], pos[2] + 1>>
                         ELSE <<pos[1] + 1, 1>>
  <1>1. PICK m \in Nat \ {0}, k \in Nat \ {0} : pos = <<m, k>>  BY DEF Position
  <1>2. PICK L \in Nat \ {0} : L = Len(messages[m])  BY <1>1, QueuedShape
  <1>3. Len(messages) \in Nat /\ m <= Len(messages) /\ k <= L  BY <1>1, <1>2, QueuedShape DEF Position
  <1>4. CASE k < L
    <2>1. After(pos) = <<m, k + 1>>  BY <1>1, <1>2, <1>4 DEF After
    <2> QED  BY <1>1, <1>2, <1>3, <1>4, <2>1 DEF Position
  <1>5. CASE ~(k < L)
    <2>1. After(pos) = <<m + 1, 1>>  BY <1>1, <1>2, <1>5 DEF After
    <2>2. m + 1 <= Len(messages) => 1 <= Len(messages[m + 1])  BY <1>3, QueuedShape
    <2> QED  BY <1>1, <1>2, <1>3, <1>5, <2>1, <2>2 DEF Position
  <1> QED  BY <1>4, <1>5

LEMMA ReportInit == Init => ReportInv
  <1> SUFFICES ASSUME Init PROVE ReportInv
    OBVIOUS
  <1>1. Queued  BY DEF Init, Queued, Slaves
  <1>2. wpos = <<1, 1>> /\ rpos = <<1, 1>> /\ array = <<>> /\ got = <<>> /\ number = <<>>
    BY DEF Init
  <1>3. Positions  BY <1>1, <1>2, QueuedShape DEF Positions, Position
  <1>4. Strings /\ InPlace  BY <1>2 DEF Strings, InPlace, Minimum
  <1> QED  BY <1>1, <1>3, <1>4 DEF ReportInv

\* Where there is a character to read.
LEMMA ReadAt ==
  ASSUME Queued, Positions, Arrived
  PROVE  /\ rpos[1] \in 1..Len(messages) /\ rpos[2] \in 1..Len(messages[rpos[1]])
         /\ rpos[2] = Len(messages[rpos[1]]) => rpos[1] < wpos[1]
  <1>1. PICK m \in Nat \ {0}, k \in Nat \ {0} : rpos = <<m, k>>
    BY DEF Positions, Position
  <1>2. PICK n \in Nat \ {0}, l \in Nat \ {0} : wpos = <<n, l>>
    BY DEF Positions, Position
  <1>3. m < n \/ (m = n /\ k < l)
    <2>1. m < n \/ (m = n /\ k <= l)  BY <1>1, <1>2 DEF Positions
    <2>2. <<m, k>> # <<n, l>>  BY <1>1, <1>2 DEF Arrived
    <2>3. m # n \/ k # l  BY <2>2
    <2> QED  BY <1>1, <1>2, <2>1, <2>3
  <1>4. PICK N \in Nat \ {0} : N = Len(messages)  BY QueuedShape
  <1>5. n <= N + 1 /\ (n = N + 1 => l = 1) /\ (n <= N => l <= Len(messages[n]))
    BY <1>2, <1>4 DEF Positions, Position
  <1>6. m <= N  BY <1>3, <1>5
  <1>7. k <= Len(messages[m]) /\ Len(messages[m]) \in Nat
    BY <1>1, <1>4, <1>6, QueuedShape DEF Positions, Position
  <1>8. k = Len(messages[m]) => m < n  BY <1>3, <1>5, <1>6, <1>7
  <1> QED  BY <1>1, <1>2, <1>4, <1>6, <1>7, <1>8

\* The master reads with the buffer it would have if all went well.
LEMMA BufferInPlace ==
  ASSUME Queued, Strings, InPlace
  PROVE  BufferSize = RoomOf(Len(got) + 1)
  <1>1. PICK g \in Nat : g = Len(got)  BY DEF Strings
  <1>2. CASE g < 4  BY <1>1, <1>2 DEF BufferSize, RoomOf
  <1>3. CASE g >= 4
    <2>1. number[2] = params.loops
      <3>1. Len(number) = 4  BY <1>1, <1>3 DEF Strings, Minimum
      <3>2. number[2] = Numbers(params)[2]  BY <3>1 DEF InPlace
      <3> QED  BY <3>2 DEF Numbers
    <2>2. (g - 4) % 3 = 2 <=> (g + 1 - 4) % 3 = 0  BY <1>3
    <2> QED  BY <1>1, <1>3, <2>1, <2>2 DEF BufferSize, RoomOf
  <1> QED  BY <1>1, <1>2, <1>3

\* A step of the master in place: one more character, or the whole message.
LEMMA ReadInPlace ==
  ASSUME ReportInv, Fits, Read,
         NEW m, m = Len(got) + 1, NEW k, k = Len(array) + 1
  PROVE  /\ m \in 1..Len(messages) /\ k \in 1..Len(messages[m])
         /\ \/ /\ k < Len(messages[m])
               /\ array' = Append(array, messages[m][k]) /\ rpos' = <<m, k + 1>>
               /\ got' = got /\ number' = number
            \/ /\ k = Len(messages[m]) /\ m < wpos[1]
               /\ array' = <<>> /\ rpos' = <<m + 1, 1>>
               /\ got' = Append(got, Content(m))
               /\ number' = IF m <= 4 THEN Append(number, Numbers(params)[m]) ELSE number
  <1>1. Queued /\ Positions /\ Strings /\ InPlace  BY DEF ReportInv
  <1>2. rpos = <<m, k>>  BY <1>1 DEF InPlace
  <1>3. /\ m \in 1..Len(messages) /\ k \in 1..Len(messages[m])
        /\ k = Len(messages[m]) => m < wpos[1]
    BY <1>1, <1>2, ReadAt DEF Read
  <1>4. PICK s : s = messages[m]  OBVIOUS
  <1>5. PICK L \in Nat \ {0} : L = Len(s)  BY <1>1, <1>3, <1>4, QueuedShape
  <1>6. Shape(s)  BY <1>1, <1>3, <1>4, QueuedShape
  <1>7. s[L] = LIMITER /\ L <= RoomOf(m)
    BY <1>1, <1>3, <1>4, <1>5, QueuedShape DEF Fits
  <1>8. BufferSize = RoomOf(m)  BY <1>1, BufferInPlace
  <1>9. RoomOf(m) \in Int
    <2>1. params.quantity \in Nat /\ params.loops \in Nat
      <3>1. params.quantity \in Quantities /\ params.loops \in Loops
        BY <1>1 DEF Queued, Slaves
      <3> QED  BY <3>1, ParamAssumption
    <2>2. PICK n \in Nat : n = IF (m - 4) % 3 = 0 THEN params.quantity ELSE params.loops
      BY <2>1
    <2>3. Room \in Int /\ RowSize * n \in Int  BY SizeAssumption
    <2> QED  BY <2>2, <2>3 DEF RoomOf
  <1>10. rpos' = IF k < L THEN <<m, k + 1>> ELSE <<m + 1, 1>>
    BY <1>2, <1>4, <1>5 DEF Read, After
  <1>11. CASE k < L
    <2>1. s[k] # LIMITER  BY <1>3, <1>5, <1>6, <1>11 DEF Shape
    <2>2. Len(array) + 1 < BufferSize  BY <1>7, <1>8, <1>9, <1>3, <1>11
    <2>3. array' = Append(array, s[k]) /\ got' = got /\ number' = number
      BY <1>2, <1>4, <2>1, <2>2 DEF Read
    <2> QED  BY <1>3, <1>4, <1>5, <1>10, <1>11, <2>3
  <1>12. CASE k = L
    <2>1. s[k] = LIMITER  BY <1>7, <1>12
    <2>2. Return(array)  BY <1>2, <1>4, <2>1 DEF Read
    <2>3. s \in Seq(Nat) /\ array \in Seq(Nat) /\ Len(array) = L - 1
      BY <1>1, <1>6, <1>12 DEF Shape, Strings
    <2>4. \A i \in 1..Len(array) : array[i] = s[i]  BY <1>1, <1>4 DEF InPlace
    <2>5. Append(array, LIMITER) = s
      <3>1. LIMITER \in Nat  BY DEF LIMITER
      <3>2. PICK a : a = Append(array, LIMITER)  OBVIOUS
      <3>3. /\ a \in Seq(Nat) /\ Len(a) = L /\ a[L] = LIMITER
            /\ \A i \in 1..(L - 1) : a[i] = array[i]
        BY <2>3, <3>1, <3>2, AppendProperties
      <3>4. ASSUME NEW i \in 1..L PROVE a[i] = s[i]
        <4>1. CASE i = L  BY <1>7, <3>3, <4>1
        <4>2. CASE i # L
          <5>1. i \in 1..(L - 1)  BY <4>2
          <5> QED  BY <2>3, <2>4, <3>3, <5>1
        <4> QED  BY <4>1, <4>2
      <3> QED  BY <1>5, <2>3, <3>2, <3>3, <3>4, SeqEqual
    <2>6. array = Content(m)
      <3>1. PICK c : c = SubSeq(s, 1, L - 1)  OBVIOUS
      <3>2. \A i \in 1..(L - 1) : s[i] \in Nat  BY <1>5, <2>3
      <3>3. c \in Seq(Nat) /\ Len(c) = L - 1 /\ \A i \in 1..(L - 1) : c[i] = s[i]
        BY <1>5, <3>1, <3>2, SubSeqProperties
      <3>4. \A i \in 1..Len(array) : array[i] = c[i]  BY <2>3, <2>4, <3>3
      <3>5. array = c  BY <2>3, <3>3, <3>4, SeqEqual
      <3> QED  BY <1>4, <1>5, <3>1, <3>5 DEF Content
    <2>7. got' = Append(got, array) /\ array' = <<>>  BY <2>2 DEF Return
    <2>8. number' = IF m <= 4 THEN Append(number, Numbers(params)[m]) ELSE number
      BY <1>4, <2>2, <2>5 DEF Return
    <2> QED  BY <1>3, <1>4, <1>5, <1>10, <1>12, <2>6, <2>7, <2>8
  <1> QED  BY <1>3, <1>4, <1>5, <1>11, <1>12

\* A step of either leaves the master behind the slave.
LEMMA PositionsStep ==
  ASSUME Queued, Positions, Next
  PROVE  Queued' /\ Positions'
  <1>1. UNCHANGED <<params, messages>>  BY DEF Next, Write, Read
  <1>2. \A pos : Position(pos) <=> Position(pos)'
    BY <1>1 DEF Position
  <1>3. PICK m \in Nat \ {0}, k \in Nat \ {0} : rpos = <<m, k>>
    BY DEF Positions, Position
  <1>4. PICK n \in Nat \ {0}, l \in Nat \ {0} : wpos = <<n, l>>
    BY DEF Positions, Position
  <1>5. m < n \/ (m = n /\ k <= l)  BY <1>3, <1>4 DEF Positions
  <1>6. CASE Write
    <2>1. wpos' = After(wpos) /\ rpos' = rpos /\ n <= Len(messages)  BY <1>4, <1>6 DEF Write
    <2>2. /\ Position(wpos')
          /\ wpos' = IF l < Len(messages[n]) THEN <<n, l + 1>> ELSE <<n + 1, 1>>
      BY <1>4, <2>1, AfterPosition DEF Positions
    <2>3. Position(wpos)' /\ Position(rpos)'
      BY <1>1, <2>1, <2>2 DEF Positions, Position
    <2>4. rpos'[1] < wpos'[1] \/ (rpos'[1] = wpos'[1] /\ rpos'[2] <= wpos'[2])
      BY <1>3, <1>4, <1>5, <2>1, <2>2
    <2> QED  BY <1>1, <2>3, <2>4 DEF Positions, Queued
  <1>7. CASE Read
    <2>1. Arrived /\ rpos' = After(rpos) /\ wpos' = wpos  BY <1>7 DEF Read
    <2>2. /\ m \in 1..Len(messages) /\ k \in 1..Len(messages[m])
          /\ k = Len(messages[m]) => m < n
      BY <1>3, <1>4, <2>1, ReadAt
    <2>3. /\ Position(rpos')
          /\ rpos' = IF k < Len(messages[m]) THEN <<m, k + 1>> ELSE <<m + 1, 1>>
      BY <1>3, <2>1, <2>2, AfterPosition DEF Positions
    <2>4. Position(wpos)' /\ Position(rpos)'
      BY <1>1, <2>1, <2>3 DEF Positions, Position
    <2>5. <<m, k>> # <<n, l>>  BY <1>3, <1>4, <2>1 DEF Arrived
    <2>6. m < n \/ (m = n /\ k < l)
      <3>1. m # n \/ k # l  BY <2>5
      <3> QED  BY <1>3, <1>4, <1>5, <3>1
    <2>7. PICK L \in Nat : L = Len(messages[m])  BY <2>2, QueuedShape
    <2>8. rpos'[1] < wpos'[1] \/ (rpos'[1] = wpos'[1] /\ rpos'[2] <= wpos'[2])
      <3>1. CASE k < L  BY <1>3, <1>4, <2>1, <2>3, <2>6, <2>7, <3>1
      <3>2. CASE ~(k < L)
        <4>1. m < n  BY <2>2, <2>7, <3>2
        <4> QED  BY <1>3, <1>4, <2>1, <2>3, <2>7, <3>2, <4>1
      <3> QED  BY <3>1, <3>2
    <2> QED  BY <1>1, <2>4, <2>8 DEF Positions, Queued
  <1> QED  BY <1>6, <1>7 DEF Next

LEMMA StringsStep ==
  ASSUME Queued, Positions, Strings, Next
  PROVE  Strings'
  <1>1. CASE Write  BY <1>1 DEF Write, Strings
  <1>2. CASE Read
    <2>1. PICK c : c = messages[rpos[1]][rpos[2]]  OBVIOUS
    <2>2. c \in Nat
      <3>1. PICK s : s = messages[rpos[1]]  OBVIOUS
      <3>2. s \in Seq(Nat) /\ rpos[2] \in 1..Len(s)
        BY <1>2, <3>1, ReadAt, QueuedShape DEF Read, Shape
      <3> QED  BY <2>1, <3>1, <3>2
    <2>3. PICK g \in Nat : g = Len(got)  BY DEF Strings
    <2>4. CASE array' = Append(array, c) /\ UNCHANGED <<got, number>>
      BY <2>2, <2>4 DEF Strings
    <2>5. CASE Return(array)
      <3>1. got' = Append(got, array) /\ array' = <<>>  BY <2>5 DEF Return
      <3>2. got' \in Seq(Seq(Nat)) /\ Len(got') = g + 1  BY <2>3, <3>1 DEF Strings
      <3>3. array' \in Seq(Nat)  BY <3>1
      <3>4. CASE g + 1 <= 4
        <4>1. PICK n : /\ number' = Append(number, n)
                       /\ n = Numbers(params)[g + 1] \/ n \in 0..MaxNumber
          BY <2>3, <2>5, <3>4 DEF Return
        <4>2. Numbers(params)[g + 1] \in Nat
          <5>1. /\ params.nSwitches \in Switches /\ params.loops \in Loops
                /\ params.mode \in {0, 1} /\ params.testRange \in {0, 1}
            BY DEF Queued, Slaves
          <5>2. params.nSwitches \in Nat /\ params.loops \in Nat  BY <5>1, ParamAssumption
          <5> QED  BY <3>4, <5>1, <5>2 DEF Numbers
        <4>3. n \in Nat  BY <4>1, <4>2, ParamAssumption
        <4>4. number' \in Seq(Nat) /\ Len(number') = Len(number) + 1
          BY <4>1, <4>3, AppendProperties DEF Strings
        <4> QED  BY <2>3, <3>2, <3>3, <3>4, <4>4 DEF Strings, Minimum
      <3>5. CASE g + 1 > 4
        <4>1. number' = number  BY <2>3, <2>5, <3>5 DEF Return
        <4> QED  BY <2>3, <3>2, <3>3, <3>5, <4>1 DEF Strings, Minimum
      <3> QED  BY <3>4, <3>5
    <2> QED  BY <1>2, <2>1, <2>4, <2>5 DEF Read
  <1> QED  BY <1>1, <1>2 DEF Next

LEMMA InPlaceStep ==
  ASSUME ReportInv, Fits, Next
  PROVE  InPlace'
  <1>1. Queued /\ Positions /\ Strings /\ InPlace  BY DEF ReportInv
  <1>2. UNCHANGED <<params, messages>>  BY DEF Next, Write, Read
  <1>3. \A i : Content(i)' = Content(i)  BY <1>2 DEF Content
  <1>4. CASE Write  BY <1>1, <1>2, <1>3, <1>4 DEF Write, InPlace
  <1>5. CASE Read
    <2>1. PICK m \in Nat \ {0} : m = Len(got) + 1  BY <1>1 DEF Strings
    <2>2. PICK k \in Nat \ {0} : k = Len(array) + 1  BY <1>1 DEF Strings
    <2>3. Len(number) = IF m <= 4 THEN m - 1 ELSE 4
      BY <1>1, <2>1 DEF Strings, Minimum
    <2>4. /\ m \in 1..Len(messages) /\ k \in 1..Len(messages[m])
          /\ \/ /\ k < Len(messages[m])
                /\ array' = Append(array, messages[m][k]) /\ rpos' = <<m, k + 1>>
                /\ got' = got /\ number' = number
             \/ /\ array' = <<>> /\ rpos' = <<m + 1, 1>>
                /\ got' = Append(got, Content(m))
                /\ number' = IF m <= 4 THEN Append(number, Numbers(params)[m]) ELSE number
      BY <1>5, <2>1, <2>2, ReadInPlace
    <2>5. ASSUME array' = Append(array, messages[m][k]), rpos' = <<m, k + 1>>,
                 got' = got, number' = number
          PROVE  InPlace'
      <3>1. PICK c : c = messages[m][k]  OBVIOUS
      <3>2. PICK s : s = messages[m]  OBVIOUS
      <3>3. \A i \in 1..(k - 1) : array[i] = s[i]  BY <1>1, <2>1, <2>2, <3>2 DEF InPlace
      <3>4. /\ Len(array') = k /\ array'[k] = c /\ \A i \in 1..(k - 1) : array'[i] = array[i]
        BY <1>1, <2>2, <2>5, <3>1 DEF Strings
      <3>5. ASSUME NEW i \in 1..k PROVE array'[i] = s[i]
        <4>1. CASE i = k  BY <3>1, <3>2, <3>4, <4>1
        <4>2. CASE i # k
          <5>1. i \in 1..(k - 1)  BY <2>2, <4>2
          <5> QED  BY <3>3, <3>4, <5>1
        <4> QED  BY <4>1, <4>2
      <3>6. \A i \in 1..Len(array') : array'[i] = messages'[Len(got') + 1][i]
        BY <1>2, <2>1, <2>5, <3>2, <3>4, <3>5
      <3>7. \A i \in 1..Len(got') : got'[i] = Content(i)'
        BY <1>1, <1>3, <2>5 DEF InPlace
      <3>8. \A i \in 1..Len(number') : number'[i] = Numbers(params')[i]
        BY <1>1, <1>2, <2>5 DEF InPlace
      <3>9. rpos' = <<Len(got') + 1, Len(array') + 1>>  BY <2>1, <2>5, <3>4
      <3> QED  BY <3>6, <3>7, <3>8, <3>9 DEF InPlace
    <2>6. ASSUME array' = <<>>, rpos' = <<m + 1, 1>>, got' = Append(got, Content(m)),
                 number' = IF m <= 4 THEN Append(number, Numbers(params)[m]) ELSE number
          PROVE  InPlace'
      <3>1. /\ Len(got') = m /\ got'[m] = Content(m)
            /\ \A i \in 1..(m - 1) : got'[i] = got[i]
        BY <1>1, <2>1, <2>6 DEF Strings
      <3>2. ASSUME NEW i \in 1..m PROVE got'[i] = Content(i)'
        <4>1. CASE i = m  BY <1>3, <3>1, <4>1
        <4>2. CASE i # m
          <5>1. i \in 1..(m - 1)  BY <2>1, <4>2
          <5>2. got[i] = Content(i)  BY <1>1, <2>1, <5>1 DEF InPlace
          <5> QED  BY <1>3, <3>1, <5>1, <5>2
        <4> QED  BY <4>1, <4>2
      <3>3. ASSUME NEW i \in 1..Len(number') PROVE number'[i] = Numbers(params)[i]
        <4>1. CASE m <= 4
          <5>1. PICK n : n = Numbers(params)[m]  OBVIOUS
          <5>2. /\ Len(number') = m /\ number'[m] = n
                /\ \A x \in 1..(m - 1) : number'[x] = number[x]
            BY <1>1, <2>1, <2>3, <2>6, <4>1, <5>1 DEF Strings
          <5>3. CASE i = m  BY <5>1, <5>2, <5>3
          <5>4. CASE i # m
            <6>1. i \in 1..(m - 1)  BY <2>1, <5>2, <5>4
            <6>2. number[i] = Numbers(params)[i]  BY <1>1, <2>3, <4>1, <6>1 DEF InPlace
            <6> QED  BY <5>2, <6>1, <6>2
          <5> QED  BY <5>3, <5>4
        <4>2. CASE ~(m <= 4)  BY <1>1, <2>6, <4>2 DEF InPlace
        <4> QED  BY <4>1, <4>2
      <3>4. rpos' = <<Len(got') + 1, Len(array') + 1>> /\ Len(array') = 0
        BY <2>1, <2>6, <3>1
      <3> QED  BY <1>2, <3>1, <3>2, <3>3, <3>4 DEF InPlace
    <2> QED  BY <2>4, <2>5, <2>6
  <1> QED  BY <1>4, <1>5 DEF Next

LEMMA ReportStep == ReportInv /\ [Next]_vars => ReportInv'
  <1> SUFFICES ASSUME ReportInv, [Next]_vars PROVE ReportInv'
    OBVIOUS
  <1>1. CASE UNCHANGED vars
    BY <1>1
    DEF vars, ReportInv, Queued, Positions, Position, Strings, InPlace, Fits, RoomOf, Content
  <1>2. CASE Next
    <2>1. Fits' <=> Fits  BY <1>2 DEF Next, Write, Read, Fits, RoomOf
    <2> QED
      BY <1>2, <2>1, PositionsStep, StringsStep, InPlaceStep DEF ReportInv
  <1> QED  BY <1>1, <1>2

LEMMA ReportSteps == [NextPlotting]_<<vars, plotVars>> => [Next]_vars
  BY DEF NextPlotting

\* The invariant of the report, on which the theorems of this part rest.
THEOREM ReportInvariant == SpecPlotting => []ReportInv
  <1>1. InitPlotting => ReportInv  BY ReportInit DEF InitPlotting
  <1>2. ReportInv /\ [NextPlotting]_<<vars, plotVars>> => ReportInv'
    BY ReportStep, ReportSteps
  <1> QED  BY <1>1, <1>2, PTL DEF SpecPlotting

\* What the master reads, one message after the other, is what the slave queued,
\* if every message still has its LIMITER and fits the buffer of its call.
THEOREM MasterInStep == SpecPlotting => []InStep
  <1>1. ReportInv => InStep
    <2> SUFFICES ASSUME ReportInv, Fits, NEW i \in DOMAIN got
                 PROVE  Append(got[i], LIMITER) = messages[i]
      BY DEF InStep
    <2>1. Queued /\ Positions /\ Strings /\ InPlace  BY DEF ReportInv
    <2>2. i \in 1..Len(got) /\ i \in 1..Len(messages)
      <3>1. i \in 1..Len(got)  BY <2>1 DEF Strings
      <3>2. Len(got) + 1 <= Len(messages) + 1  BY <2>1 DEF InPlace, Positions, Position
      <3> QED  BY <2>1, <3>1, <3>2, QueuedShape DEF Strings
    <2>3. PICK s : s = messages[i]  OBVIOUS
    <2>4. PICK L \in Nat \ {0} : L = Len(s)  BY <2>1, <2>2, <2>3, QueuedShape
    <2>5. s \in Seq(Nat) /\ s[L] = LIMITER
      BY <2>1, <2>2, <2>3, <2>4, QueuedShape DEF Shape, Fits
    <2>6. PICK c : c = SubSeq(s, 1, L - 1)  OBVIOUS
    <2>7. got[i] = c  BY <2>1, <2>2, <2>3, <2>4, <2>6 DEF InPlace, Content
    <2>8. c \o <<s[L]>> = s  BY <2>4, <2>5, <2>6, SubSeqRecursiveSecond, SubSeqFull
    <2>9. c \in Seq(Nat) /\ LIMITER \in Nat
      <3>1. \A k \in 1..(L - 1) : s[k] \in Nat  BY <2>4, <2>5
      <3> QED  BY <2>4, <2>6, <3>1, SubSeqProperties DEF LIMITER
    <2>10. Append(c, LIMITER) = c \o <<LIMITER>>  BY <2>9, AppendIsConcat
    <2> QED  BY <2>3, <2>5, <2>7, <2>8, <2>10
  <1> QED  BY <1>1, ReportInvariant, PTL

\* The characters implement the channel of whole messages: the slave's last
\* character of a message sends it, the master's last one receives it, and every
\* other step is invisible.
THEOREM ReportImplementsChannel == SpecPlotting => Implements
  <1>1. InitPlotting => (Fits => C!Init)
    <2> SUFFICES ASSUME Init PROVE C!Init
      BY DEF InitPlotting
    <2>1. wpos = <<1, 1>> /\ got = <<>>  BY DEF Init
    <2> QED  BY <2>1 DEF C!Init
  <1>2. ReportInv /\ [Next]_vars => [Fits => C!Next]_(C!vars)
    <2> SUFFICES ASSUME ReportInv, [Next]_vars, Fits PROVE C!Next \/ UNCHANGED C!vars
      OBVIOUS
    <2>1. Queued /\ Positions /\ Strings /\ InPlace  BY DEF ReportInv
    <2>2. PICK channel : channel = [i \in DOMAIN messages |-> Content(i)]  OBVIOUS
    <2>3. PICK N \in Nat : /\ N = Len(messages) /\ DOMAIN messages = 1..N
      BY <2>1, QueuedShape
    <2>4. Len(channel) = N /\ \A i \in 1..N : channel[i] = Content(i)  BY <2>2, <2>3
    <2>5. PICK n \in Nat \ {0}, l \in Nat \ {0} : wpos = <<n, l>>
      BY <2>1 DEF Positions, Position
    <2>6. CASE UNCHANGED vars
      BY <2>6 DEF vars, C!vars, Content
    <2>7. CASE Write
      <3>1. /\ UNCHANGED <<messages, got>> /\ wpos' = After(wpos) /\ n <= N
        BY <2>3, <2>5, <2>7 DEF Write
      <3>2. [i \in DOMAIN messages |-> Content(i)]' = channel
        BY <2>2, <3>1 DEF Content
      <3>3. wpos' = IF l < Len(messages[n]) THEN <<n, l + 1>> ELSE <<n + 1, 1>>
        BY <2>5, <3>1 DEF After
      <3>4. CASE l < Len(messages[n])  BY <2>2, <2>5, <3>1, <3>2, <3>3, <3>4 DEF C!vars
      <3>5. CASE ~(l < Len(messages[n]))
        BY <2>2, <2>3, <2>4, <2>5, <3>1, <3>2, <3>3, <3>5 DEF C!Next, C!Send
      <3> QED  BY <3>4, <3>5
    <2>8. CASE Read
      <3>1. PICK m \in Nat \ {0} : m = Len(got) + 1  BY <2>1 DEF Strings
      <3>2. /\ m \in 1..N
            /\ \/ got' = got
               \/ m < wpos[1] /\ got' = Append(got, Content(m))
        BY <2>3, <2>8, <3>1, ReadInPlace
      <3>3. UNCHANGED <<messages, wpos>>  BY <2>8 DEF Read
      <3>4. [i \in DOMAIN messages |-> Content(i)]' = channel
        BY <2>2, <3>3 DEF Content
      <3>5. CASE got' = got  BY <2>2, <3>3, <3>4, <3>5 DEF C!vars
      <3>6. CASE m < wpos[1] /\ got' = Append(got, Content(m))
        <4>1. Len(got) < wpos[1] - 1  BY <2>5, <3>1, <3>6
        <4>2. got' = Append(got, channel[Len(got) + 1])  BY <2>4, <3>1, <3>2, <3>6
        <4> QED  BY <2>2, <3>3, <3>4, <4>1, <4>2 DEF C!Next, C!Receive
      <3> QED  BY <3>2, <3>5, <3>6
    <2> QED  BY <2>6, <2>7, <2>8 DEF Next
  <1> QED  BY <1>1, <1>2, ReportSteps, ReportInvariant, PTL DEF SpecPlotting, Implements

-----------------------------------------------------------------------------
(* The sessions: what gnuplot reads, and what it leaves *)

Files == Graphs \X Nat
Commands == [op : {"output"}] \cup [op : {"plot", "replot"}, file : Files]

Sessions ==
    /\ G!TypeOK
    /\ pipe \in [Graphs -> Seq(Commands)]
    /\ shown \in [Graphs -> Seq(Files)]
    /\ chart \in [Graphs -> Seq(Seq(Files))]

Names(g) == {tbl[g][i] : i \in DOMAIN tbl[g]}

\* A file of the chart that is there and complete.
Whole(g, f) == f[1] = g /\ f \in files /\ f \in filled

\* The files of the commands that gnuplot has not read.
Asked(g) ==
    \A i \in 1..Len(pipe[g]) : pipe[g][i].op # "output" => Whole(g, pipe[g][i].file)

\* While its process runs, a session's files are there: those that gnuplot shows
\* and those of the commands it has not read; and the one that is being made.
Readable(g) ==
    /\ \A f \in Names(g) : f[1] = g
    /\ pc[g] = "init" => shown[g] = <<>> /\ pipe[g] = <<>>
    /\ process[g] = "running" =>
          /\ \A i \in 1..Len(shown[g]) : Whole(g, shown[g][i])
          /\ Asked(g)
    /\ pc[g] = "fill" => <<g, curve[g]>> \in files
    /\ pc[g] = "plot" => Whole(g, <<g, curve[g]>>)

\* A file belongs to a session that has its name and is not closed, or was not
\* closed well.
Named(f) == f[1] \in leaked \/ (pc[f[1]] # "closed" /\ f \in Names(f[1]))

GnuplotInv ==
    /\ Sessions
    /\ \A g \in Graphs : Readable(g)
    /\ \A f \in files : Named(f)

LEMMA CommandType ==
  ASSUME NEW c \in Commands
  PROVE  /\ c.op \in {"output", "plot", "replot"}
         /\ c.op # "output" => c.file \in Files
  BY DEF Commands

\* What a command writes.
LEMMA CmdType ==
  ASSUME Sessions, NEW g \in Graphs, NEW c \in Commands, G!Cmd(g, c)
  PROVE  pipe' \in [Graphs -> Seq(Commands)] /\ crashed' \in BOOLEAN
  <1>1. CASE /\ process[g] = "running" /\ pipe' = G!Of(pipe, g, Append(pipe[g], c))
             /\ UNCHANGED crashed
    <2>1. Append(pipe[g], c) \in Seq(Commands)  BY DEF Sessions
    <2>2. pipe' \in [Graphs -> Seq(Commands)]  BY <1>1, <2>1 DEF Sessions, G!Of
    <2>3. crashed' \in BOOLEAN  BY <1>1 DEF Sessions, G!TypeOK
    <2> QED  BY <2>2, <2>3
  <1>2. CASE crashed' = TRUE /\ UNCHANGED pipe
    BY <1>2 DEF Sessions
  <1> QED  BY <1>1, <1>2 DEF G!Cmd

LEMMA NextCurveType ==
  ASSUME Sessions, NEW g \in Graphs, G!NextCurve(g)
  PROVE  /\ pc' \in [Graphs -> {"init", "output", "tmpfile", "fill", "plot", "close", "closed"}]
         /\ curve' \in [Graphs -> Nat \ {0}]
  <1>1. PICK next \in {"output", "close"} : pc' = [pc EXCEPT ![g] = next]
    BY DEF G!NextCurve, G!Of
  <1> QED  BY <1>1 DEF G!NextCurve, G!Of, Sessions, G!TypeOK

LEMMA GnuplotInit == G!Init => GnuplotInv
  <1> SUFFICES ASSUME G!Init PROVE GnuplotInv
    OBVIOUS
  <1>1. Sessions
    <2>1. G!TypeOK
      <3>1. <<>> \in Seq(Graphs \X Nat)  OBVIOUS
      <3>2. tbl \in [Graphs -> Seq(Graphs \X Nat)]  BY <3>1 DEF G!Init
      <3>3. pc \in [Graphs -> {"init", "output", "tmpfile", "fill", "plot", "close", "closed"}]
        BY DEF G!Init
      <3>4. process \in [Graphs -> {"none", "running", "exited", "dead"}]  BY DEF G!Init
      <3>5. curve \in [Graphs -> Nat \ {0}] /\ nplots \in [Graphs -> Nat]  BY DEF G!Init
      <3>6. files = {} /\ filled = {} /\ failed = {} /\ leaked = {} /\ crashed = FALSE
        BY DEF G!Init
      <3> QED  BY <3>2, <3>3, <3>4, <3>5, <3>6 DEF G!TypeOK
    <2>2. /\ <<>> \in Seq(Commands) /\ <<>> \in Seq(Files) /\ <<>> \in Seq(Seq(Files))
      OBVIOUS
    <2>3. pipe \in [Graphs -> Seq(Commands)]  BY <2>2 DEF G!Init
    <2>4. shown \in [Graphs -> Seq(Files)]  BY <2>2 DEF G!Init
    <2>5. chart \in [Graphs -> Seq(Seq(Files))]  BY <2>2 DEF G!Init
    <2> QED  BY <2>1, <2>3, <2>4, <2>5 DEF Sessions
  <1>2. ASSUME NEW g \in Graphs PROVE Readable(g)
    BY DEF G!Init, Readable, Names
  <1>3. files = {}  BY DEF G!Init
  <1> QED  BY <1>1, <1>2, <1>3 DEF GnuplotInv

LEMMA SessionsStep ==
  ASSUME Sessions, NEW g \in Graphs, G!Program(g) \/ G!Process(g) \/ G!Dies(g)
  PROVE  Sessions'
  <1> USE DEF G!Of
  <1>1. CASE G!GnuplotInit(g)
    BY <1>1 DEF G!GnuplotInit, Sessions, G!TypeOK, G!session, G!disk, G!history
  <1>2. CASE G!InitFails(g)
    BY <1>2 DEF G!InitFails, Sessions, G!TypeOK, G!session, G!disk, G!gnuplot
  <1>3. CASE G!NoName(g)
    BY <1>3 DEF G!NoName, Sessions, G!TypeOK, G!session, G!disk, G!gnuplot
  <1>4. CASE G!SetOutput(g)
    <2>1. pipe' \in [Graphs -> Seq(Commands)] /\ crashed' \in BOOLEAN
      <3>1. CASE UNCHANGED <<pipe, crashed>>  BY <3>1 DEF Sessions, G!TypeOK
      <3>2. CASE G!Cmd(g, [op |-> "output"])
        <4>1. [op |-> "output"] \in Commands  BY DEF Commands
        <4> QED  BY <3>2, <4>1, CmdType
      <3> QED  BY <1>4, <3>1, <3>2 DEF G!SetOutput
    <2> QED  BY <1>4, <2>1 DEF G!SetOutput, Sessions, G!TypeOK, G!disk, G!gnuplot
  <1>5. CASE G!Tmpfile(g)
    <2>1. <<g, curve[g]>> \in Graphs \X Nat  BY DEF Sessions, G!TypeOK
    <2>2. Append(tbl[g], <<g, curve[g]>>) \in Seq(Graphs \X Nat)
      BY <2>1 DEF Sessions, G!TypeOK
    <2> QED
      BY <1>5, <2>1, <2>2 DEF G!Tmpfile, Sessions, G!TypeOK, G!gnuplot, G!history
  <1>6. CASE G!TmpfileRefused(g)
    BY <1>6, NextCurveType
    DEF G!TmpfileRefused, Sessions, G!TypeOK, G!session, G!disk, G!gnuplot,
        G!history
  <1>7. CASE G!FileFails(g)
    BY <1>7, NextCurveType
    DEF G!FileFails, Sessions, G!TypeOK, G!session, G!disk, G!gnuplot
  <1>8. CASE G!Fill(g)
    <2>1. <<g, curve[g]>> \in Graphs \X Nat  BY DEF Sessions, G!TypeOK
    <2> QED
      BY <1>8, <2>1 DEF G!Fill, Sessions, G!TypeOK, G!session, G!gnuplot, G!history
  <1>9. CASE G!Plot(g)
    <2>1. <<g, curve[g]>> \in Files  BY DEF Sessions, G!TypeOK, Files
    <2>2. PICK c : c = [op |-> IF nplots[g] > 0 THEN "replot" ELSE "plot",
                        file |-> <<g, curve[g]>>]
      OBVIOUS
    <2>3. c \in Commands  BY <2>1, <2>2 DEF Commands
    <2>4. pipe' \in [Graphs -> Seq(Commands)] /\ crashed' \in BOOLEAN
      BY <1>9, <2>2, <2>3, CmdType DEF G!Plot
    <2> QED
      <3>1. nplots' \in [Graphs -> Nat]  BY <1>9 DEF G!Plot, Sessions, G!TypeOK
      <3>2. UNCHANGED <<tbl, process, shown, chart, files, filled, failed, leaked>>
        BY <1>9 DEF G!Plot, G!disk, G!gnuplot
      <3>3. G!NextCurve(g)  BY <1>9 DEF G!Plot
      <3>4. /\ pc' \in [Graphs -> {"init", "output", "tmpfile", "fill", "plot", "close", "closed"}]
            /\ curve' \in [Graphs -> Nat \ {0}]
        BY <3>3, NextCurveType
      <3> QED  BY <2>4, <3>1, <3>2, <3>4 DEF Sessions, G!TypeOK
  <1>10. CASE G!GnuplotClose(g)
    BY <1>10
    DEF G!GnuplotClose, Sessions, G!TypeOK, G!session, G!gnuplot, G!history
  <1>11. CASE G!CloseFails(g)
    BY <1>11
    DEF G!CloseFails, Sessions, G!TypeOK, G!session, G!gnuplot, G!disk
  <1>12. CASE G!Execute(g)
    <2>1. PICK c : c = Head(pipe[g])  OBVIOUS
    <2>2. PICK now : now = CASE c.op = "output" -> shown[g]
                             [] c.op = "plot"   -> <<c.file>>
                             [] c.op = "replot" -> Append(shown[g], c.file)
      OBVIOUS
    <2>3. /\ c \in Commands /\ Tail(pipe[g]) \in Seq(Commands)
      BY <1>12, <2>1 DEF G!Execute, Sessions
    <2>4. shown[g] \in Seq(Files) /\ chart[g] \in Seq(Seq(Files))  BY DEF Sessions
    <2>5. now \in Seq(Files)
      <3>1. CASE c.op = "output"  BY <2>2, <2>4, <3>1
      <3>2. CASE c.op = "plot"  BY <2>2, <2>3, <3>2, CommandType
      <3>3. CASE c.op = "replot"  BY <2>2, <2>3, <2>4, <3>3, CommandType
      <3> QED  BY <2>3, <3>1, <3>2, <3>3, CommandType
    <2>6. Append(chart[g], now) \in Seq(Seq(Files))  BY <2>4, <2>5
    <2>7. /\ shown' = G!Of(shown, g, now)
          /\ chart' = G!Of(chart, g, IF c.op = "output" THEN <<>> ELSE Append(chart[g], now))
          /\ pipe' = G!Of(pipe, g, Tail(pipe[g]))
      BY <1>12, <2>1, <2>2 DEF G!Execute
    <2>8. /\ shown' \in [Graphs -> Seq(Files)] /\ pipe' \in [Graphs -> Seq(Commands)]
          /\ chart' \in [Graphs -> Seq(Seq(Files))]
      <3>1. PICK image \in Seq(Seq(Files)) : chart' = G!Of(chart, g, image)
        <4>0. <<>> \in Seq(Seq(Files))  OBVIOUS
        <4>1. CASE c.op = "output"  BY <2>7, <4>0, <4>1
        <4>2. CASE c.op # "output"  BY <2>6, <2>7, <4>2
        <4> QED  BY <4>1, <4>2
      <3> QED  BY <2>3, <2>5, <2>7, <3>1 DEF Sessions
    <2> QED
      BY <1>12, <2>8 DEF G!Execute, Sessions, G!TypeOK, G!disk, G!history
  <1>13. CASE G!ExitGnuplot(g)
    BY <1>13 DEF G!ExitGnuplot, Sessions, G!TypeOK, G!session, G!disk, G!history
  <1>14. CASE G!Dies(g)
    BY <1>14 DEF G!Dies, Sessions, G!TypeOK, G!session, G!disk
  <1> QED
    BY <1>1, <1>2, <1>3, <1>4, <1>5, <1>6, <1>7, <1>8, <1>9, <1>10, <1>11, <1>12, <1>13, <1>14
    DEF G!Program, G!Process

\* A step of one session leaves the others alone, and their files.
LEMMA Elsewhere ==
  ASSUME Sessions, NEW g \in Graphs, G!Program(g) \/ G!Process(g) \/ G!Dies(g),
         \A f \in Names(g) : f[1] = g,
         NEW h \in Graphs, h # g
  PROVE  /\ pc'[h] = pc[h] /\ curve'[h] = curve[h] /\ tbl'[h] = tbl[h]
         /\ nplots'[h] = nplots[h] /\ pipe'[h] = pipe[h] /\ process'[h] = process[h]
         /\ shown'[h] = shown[h] /\ chart'[h] = chart[h]
         /\ \A f \in files : f[1] = h => f \in files'
         /\ filled \subseteq filled'
         /\ h \in failed' <=> h \in failed
         /\ h \in leaked' <=> h \in leaked
  <1> DEFINE Rest ==
               /\ pc'[h] = pc[h] /\ curve'[h] = curve[h] /\ tbl'[h] = tbl[h]
               /\ nplots'[h] = nplots[h] /\ pipe'[h] = pipe[h] /\ process'[h] = process[h]
               /\ shown'[h] = shown[h] /\ chart'[h] = chart[h]
               /\ \A f \in files : f[1] = h => f \in files'
               /\ filled \subseteq filled'
               /\ h \in failed' <=> h \in failed
               /\ h \in leaked' <=> h \in leaked
  <1> SUFFICES Rest
    OBVIOUS
  <1> USE DEF G!Of, G!session, G!gnuplot, G!disk, G!history
  <1>0. ASSUME NEW c, G!Cmd(g, c) PROVE pipe'[h] = pipe[h]
    <2>1. pipe' = G!Of(pipe, g, Append(pipe[g], c)) \/ pipe' = pipe  BY <1>0 DEF G!Cmd
    <2>2. DOMAIN pipe = Graphs  BY DEF Sessions
    <2> QED  BY <2>1, <2>2
  <1>1. CASE G!GnuplotInit(g)  BY <1>1 DEF G!GnuplotInit
  <1>2. CASE G!InitFails(g)  BY <1>2 DEF G!InitFails
  <1>3. CASE G!NoName(g)  BY <1>3 DEF G!NoName
  <1>4. CASE G!SetOutput(g)
    <2>1. pipe'[h] = pipe[h]  BY <1>0, <1>4 DEF G!SetOutput
    <2> QED  BY <1>4, <2>1 DEF G!SetOutput
  <1>5. CASE G!Tmpfile(g)
    <2>1. files \subseteq files'  BY <1>5 DEF G!Tmpfile
    <2> QED  BY <1>5, <2>1 DEF G!Tmpfile
  <1>6. CASE G!TmpfileRefused(g)  BY <1>6 DEF G!TmpfileRefused, G!NextCurve
  <1>7. CASE G!FileFails(g)  BY <1>7 DEF G!FileFails, G!NextCurve
  <1>8. CASE G!Fill(g)  BY <1>8 DEF G!Fill
  <1>9. CASE G!Plot(g)
    <2>1. pipe'[h] = pipe[h]  BY <1>0, <1>9 DEF G!Plot
    <2>2. pc'[h] = pc[h] /\ curve'[h] = curve[h]  BY <1>9 DEF G!Plot, G!NextCurve
    <2> QED  BY <1>9, <2>1, <2>2 DEF G!Plot
  <1>10. CASE G!GnuplotClose(g)
    <2>1. files' = files \ Names(g)  BY <1>10 DEF G!GnuplotClose, Names
    <2>2. \A f \in files : f[1] = h => f \in files'  BY <2>1
    <2> QED  BY <1>10, <2>2 DEF G!GnuplotClose
  <1>11. CASE G!CloseFails(g)  BY <1>11 DEF G!CloseFails
  <1>12. CASE G!Execute(g)  BY <1>12 DEF G!Execute
  <1>13. CASE G!ExitGnuplot(g)  BY <1>13 DEF G!ExitGnuplot
  <1>14. CASE G!Dies(g)  BY <1>14 DEF G!Dies
  <1> QED
    BY <1>1, <1>2, <1>3, <1>4, <1>5, <1>6, <1>7, <1>8, <1>9, <1>10, <1>11, <1>12, <1>13, <1>14
    DEF G!Program, G!Process

\* An element of a sequence that has grown, or lost its first.
LEMMA Appended ==
  ASSUME NEW S, NEW s \in Seq(S), NEW e \in S, NEW i \in 1..Len(Append(s, e))
  PROVE  \/ i \in 1..Len(s) /\ Append(s, e)[i] = s[i]
         \/ i = Len(s) + 1 /\ Append(s, e)[i] = e
  <1>1. PICK n \in Nat : n = Len(s)  OBVIOUS
  <1>2. Len(Append(s, e)) = n + 1  BY <1>1
  <1>3. i \in 1..(n + 1)  BY <1>2
  <1>4. CASE i = n + 1  BY <1>1, <1>4, AppendProperties
  <1>5. CASE i # n + 1
    <2>1. i \in 1..n  BY <1>3, <1>5
    <2> QED  BY <1>1, <2>1, AppendProperties
  <1> QED  BY <1>4, <1>5

LEMMA Dropped ==
  ASSUME NEW S, NEW s \in Seq(S), s # <<>>, NEW i \in 1..Len(Tail(s))
  PROVE  Tail(s)[i] = s[i + 1] /\ i + 1 \in 1..Len(s) /\ 1 \in 1..Len(s) /\ Head(s) = s[1]
  <1>1. PICK n \in Nat \ {0} : n = Len(s)  BY EmptySeq
  <1>2. Len(Tail(s)) = n - 1  BY <1>1, HeadTailProperties
  <1> QED  BY <1>1, <1>2, HeadTailProperties

\* Other sessions.
LEMMA ReadableElsewhere ==
  ASSUME GnuplotInv, NEW g \in Graphs, G!Program(g) \/ G!Process(g) \/ G!Dies(g),
         NEW h \in Graphs, h # g
  PROVE  Readable(h)'
  <1>1. Sessions /\ Readable(h) /\ \A f \in Names(g) : f[1] = g
    BY DEF GnuplotInv, Readable
  <1>2. /\ pc'[h] = pc[h] /\ curve'[h] = curve[h] /\ tbl'[h] = tbl[h]
        /\ pipe'[h] = pipe[h] /\ process'[h] = process[h] /\ shown'[h] = shown[h]
        /\ \A f \in files : f[1] = h => f \in files'
        /\ filled \subseteq filled'
    BY <1>1, Elsewhere
  <1>3. \A f : Whole(h, f) => Whole(h, f)'  BY <1>2 DEF Whole
  <1>6. Asked(h) => Asked(h)'  BY <1>2, <1>3 DEF Asked
  <1>4. Names(h)' = Names(h)  BY <1>2 DEF Names
  <1>5. <<h, curve[h]>> \in files => <<h, curve[h]>> \in files'  BY <1>2
  <1> QED  BY <1>1, <1>2, <1>3, <1>4, <1>5, <1>6 DEF Readable

\* A command whose file is there may be written.
LEMMA CmdReadable ==
  ASSUME Sessions, NEW g \in Graphs, Readable(g), NEW c \in Commands,
         c.op # "output" => Whole(g, c.file), G!Cmd(g, c),
         UNCHANGED <<files, filled, process>>
  PROVE  process'[g] = "running" => Asked(g)'
  <1>1. \A f : Whole(g, f)' <=> Whole(g, f)  BY DEF Whole
  <1>2. CASE pipe' = pipe  BY <1>1, <1>2 DEF Readable, Asked
  <1>3. CASE pipe' = G!Of(pipe, g, Append(pipe[g], c))
    <2>1. PICK p \in Seq(Commands) : p = pipe[g]  BY DEF Sessions
    <2>2. pipe'[g] = Append(p, c)  BY <1>3, <2>1 DEF G!Of, Sessions
    <2> SUFFICES ASSUME process[g] = "running", NEW i \in 1..Len(Append(p, c)),
                        Append(p, c)[i].op # "output"
                 PROVE  Whole(g, Append(p, c)[i].file)
      BY <1>1, <2>2 DEF Asked
    <2>3. CASE i \in 1..Len(p) /\ Append(p, c)[i] = p[i]
      BY <2>1, <2>3 DEF Readable, Asked
    <2>4. CASE Append(p, c)[i] = c  BY <2>4
    <2> QED  BY <2>1, <2>3, <2>4, Appended
  <1> QED  BY <1>2, <1>3 DEF G!Cmd

LEMMA ReadableStep ==
  ASSUME GnuplotInv, NEW g \in Graphs, G!Program(g) \/ G!Process(g) \/ G!Dies(g)
  PROVE  Readable(g)'
  <1>0. Sessions /\ Readable(g)  BY DEF GnuplotInv
  <1>a. /\ DOMAIN pc = Graphs /\ DOMAIN process = Graphs /\ DOMAIN tbl = Graphs
        /\ DOMAIN pipe = Graphs /\ DOMAIN shown = Graphs /\ DOMAIN curve = Graphs
    BY <1>0 DEF Sessions, G!TypeOK
  <1>b. <<g, curve[g]>> \in Files  BY <1>0 DEF Sessions, G!TypeOK, Files
  <1> USE DEF G!Of, G!session, G!gnuplot, G!disk, G!history
  <1>1. CASE G!GnuplotInit(g)
    <2>1. shown'[g] = <<>> /\ pipe'[g] = <<>>  BY <1>0, <1>1 DEF G!GnuplotInit, Readable
    <2>2. pc'[g] = "output" /\ Names(g)' = Names(g)
      BY <1>1, <1>a DEF G!GnuplotInit, Names
    <2> QED  BY <1>0, <2>1, <2>2 DEF Readable, Asked
  <1>2. CASE G!InitFails(g) \/ G!NoName(g)
    BY <1>0, <1>2 DEF G!InitFails, G!NoName, Readable, Asked, Names, Whole
  <1>3. CASE G!SetOutput(g)
    <2>1. pc'[g] = "tmpfile" /\ UNCHANGED <<tbl, shown, process, files, filled>>
      BY <1>3, <1>a DEF G!SetOutput
    <2>2. process'[g] = "running" => Asked(g)'
      <3>1. CASE pipe' = pipe  BY <1>0, <2>1, <3>1 DEF Readable, Asked, Whole
      <3>2. CASE G!Cmd(g, [op |-> "output"])
        <4>1. PICK c : c = [op |-> "output"]  OBVIOUS
        <4>2. c \in Commands /\ c.op = "output"  BY <4>1 DEF Commands
        <4> QED  BY <1>0, <2>1, <3>2, <4>1, <4>2, CmdReadable
      <3> QED  BY <1>3, <3>1, <3>2 DEF G!SetOutput
    <2>3. \A f : Whole(g, f)' <=> Whole(g, f)  BY <2>1 DEF Whole
    <2>4. Names(g)' = Names(g)  BY <2>1 DEF Names
    <2> QED  BY <1>0, <2>1, <2>2, <2>3, <2>4 DEF Readable
  <1>4. CASE G!Tmpfile(g)
    <2>1. /\ pc'[g] = "fill" /\ UNCHANGED <<curve, pipe, shown, process, filled>>
          /\ files' = files \cup {<<g, curve[g]>>}
          /\ tbl'[g] = Append(tbl[g], <<g, curve[g]>>)
      BY <1>4, <1>a DEF G!Tmpfile
    <2>2. \A f : Whole(g, f) => Whole(g, f)'  BY <2>1 DEF Whole
    <2>3. \A f \in Names(g)' : f[1] = g
      <3> SUFFICES ASSUME NEW i \in DOMAIN tbl'[g] PROVE tbl'[g][i][1] = g
        BY DEF Names
      <3>1. PICK t \in Seq(Files) : t = tbl[g]
        BY <1>0 DEF Sessions, G!TypeOK, Files
      <3>2. i \in 1..Len(Append(t, <<g, curve[g]>>))  BY <1>b, <2>1, <3>1
      <3>3. \/ i \in 1..Len(t) /\ tbl'[g][i] = t[i]
            \/ tbl'[g][i] = <<g, curve[g]>>
        BY <1>b, <2>1, <3>1, <3>2, Appended
      <3>4. i \in 1..Len(t) => t[i][1] = g  BY <1>0, <3>1 DEF Readable, Names
      <3> QED  BY <3>3, <3>4
    <2>4. Asked(g) => Asked(g)'  BY <2>1, <2>2 DEF Asked
    <2> QED  BY <1>0, <2>1, <2>2, <2>3, <2>4 DEF Readable
  <1>5. CASE G!TmpfileRefused(g) \/ G!FileFails(g)
    <2>1. pc'[g] \in {"output", "close"}
      BY <1>5, <1>a DEF G!TmpfileRefused, G!FileFails, G!NextCurve
    <2>2. UNCHANGED <<tbl, pipe, shown, process, files, filled>>
      BY <1>5 DEF G!TmpfileRefused, G!FileFails
    <2> QED  BY <1>0, <2>1, <2>2 DEF Readable, Asked, Names, Whole
  <1>6. CASE G!Fill(g)
    <2>1. /\ pc[g] = "fill" /\ pc'[g] = "plot"
          /\ UNCHANGED <<curve, tbl, pipe, shown, process, files>>
          /\ filled' = filled \cup {<<g, curve[g]>>}
      BY <1>6, <1>a DEF G!Fill
    <2>2. \A f : Whole(g, f) => Whole(g, f)'  BY <2>1 DEF Whole
    <2>3. Whole(g, <<g, curve[g]>>)'  BY <1>0, <2>1 DEF Readable, Whole
    <2>4. Names(g)' = Names(g)  BY <2>1 DEF Names
    <2>5. Asked(g) => Asked(g)'  BY <2>1, <2>2 DEF Asked
    <2> QED  BY <1>0, <2>1, <2>2, <2>3, <2>4, <2>5 DEF Readable
  <1>7. CASE G!Plot(g)
    <2>1. PICK c : c = [op |-> IF nplots[g] > 0 THEN "replot" ELSE "plot",
                        file |-> <<g, curve[g]>>]
      OBVIOUS
    <2>2. c \in Commands /\ c.file = <<g, curve[g]>>  BY <1>b, <2>1 DEF Commands
    <2>3. /\ pc[g] = "plot" /\ G!Cmd(g, c) /\ pc'[g] \in {"output", "close"}
          /\ UNCHANGED <<tbl, shown, process, files, filled>>
      BY <1>7, <1>a, <2>1 DEF G!Plot, G!NextCurve
    <2>4. Whole(g, c.file)  BY <1>0, <2>2, <2>3 DEF Readable
    <2>5. process'[g] = "running" => Asked(g)'
      BY <1>0, <2>2, <2>3, <2>4, CmdReadable
    <2>6. \A f : Whole(g, f)' <=> Whole(g, f)  BY <2>3 DEF Whole
    <2>7. Names(g)' = Names(g)  BY <2>3 DEF Names
    <2> QED  BY <1>0, <2>3, <2>5, <2>6, <2>7 DEF Readable
  <1>8. CASE G!GnuplotClose(g)
    <2>1. /\ pc'[g] = "closed" /\ process'[g] # "running" /\ tbl' = tbl
      BY <1>8, <1>a DEF G!GnuplotClose
    <2> QED  BY <1>0, <2>1 DEF Readable, Names
  <1>9. CASE G!CloseFails(g)
    <2>1. pc'[g] = "closed" /\ UNCHANGED <<tbl, pipe, shown, process, files, filled>>
      BY <1>9, <1>a DEF G!CloseFails
    <2> QED  BY <1>0, <2>1 DEF Readable, Asked, Names, Whole
  <1>10. CASE G!Execute(g)
    <2>1. PICK c : c = Head(pipe[g])  OBVIOUS
    <2>2. /\ process[g] = "running" /\ pipe[g] # <<>> /\ pipe'[g] = Tail(pipe[g])
          /\ UNCHANGED <<pc, curve, tbl, process, files, filled>>
      BY <1>10, <1>a DEF G!Execute
    <2>3. PICK now : /\ shown'[g] = now
                     /\ now = CASE c.op = "output" -> shown[g]
                                [] c.op = "plot"   -> <<c.file>>
                                [] c.op = "replot" -> Append(shown[g], c.file)
      BY <1>10, <1>a, <2>1 DEF G!Execute
    <2>4. PICK p \in Seq(Commands) : p = pipe[g] /\ p # <<>>
      BY <1>0, <2>2 DEF Sessions
    <2>5. 1 \in 1..Len(p) /\ c = p[1]
      <3>1. Len(p) \in Nat \ {0}  BY <2>4, EmptySeq
      <3> QED  BY <2>1, <2>4, <3>1
    <2>6. c \in Commands  BY <2>4, <2>5
    <2>7. c.op # "output" => Whole(g, c.file)  BY <1>0, <2>2, <2>4, <2>5 DEF Readable, Asked
    <2>8. ASSUME NEW i \in 1..Len(now) PROVE Whole(g, now[i])
      <3>1. CASE c.op = "output"  BY <1>0, <2>2, <2>3, <3>1 DEF Readable
      <3>2. CASE c.op = "plot"
        <4>1. now = <<c.file>>  BY <2>3, <3>2
        <4>2. now[i] = c.file  BY <4>1
        <4> QED  BY <2>7, <3>2, <4>2
      <3>3. CASE c.op = "replot"
        <4>1. PICK s \in Seq(Files) : s = shown[g]  BY <1>0 DEF Sessions
        <4>2. now = Append(s, c.file) /\ c.file \in Files
          BY <2>3, <2>6, <3>3, <4>1, CommandType
        <4>3. CASE i \in 1..Len(s) /\ now[i] = s[i]
          BY <1>0, <2>2, <4>1, <4>3 DEF Readable
        <4>4. CASE now[i] = c.file  BY <2>7, <3>3, <4>4
        <4> QED  BY <4>2, <4>3, <4>4, Appended
      <3> QED  BY <2>6, <3>1, <3>2, <3>3, CommandType
    <2>9. ASSUME NEW i \in 1..Len(Tail(p)), Tail(p)[i].op # "output"
          PROVE  Whole(g, Tail(p)[i].file)
      <3>1. Tail(p)[i] = p[i + 1] /\ i + 1 \in 1..Len(p)  BY <2>4, Dropped
      <3> QED  BY <1>0, <2>2, <2>4, <2>9, <3>1 DEF Readable, Asked
    <2>10. \A f : Whole(g, f)' <=> Whole(g, f)  BY <2>2 DEF Whole
    <2>11. Names(g)' = Names(g)  BY <2>2 DEF Names
    <2>12. pc[g] # "init"  BY <1>0, <2>2 DEF Readable
    <2> QED  BY <1>0, <2>2, <2>3, <2>4, <2>8, <2>9, <2>10, <2>11, <2>12 DEF Readable, Asked
  <1>11. CASE G!ExitGnuplot(g) \/ G!Dies(g)
    <2>1. /\ process'[g] # "running"
          /\ UNCHANGED <<pc, curve, tbl, pipe, shown, files, filled>>
      BY <1>11, <1>a DEF G!ExitGnuplot, G!Dies
    <2> QED  BY <1>0, <2>1 DEF Readable, Asked, Names, Whole
  <1> QED
    BY <1>1, <1>2, <1>3, <1>4, <1>5, <1>6, <1>7, <1>8, <1>9, <1>10, <1>11
    DEF G!Program, G!Process

LEMMA NamedStep ==
  ASSUME GnuplotInv, NEW g \in Graphs, G!Program(g) \/ G!Process(g) \/ G!Dies(g),
         NEW f \in files'
  PROVE  Named(f)'
  <1>0. Sessions /\ Readable(g) /\ (f \in files => Named(f))  BY DEF GnuplotInv
  <1>a. DOMAIN pc = Graphs /\ DOMAIN tbl = Graphs  BY <1>0 DEF Sessions, G!TypeOK
  <1>b. files' \subseteq Graphs \X Nat  BY <1>0, SessionsStep DEF Sessions, G!TypeOK
  <1>c. f[1] \in Graphs  BY <1>b
  <1> USE DEF G!Of, G!session, G!gnuplot, G!disk, G!history
  \* What most steps do: no file, no name less, and the session is not closed.
  <1>1. ASSUME f \in files, leaked \subseteq leaked', tbl' = tbl,
               pc'[f[1]] = "closed" => pc[f[1]] = "closed"
        PROVE  Named(f)'
    BY <1>0, <1>1 DEF Named, Names
  <1>2. CASE \/ G!GnuplotInit(g) \/ G!InitFails(g) \/ G!NoName(g) \/ G!SetOutput(g)
             \/ G!TmpfileRefused(g) \/ G!FileFails(g) \/ G!Fill(g) \/ G!Plot(g)
             \/ G!Execute(g) \/ G!ExitGnuplot(g) \/ G!Dies(g)
    <2>1. UNCHANGED <<files, leaked, tbl>>
      BY <1>2
      DEF G!GnuplotInit, G!InitFails, G!NoName, G!SetOutput, G!TmpfileRefused, G!FileFails,
          G!Fill, G!Plot, G!Execute, G!ExitGnuplot, G!Dies
    <2>2. pc'[f[1]] = "closed" => pc[f[1]] = "closed"
      <3>1. CASE f[1] = g
        BY <1>2, <1>a, <3>1
        DEF G!GnuplotInit, G!InitFails, G!NoName, G!SetOutput, G!TmpfileRefused, G!FileFails,
            G!Fill, G!Plot, G!Execute, G!ExitGnuplot, G!Dies, G!NextCurve
      <3>2. CASE f[1] # g
        BY <1>0, <1>c, <3>2, Elsewhere DEF Readable
      <3> QED  BY <3>1, <3>2
    <2> QED  BY <1>1, <2>1, <2>2
  <1>3. CASE G!Tmpfile(g)
    <2>1. /\ pc[g] = "tmpfile" /\ pc' = [pc EXCEPT ![g] = "fill"] /\ leaked' = leaked
          /\ files' = files \cup {<<g, curve[g]>>}
          /\ tbl' = [tbl EXCEPT ![g] = Append(@, <<g, curve[g]>>)]
      BY <1>3 DEF G!Tmpfile
    <2>2. PICK t \in Seq(Files) : t = tbl[g]
      BY <1>0 DEF Sessions, G!TypeOK, Files
    <2>3. <<g, curve[g]>> \in Files  BY <1>0 DEF Sessions, G!TypeOK, Files
    <2>4. PICK u : u = Append(t, <<g, curve[g]>>)  OBVIOUS
    <2>5. /\ u \in Seq(Files) /\ Len(u) = Len(t) + 1 /\ u[Len(u)] = <<g, curve[g]>>
          /\ \A i \in 1..Len(t) : u[i] = t[i]
      BY <2>2, <2>3, <2>4, AppendProperties
    <2>6. tbl'[g] = u /\ \A h \in Graphs \ {g} : tbl'[h] = tbl[h]
      BY <1>a, <2>1, <2>2, <2>4
    <2>7. CASE f = <<g, curve[g]>>
      <3>1. f \in Names(g)'
        <4>1. Len(u) \in DOMAIN u  BY <2>2, <2>5
        <4> QED  BY <2>5, <2>6, <2>7, <4>1 DEF Names
      <3>2. pc'[g] # "closed" /\ f[1] = g  BY <1>a, <2>1, <2>7
      <3> QED  BY <3>1, <3>2 DEF Named
    <2>8. CASE f \in files
      <3>1. f \in Names(f[1]) => f \in Names(f[1])'
        <4>1. CASE f[1] = g
          <5>1. Names(g) = {t[i] : i \in 1..Len(t)}  BY <2>2 DEF Names
          <5>2. Names(g)' = {u[i] : i \in 1..Len(u)}  BY <2>5, <2>6 DEF Names
          <5>3. Names(g) \subseteq Names(g)'  BY <2>2, <2>5, <5>1, <5>2
          <5> QED  BY <4>1, <5>3
        <4>2. CASE f[1] # g  BY <1>c, <2>6, <4>2 DEF Names
        <4> QED  BY <4>1, <4>2
      <3>2. pc'[f[1]] = "closed" => pc[f[1]] = "closed"  BY <1>a, <1>c, <2>1
      <3> QED  BY <1>0, <2>1, <2>8, <3>1, <3>2 DEF Named
    <2> QED  BY <2>1, <2>7, <2>8
  <1>4. CASE G!GnuplotClose(g)
    <2>1. /\ pc[g] = "close" /\ pc' = [pc EXCEPT ![g] = "closed"]
          /\ files' = files \ Names(g) /\ UNCHANGED <<tbl, leaked>>
      BY <1>4 DEF G!GnuplotClose, Names
    <2>2. f \in files /\ f \notin Names(g)  BY <2>1
    <2>3. CASE f[1] = g  BY <1>0, <2>1, <2>2, <2>3 DEF Named
    <2>4. CASE f[1] # g  BY <1>1, <1>a, <1>c, <2>1, <2>2, <2>4
    <2> QED  BY <2>3, <2>4
  <1>5. CASE G!CloseFails(g)
    <2>1. /\ pc' = [pc EXCEPT ![g] = "closed"] /\ leaked' = leaked \cup {g}
          /\ UNCHANGED <<tbl, files>>
      BY <1>5 DEF G!CloseFails
    <2>2. CASE f[1] = g  BY <2>1, <2>2 DEF Named
    <2>3. CASE f[1] # g  BY <1>1, <1>a, <1>c, <2>1, <2>3
    <2> QED  BY <2>2, <2>3
  <1> QED
    BY <1>2, <1>3, <1>4, <1>5
    DEF G!Program, G!Process

LEMMA GnuplotStep == GnuplotInv /\ [NextPlotting]_<<vars, plotVars>> => GnuplotInv'
  <1> SUFFICES ASSUME GnuplotInv, [NextPlotting]_<<vars, plotVars>> PROVE GnuplotInv'
    OBVIOUS
  <1>1. CASE UNCHANGED plotVars
    <2>1. Sessions'  BY <1>1 DEF plotVars, GnuplotInv, Sessions, G!TypeOK
    <2>2. \A g \in Graphs : Readable(g)'
      BY <1>1 DEF plotVars, GnuplotInv, Readable, Asked, Names, Whole
    <2>3. \A f \in files' : Named(f)'  BY <1>1 DEF plotVars, GnuplotInv, Named, Names
    <2> QED  BY <2>1, <2>2, <2>3 DEF GnuplotInv
  <1>2. ASSUME NEW g \in Graphs, G!Program(g) \/ G!Process(g) \/ G!Dies(g)
        PROVE  GnuplotInv'
    <2>1. Sessions'  BY <1>2, SessionsStep DEF GnuplotInv
    <2>2. \A h \in Graphs : Readable(h)'  BY <1>2, ReadableStep, ReadableElsewhere
    <2>3. \A f \in files' : Named(f)'  BY <1>2, NamedStep
    <2> QED  BY <2>1, <2>2, <2>3 DEF GnuplotInv
  <1> QED  BY <1>1, <1>2 DEF NextPlotting, G!Next

\* The invariant of the sessions, on which the theorems of this part rest.
THEOREM GnuplotInvariant == SpecPlotting => []GnuplotInv
  <1>1. InitPlotting => GnuplotInv  BY GnuplotInit DEF InitPlotting
  <1> QED  BY <1>1, GnuplotStep, PTL DEF SpecPlotting

\* No temporary file outlives its session, whatever failed, unless pclose did.
THEOREM SessionsNoLitter == SpecPlotting => []NoLitter
  <1>1. GnuplotInv => NoLitter  BY DEF GnuplotInv, Named, NoLitter, G!NoLitter
  <1> QED  BY <1>1, GnuplotInvariant, PTL

\* Whenever gnuplot gets to a command the files it reads are there and complete,
\* those that "replot" reads again among them: they are removed after gnuplot has
\* ended.
THEOREM GnuplotReadsWhole == SpecPlotting => ReadsWhole
  <1> DEFINE Reads ==
        \A g \in Graphs : shown'[g] # shown[g] =>
           \A i \in DOMAIN shown'[g] : shown'[g][i] \in files \cap filled
  <1>1. GnuplotInv /\ [NextPlotting]_<<vars, plotVars>> => [Reads]_(G!vars)
    <2> SUFFICES ASSUME GnuplotInv, [NextPlotting]_<<vars, plotVars>>, ~UNCHANGED G!vars,
                        NEW g \in Graphs, shown'[g] # shown[g],
                        NEW i \in DOMAIN shown'[g]
                 PROVE  shown'[g][i] \in files \cap filled
      BY Zenon
    <2>1. PICK h \in Graphs : G!Program(h) \/ G!Process(h) \/ G!Dies(h)
      BY DEF NextPlotting, G!Next, plotVars
    <2>2. Sessions /\ Readable(g) /\ Readable(h)  BY DEF GnuplotInv
    <2>3. h = g  BY <2>1, <2>2, Elsewhere DEF Readable
    <2>4. G!Execute(g)
      BY <2>1, <2>3
      DEF G!Program, G!Process, G!GnuplotInit, G!InitFails, G!NoName, G!SetOutput, G!Tmpfile,
          G!TmpfileRefused, G!FileFails, G!Fill, G!Plot, G!GnuplotClose, G!CloseFails,
          G!ExitGnuplot, G!Dies, G!gnuplot
    <2>5. Readable(g)'  BY <2>1, <2>3, ReadableStep
    <2>6. UNCHANGED <<files, filled>> /\ process'[g] = "running"
      BY <2>4 DEF G!Execute, G!disk
    <2>7. shown'[g] \in Seq(Files)  BY <2>1, <2>2, SessionsStep DEF Sessions
    <2> QED  BY <2>5, <2>6, <2>7 DEF Readable, Whole
  <1> QED  BY <1>1, GnuplotInvariant, PTL DEF SpecPlotting, ReadsWhole, G!ReadsWhole

-----------------------------------------------------------------------------
(* What the charts show *)

Progress == Nat \X {0, 1}

\* How far the program is with a chart: the curves it has asked for, and whether it
\* has set the output for the next.
Requested(g) ==
    <<curve[g] - 1,
      IF pc[g] \in {"tmpfile", "fill", "plot"} /\ curve[g] \notin Joined[g] THEN 1 ELSE 0>>

\* A command that leads gnuplot from one stage of the chart to another.
Leads(g, c, s, t) ==
    \/ /\ c.op = "output" /\ s[1] + 1 \notin Joined[g] /\ s[2] = 0
       /\ t = <<s[1], 1>>
    \/ /\ c.op = (IF s[1] > 0 THEN "replot" ELSE "plot") /\ c.file = <<g, s[1] + 1>>
       /\ s[2] = (IF s[1] + 1 \in Joined[g] THEN 0 ELSE 1)
       /\ t = <<s[1] + 1, 0>>

Curves(g, n) == [i \in 1..n |-> <<g, i>>]

\* What gnuplot shows at a stage, and what is in the output file.
Drawn(g, s) ==
    /\ shown[g] = Curves(g, s[1])
    /\ s[2] = 1 => chart[g] = <<>>
    /\ s[2] = 0 /\ s[1] # 0 /\ s[1] \notin Joined[g] => chart[g] = <<Curves(g, s[1])>>

\* The commands in the pipe lead from what is drawn to what was requested.
Leading(g, stages) ==
    /\ stages \in Seq(Progress) /\ Len(stages) = Len(pipe[g]) + 1
    /\ Drawn(g, stages[1])
    /\ stages[Len(pipe[g]) + 1] = Requested(g)
    /\ \A i \in 1..Len(pipe[g]) : Leads(g, pipe[g][i], stages[i], stages[i + 1])

Fresh(g) ==
    /\ curve[g] = 1 /\ nplots[g] = 0 /\ tbl[g] = <<>> /\ pipe[g] = <<>>
    /\ shown[g] = <<>> /\ chart[g] = <<>>

InProgress(g) ==
    /\ \E stages : Leading(g, stages)
    /\ nplots[g] = curve[g] - 1
    /\ Len(tbl[g]) = IF pc[g] \in {"fill", "plot"} THEN curve[g] ELSE curve[g] - 1
    /\ IF pc[g] = "close"
       THEN /\ curve[g] = CurvesOf[g] + 1
            /\ process[g] = "running" \/ (process[g] = "exited" /\ pipe[g] = <<>>)
       ELSE curve[g] <= CurvesOf[g] /\ process[g] = "running"

Finished(g) ==
    /\ chart[g] = <<Curves(g, CurvesOf[g])>>
    /\ process[g] # "running"

\* Nothing has failed, and there are not too many curves.
Fine(g) == g \notin failed /\ g \notin leaked /\ CurvesOf[g] < MaxTmp

Charting(g) ==
    /\ pc[g] = "init" => Fresh(g)
    /\ pc[g] \notin {"init", "closed"} /\ Fine(g) /\ ~crashed => InProgress(g)
    /\ pc[g] = "closed" /\ Fine(g) => Finished(g)

\* Nothing is plotted before all is read.
ReadFirst == Reading => \A g \in Graphs : pc[g] = "init"

ChartsInv ==
    /\ ReportInv
    /\ GnuplotInv
    /\ ReadFirst
    /\ \A g \in Graphs : Charting(g)

LEMMA ReceivedType == ASSUME Strings, NEW i \in Nat \ {0} PROVE Received(i) \in Nat
  BY DEF Strings, Received

LEMMA AtLeastOneType == ASSUME NEW n \in Nat PROVE AtLeastOne(n) \in Nat \ {0}
  BY DEF AtLeastOne

\* Every chart has a curve, and the last one has an output of its own.
LEMMA CurvesType ==
  ASSUME ReportInv, NEW g \in Graphs
  PROVE  CurvesOf[g] \in Nat \ {0} /\ CurvesOf[g] \notin Joined[g]
  <1>1. PICK n \in Nat \ {0} : n = AtLeastOne(Received(1))
    BY ReceivedType, AtLeastOneType DEF ReportInv
  <1>2. PICK q \in Nat \ {0} : q = params.quantity
    <2>1. params.quantity \in Quantities  BY DEF ReportInv, Queued, Slaves
    <2> QED  BY <2>1, ParamAssumption
  <1>3. PICK r \in Nat \ {0} :
            r = IF Received(4) = 0 THEN 1 ELSE AtLeastOne(Received(1))
    BY <1>1
  <1>4. q * r \in Nat \ {0}
    <2>1. \A a, b \in Nat \ {0} : a * b \in Nat \ {0}  OBVIOUS
    <2> QED  BY <2>1
  <1>5. Flows = [values |-> n, other |-> 1, partials |-> q, results |-> 4, snmp |-> 2]
    BY <1>1, <1>2 DEF Flows
  <1>6. CurvesOf = [Flows EXCEPT !.partials = q * r]  BY <1>3, <1>5 DEF CurvesOf
  <1>7. /\ CurvesOf["values"] = n /\ CurvesOf["other"] = 1 /\ CurvesOf["partials"] = q * r
        /\ CurvesOf["results"] = 4 /\ CurvesOf["snmp"] = 2
    BY <1>5, <1>6
  <1>8. g = "results" \/ Joined[g] = {}  BY DEF Joined
  <1>9. Joined["results"] = {2}  BY DEF Joined, Graphs
  <1>10. CASE g = "results"  BY <1>7, <1>9, <1>10
  <1>11. CASE g # "results"
    <2>1. CurvesOf[g] \in Nat \ {0}  BY <1>4, <1>7, <1>11 DEF Graphs
    <2> QED  BY <1>8, <1>11, <2>1
  <1> QED  BY <1>10, <1>11

\* Once all is read the numbers of curves do not change, nor is more read.
LEMMA CurvesSteady ==
  ASSUME [NextPlotting]_<<vars, plotVars>>, ~Reading
  PROVE  CurvesOf' = CurvesOf /\ ~Reading'
  <1>1. UNCHANGED <<params, number, got>>
    <2>1. CASE UNCHANGED vars  BY <2>1 DEF vars
    <2>2. CASE Next  BY <2>2 DEF Next, Write, Read
    <2> QED  BY <2>1, <2>2 DEF NextPlotting
  <1>2. Flows' = Flows  BY <1>1 DEF Flows, Received
  <1> QED  BY <1>1, <1>2 DEF CurvesOf, Received, Reading, Calls

LEMMA StaysCrashed ==
  ASSUME NEW g \in Graphs, G!Program(g) \/ G!Process(g) \/ G!Dies(g), ~crashed'
  PROVE  ~crashed
  BY DEF G!Program, G!Process, G!Dies, G!Execute, G!ExitGnuplot, G!history

\* Other charts.
LEMMA ChartingElsewhere ==
  ASSUME ChartsInv, NEW g \in Graphs, G!Program(g) \/ G!Process(g) \/ G!Dies(g),
         CurvesOf' = CurvesOf, NEW h \in Graphs, h # g
  PROVE  Charting(h)'
  <1>1. Sessions /\ Charting(h) /\ \A f \in Names(g) : f[1] = g
    BY DEF ChartsInv, GnuplotInv, Readable
  <1>2. /\ pc'[h] = pc[h] /\ curve'[h] = curve[h] /\ tbl'[h] = tbl[h]
        /\ nplots'[h] = nplots[h] /\ pipe'[h] = pipe[h] /\ process'[h] = process[h]
        /\ shown'[h] = shown[h] /\ chart'[h] = chart[h]
        /\ h \in failed' <=> h \in failed
        /\ h \in leaked' <=> h \in leaked
    BY <1>1, Elsewhere
  <1>3. Requested(h)' = Requested(h)  BY <1>2 DEF Requested
  <1>4. \A s : Leading(h, s)' <=> Leading(h, s)
    BY <1>2, <1>3 DEF Leading, Drawn
  <1>5. Fresh(h) => Fresh(h)'  BY <1>2 DEF Fresh
  <1>6. InProgress(h) => InProgress(h)'  BY <1>2, <1>4 DEF InProgress
  <1>7. Finished(h) => Finished(h)'  BY <1>2 DEF Finished
  <1>8. Fine(h)' => Fine(h)  BY <1>2 DEF Fine
  <1>9. crashed => crashed'  BY StaysCrashed
  <1> QED  BY <1>1, <1>2, <1>5, <1>6, <1>7, <1>8, <1>9 DEF Charting

\* What the program is with a chart is a stage of it.
LEMMA RequestedType ==
  ASSUME Sessions, NEW g \in Graphs
  PROVE  Requested(g) \in Progress
  BY DEF Sessions, G!TypeOK, Requested, Progress

\* A command that the program writes leads to what it has requested then.
LEMMA Extended ==
  ASSUME Sessions, Sessions', NEW g \in Graphs, NEW stages, Leading(g, stages),
         NEW c \in Commands, pipe'[g] = Append(pipe[g], c),
         shown'[g] = shown[g], chart'[g] = chart[g],
         NEW t, t = Requested(g)', Leads(g, c, Requested(g), t)
  PROVE  (\E s : Leading(g, s))'
  <1>1. PICK p \in Seq(Commands) : p = pipe[g]  BY DEF Sessions
  <1>2. PICK n \in Nat : n = Len(p)  BY <1>1
  <1>3. t \in Progress  BY DEF Sessions, G!TypeOK, Requested, Progress
  <1>4. stages \in Seq(Progress) /\ Len(stages) = n + 1 /\ stages[n + 1] = Requested(g)
    BY <1>1, <1>2 DEF Leading
  <1>5. PICK u : u = Append(stages, t)  OBVIOUS
  <1>6. /\ u \in Seq(Progress) /\ Len(u) = n + 2 /\ u[n + 2] = t
        /\ \A i \in 1..(n + 1) : u[i] = stages[i]
    BY <1>2, <1>3, <1>4, <1>5, AppendProperties
  <1>7. PICK q : q = Append(p, c)  OBVIOUS
  <1>8. Len(q) = n + 1 /\ q[n + 1] = c /\ \A i \in 1..n : q[i] = p[i]
    BY <1>1, <1>2, <1>7, AppendProperties
  <1>9. ASSUME NEW i \in 1..(n + 1) PROVE Leads(g, q[i], u[i], u[i + 1])
    <2>1. CASE i = n + 1
      <3>1. u[i] = Requested(g) /\ u[i + 1] = t /\ q[i] = c
        BY <1>2, <1>4, <1>6, <1>8, <2>1
      <3> QED  BY <3>1
    <2>2. CASE i # n + 1
      <3>1. i \in 1..n /\ i \in 1..(n + 1) /\ i + 1 \in 1..(n + 1)  BY <1>2, <2>2
      <3>2. q[i] = p[i] /\ u[i] = stages[i] /\ u[i + 1] = stages[i + 1]
        BY <1>6, <1>8, <3>1
      <3>3. Leads(g, p[i], stages[i], stages[i + 1])
        BY <1>1, <1>2, <3>1 DEF Leading
      <3> QED  BY <3>2, <3>3
    <2> QED  BY <2>1, <2>2
  <1>10. Drawn(g, u[1])'
    <2>1. PICK d : d = stages[1]  OBVIOUS
    <2>2. u[1] = d  BY <1>2, <1>6, <2>1
    <2>3. Drawn(g, d)  BY <2>1 DEF Leading
    <2>4. Drawn(g, d)'  BY <2>3 DEF Drawn
    <2> QED  BY <2>2, <2>4
  <1>11. Leading(g, u)'
    <2>1. pipe'[g] = q /\ Len(pipe'[g]) = n + 1  BY <1>1, <1>7, <1>8
    <2> QED  BY <1>2, <1>6, <1>9, <1>10, <2>1 DEF Leading
  <1> QED  BY <1>11

\* A command that gnuplot reads leads to what is drawn then.
LEMMA Executed ==
  ASSUME Sessions, NEW g \in Graphs, NEW stages, Leading(g, stages), G!Execute(g)
  PROVE  (\E s : Leading(g, s))'
  <1>0. /\ DOMAIN pipe = Graphs /\ DOMAIN shown = Graphs /\ DOMAIN chart = Graphs
    BY DEF Sessions
  <1>1. PICK p \in Seq(Commands) : p = pipe[g] /\ p # <<>>
    BY DEF Sessions, G!Execute
  <1>2. PICK n \in Nat \ {0} : n = Len(p)  BY <1>1, EmptySeq
  <1>3. PICK c \in Commands : c = p[1] /\ c = Head(p)  BY <1>1, <1>2
  <1>4. PICK q : q = Tail(p)  OBVIOUS
  <1>5. Len(q) = n - 1 /\ \A i \in 1..(n - 1) : q[i] = p[i + 1]
    BY <1>1, <1>2, <1>4, HeadTailProperties
  <1>6. stages \in Seq(Progress) /\ Len(stages) = n + 1  BY <1>1, <1>2 DEF Leading
  <1>7. PICK u : u = Tail(stages)  OBVIOUS
  <1>8. u \in Seq(Progress) /\ Len(u) = n /\ \A i \in 1..n : u[i] = stages[i + 1]
    <2>1. stages # <<>>  BY <1>2, <1>6
    <2> QED  BY <1>2, <1>6, <1>7, <2>1, HeadTailProperties
  <1>9. PICK k \in Nat, o \in {0, 1} : stages[1] = <<k, o>>
    <2>1. stages[1] \in Progress  BY <1>2, <1>6
    <2> QED  BY <2>1 DEF Progress
  <1>10. PICK s \in Seq(Files) : s = shown[g]  BY DEF Sessions
  <1>11. /\ s = Curves(g, k)
         /\ o = 1 => chart[g] = <<>>
         /\ o = 0 /\ k # 0 /\ k \notin Joined[g] => chart[g] = <<Curves(g, k)>>
    BY <1>9, <1>10 DEF Leading, Drawn
  <1>12. Leads(g, c, <<k, o>>, u[1])
    <2>1. 1 \in 1..n /\ u[1] = stages[2]  BY <1>2, <1>8
    <2>2. Leads(g, p[1], stages[1], stages[1 + 1])  BY <1>1, <1>2, <2>1 DEF Leading
    <2> QED  BY <1>3, <1>9, <2>1, <2>2
  <1>a. PICK now : now = CASE c.op = "output" -> s
                           [] c.op = "plot"   -> <<c.file>>
                           [] c.op = "replot" -> Append(s, c.file)
    OBVIOUS
  <1>13. /\ shown' = G!Of(shown, g, now)
         /\ chart' = G!Of(chart, g, IF c.op = "output" THEN <<>> ELSE Append(chart[g], now))
    BY <1>1, <1>3, <1>10, <1>a DEF G!Execute
  <1>14. Drawn(g, u[1])'
    <2>1. CASE c.op = "output"
      <3>1. u[1] = <<k, 1>>  BY <1>12, <2>1 DEF Leads
      <3>2. shown'[g] = s /\ chart'[g] = <<>>  BY <1>0, <1>13, <1>a, <2>1 DEF G!Of
      <3> QED  BY <1>11, <3>1, <3>2 DEF Drawn
    <2>2. CASE c.op # "output"
      <3>1. /\ u[1] = <<k + 1, 0>> /\ c.file = <<g, k + 1>>
            /\ c.op = (IF k > 0 THEN "replot" ELSE "plot")
            /\ o = (IF k + 1 \in Joined[g] THEN 0 ELSE 1)
        BY <1>12, <2>2 DEF Leads
      <3>2. now = Curves(g, k + 1)
        <4>0. k + 1 \in Nat  BY <1>9
        <4>6. <<g, k + 1>> \in Files  BY <4>0 DEF Files
        <4>1. PICK e \in Files : e = <<g, k + 1>>  BY <4>6
        <4>2. PICK all : all = Curves(g, k + 1)  OBVIOUS
        <4>3. all \in Seq(Files) /\ Len(all) = k + 1 /\ \A i \in 1..(k + 1) : all[i] = <<g, i>>
          <5>1. \A i \in 1..(k + 1) : <<g, i>> \in Files  BY <1>9 DEF Files
          <5>2. all \in [1..(k + 1) -> Files]  BY <4>2, <5>1 DEF Curves
          <5> QED  BY <1>9, <4>2, <5>2 DEF Curves
        <4>4. CASE k = 0
          <5>1. now = <<e>>  BY <1>a, <3>1, <4>1, <4>4
          <5>2. now \in Seq(Files) /\ Len(now) = 1 /\ now[1] = all[1]
            BY <4>1, <4>3, <4>4, <5>1
          <5>3. \A i \in 1..Len(now) : now[i] = all[i]  BY <5>2
          <5> QED  BY <4>2, <4>3, <4>4, <5>2, <5>3, SeqEqual
        <4>5. CASE k > 0
          <5>1. now = Append(s, e)  BY <1>a, <3>1, <4>1, <4>5
          <5>2. Len(s) = k /\ \A i \in 1..k : s[i] = <<g, i>>
            <6>1. DOMAIN s = 1..k  BY <1>11 DEF Curves
            <6>2. Len(s) = k  BY <1>9, <1>10, <6>1
            <6> QED  BY <1>11, <6>2 DEF Curves
          <5>3. /\ now \in Seq(Files) /\ Len(now) = k + 1 /\ now[k + 1] = e
                /\ \A i \in 1..k : now[i] = s[i]
            BY <1>9, <1>10, <4>1, <5>1, <5>2, AppendProperties
          <5>4. ASSUME NEW i \in 1..(k + 1) PROVE now[i] = all[i]
            <6>1. CASE i = k + 1  BY <4>1, <4>3, <5>3, <6>1
            <6>2. CASE i # k + 1
              <7>1. i \in 1..k  BY <1>9, <6>2
              <7> QED  BY <4>3, <5>2, <5>3, <7>1
            <6> QED  BY <6>1, <6>2
          <5> QED  BY <4>2, <4>3, <5>3, <5>4, SeqEqual
        <4> QED  BY <1>9, <4>4, <4>5
      <3>3. shown'[g] = now /\ chart'[g] = Append(chart[g], now)
        BY <1>0, <1>13, <2>2 DEF G!Of
      <3>4. k + 1 \notin Joined[g] => chart'[g] = <<now>>
        <4> SUFFICES ASSUME k + 1 \notin Joined[g] PROVE chart'[g] = <<now>>
          OBVIOUS
        <4>1. chart[g] = <<>>  BY <1>11, <3>1
        <4> QED  BY <3>3, <4>1
      <3> QED  BY <1>9, <3>1, <3>2, <3>3, <3>4 DEF Drawn
    <2> QED  BY <2>1, <2>2
  <1>15. pipe'[g] = q /\ UNCHANGED <<pc, curve>>
    BY <1>0, <1>1, <1>4 DEF G!Execute, G!Of
  <1>16. Requested(g)' = Requested(g)  BY <1>15 DEF Requested
  <1>17. u[n] = Requested(g)
    <2>1. stages[n + 1] = Requested(g)  BY <1>1, <1>2 DEF Leading
    <2> QED  BY <1>2, <1>8, <2>1
  <1>18. ASSUME NEW i \in 1..(n - 1) PROVE Leads(g, q[i], u[i], u[i + 1])
    <2>1. i \in 1..n /\ i + 1 \in 1..n  BY <1>2
    <2>2. q[i] = p[i + 1] /\ u[i] = stages[i + 1] /\ u[i + 1] = stages[i + 1 + 1]
      BY <1>5, <1>8, <2>1
    <2>3. Leads(g, p[i + 1], stages[i + 1], stages[i + 1 + 1])
      BY <1>1, <1>2, <2>1 DEF Leading
    <2> QED  BY <2>2, <2>3
  <1>19. Leading(g, u)'
    <2>1. Len(pipe'[g]) = n - 1 /\ Len(pipe'[g]) + 1 = n  BY <1>2, <1>5, <1>15
    <2> QED  BY <1>8, <1>14, <1>15, <1>16, <1>17, <1>18, <2>1 DEF Leading
  <1> QED  BY <1>19

LEMMA StagesKept ==
  ASSUME NEW g \in Graphs, UNCHANGED <<pipe, shown, chart>>,
         Requested(g)' = Requested(g), \E s : Leading(g, s)
  PROVE  (\E s : Leading(g, s))'
  <1>1. PICK s : Leading(g, s)  OBVIOUS
  <1>2. Drawn(g, s[1])' <=> Drawn(g, s[1])  BY DEF Drawn
  <1>3. Leading(g, s)'  BY <1>1, <1>2 DEF Leading
  <1> QED  BY <1>3

\* A step of the chart's own.
LEMMA ChartingStep ==
  ASSUME ChartsInv, NEW g \in Graphs, G!Program(g) \/ G!Process(g) \/ G!Dies(g),
         CurvesOf' = CurvesOf
  PROVE  Charting(g)'
  <1>0. Sessions /\ Sessions' /\ Readable(g) /\ Charting(g)
    BY SessionsStep DEF ChartsInv, GnuplotInv
  <1>a. /\ DOMAIN pc = Graphs /\ DOMAIN process = Graphs /\ DOMAIN tbl = Graphs
        /\ DOMAIN pipe = Graphs /\ DOMAIN nplots = Graphs /\ DOMAIN curve = Graphs
    BY <1>0 DEF Sessions, G!TypeOK
  <1>b. CurvesOf[g] \in Nat \ {0} /\ CurvesOf[g] \notin Joined[g]
    BY CurvesType DEF ChartsInv
  <1>c. /\ pc[g] \in {"init", "output", "tmpfile", "fill", "plot", "close", "closed"}
        /\ curve[g] \in Nat \ {0} /\ nplots[g] \in Nat
    BY <1>0 DEF Sessions, G!TypeOK
  <1>d. MaxTmp \in Nat \ {0}  BY SessionAssumption
  <1> USE DEF G!Of, G!session, G!gnuplot, G!disk, G!history
  <1>1. CASE G!GnuplotInit(g)
    <2>1. Fresh(g) /\ pc'[g] = "output" /\ process'[g] = "running"
      BY <1>0, <1>1, <1>a DEF G!GnuplotInit, Charting
    <2>2. UNCHANGED <<curve, tbl, nplots, pipe, shown, chart>>
      BY <1>1 DEF G!GnuplotInit
    <2>3. PICK z \in Progress : z = <<0, 0>>  BY DEF Progress
    <2>4. PICK stages : stages = <<z>>  OBVIOUS
    <2>5. stages \in Seq(Progress) /\ Len(stages) = 1 /\ stages[1] = z  BY <2>4
    <2>6. Drawn(g, z)'
      <3>1. Curves(g, 0) = <<>>  BY DEF Curves
      <3> QED  BY <2>1, <2>2, <2>3, <3>1 DEF Drawn, Fresh
    <2>7. Requested(g)' = z
      <3>1. curve'[g] = 1 /\ pc'[g] = "output"  BY <2>1, <2>2 DEF Fresh
      <3> QED  BY <2>3, <3>1 DEF Requested
    <2>8. Len(pipe'[g]) = 0  BY <2>1, <2>2 DEF Fresh
    <2>9. Leading(g, stages)'  BY <2>5, <2>6, <2>7, <2>8 DEF Leading
    <2>10. InProgress(g)'  BY <1>b, <2>1, <2>2, <2>9 DEF InProgress, Fresh
    <2> QED  BY <2>1, <2>10 DEF Charting
  <1>2. CASE G!InitFails(g) \/ G!NoName(g)
    <2>1. /\ crashed' /\ pc[g] \in {"init", "output"}
          /\ UNCHANGED <<pc, curve, tbl, nplots, pipe, shown, chart>>
      BY <1>2 DEF G!InitFails, G!NoName
    <2>2. Fresh(g)' <=> Fresh(g)  BY <2>1 DEF Fresh
    <2> QED  BY <1>0, <2>1, <2>2 DEF Charting
  <1>3. CASE G!SetOutput(g)
    <2>1. /\ pc[g] = "output" /\ pc'[g] = "tmpfile"
          /\ UNCHANGED <<curve, tbl, nplots, process, shown, chart, failed, leaked>>
          /\ IF curve[g] \in Joined[g] THEN UNCHANGED <<pipe, crashed>>
             ELSE G!Cmd(g, [op |-> "output"])
      BY <1>3, <1>a DEF G!SetOutput
    <2> SUFFICES ASSUME Fine(g)', ~crashed' PROVE InProgress(g)'
      BY <2>1 DEF Charting
    <2>2. InProgress(g)  BY <1>0, <2>1, StaysCrashed DEF Charting, Fine
    <2>3. process[g] = "running" /\ curve[g] <= CurvesOf[g]  BY <2>1, <2>2 DEF InProgress
    <2>4. (\E s : Leading(g, s))'
      <3>1. CASE curve[g] \in Joined[g]
        <4>1. Requested(g)' = Requested(g)  BY <2>1, <3>1 DEF Requested
        <4>2. UNCHANGED pipe  BY <2>1, <3>1
        <4> QED  BY <2>1, <2>2, <4>1, <4>2, StagesKept DEF InProgress
      <3>2. CASE curve[g] \notin Joined[g]
        <4>0. [op |-> "output"] \in Commands  BY DEF Commands
        <4>1. PICK c \in Commands : c = [op |-> "output"]  BY <4>0
        <4>2. pipe'[g] = Append(pipe[g], c)  BY <1>a, <2>1, <2>3, <3>2, <4>1 DEF G!Cmd
        <4>3. PICK k \in Nat : k = curve[g] - 1 /\ k + 1 = curve[g]  BY <1>c
        <4>4. Requested(g) = <<k, 0>>  BY <2>1, <4>3 DEF Requested
        <4>5. PICK t : t = Requested(g)'  OBVIOUS
        <4>6. t = <<k, 1>>  BY <2>1, <3>2, <4>3, <4>5 DEF Requested
        <4>7. Leads(g, c, Requested(g), t)  BY <3>2, <4>1, <4>3, <4>4, <4>6 DEF Leads
        <4>8. PICK s : Leading(g, s)  BY <2>2 DEF InProgress
        <4> QED  BY <1>0, <2>1, <4>2, <4>5, <4>7, <4>8, Extended
      <3> QED  BY <3>1, <3>2
    <2> QED  BY <2>1, <2>2, <2>3, <2>4 DEF InProgress
  <1>4. CASE G!Tmpfile(g)
    <2>1. /\ pc[g] = "tmpfile" /\ pc'[g] = "fill"
          /\ tbl'[g] = Append(tbl[g], <<g, curve[g]>>)
          /\ UNCHANGED <<curve, nplots, pipe, process, shown, chart, failed, leaked>>
      BY <1>4, <1>a DEF G!Tmpfile
    <2> SUFFICES ASSUME Fine(g)', ~crashed' PROVE InProgress(g)'
      BY <2>1 DEF Charting
    <2>2. InProgress(g)  BY <1>0, <2>1, StaysCrashed DEF Charting, Fine
    <2>3. Requested(g)' = Requested(g)  BY <2>1 DEF Requested
    <2>4. (\E s : Leading(g, s))'  BY <2>1, <2>2, <2>3, StagesKept DEF InProgress
    <2>5. Len(tbl'[g]) = curve[g]
      <3>1. PICK s \in Seq(Files) : s = tbl[g]  BY <1>0 DEF Sessions, G!TypeOK, Files
      <3>2. Len(s) = curve[g] - 1  BY <2>1, <2>2, <3>1 DEF InProgress
      <3>3. Len(Append(s, <<g, curve[g]>>)) = Len(s) + 1  OBVIOUS
      <3> QED  BY <1>c, <2>1, <3>1, <3>2, <3>3
    <2> QED  BY <2>1, <2>2, <2>4, <2>5 DEF InProgress
  <1>5. CASE G!TmpfileRefused(g)
    <2>1. /\ pc[g] = "tmpfile" /\ Len(tbl[g]) = MaxTmp - 1 /\ pc'[g] \in {"output", "close"}
          /\ UNCHANGED <<failed, leaked>>
      BY <1>5, <1>a DEF G!TmpfileRefused, G!NextCurve
    <2> SUFFICES ASSUME Fine(g)', ~crashed' PROVE FALSE
      BY <2>1 DEF Charting
    <2>2. InProgress(g)  BY <1>0, <2>1, StaysCrashed DEF Charting, Fine
    <2>3. Len(tbl[g]) = curve[g] - 1 /\ curve[g] <= CurvesOf[g]
      BY <2>1, <2>2 DEF InProgress
    <2>4. CurvesOf[g] < MaxTmp  BY DEF Fine
    <2> QED  BY <1>b, <1>c, <1>d, <2>1, <2>3, <2>4
  <1>6. CASE G!FileFails(g)
    <2>1. pc'[g] \in {"output", "close"} /\ g \in failed'
      BY <1>6, <1>a DEF G!FileFails, G!NextCurve
    <2> QED  BY <2>1 DEF Charting, Fine
  <1>7. CASE G!Fill(g)
    <2>1. /\ pc[g] = "fill" /\ pc'[g] = "plot"
          /\ UNCHANGED <<curve, tbl, nplots, pipe, process, shown, chart, failed, leaked>>
      BY <1>7, <1>a DEF G!Fill
    <2> SUFFICES ASSUME Fine(g)', ~crashed' PROVE InProgress(g)'
      BY <2>1 DEF Charting
    <2>2. InProgress(g)  BY <1>0, <2>1, StaysCrashed DEF Charting, Fine
    <2>3. Requested(g)' = Requested(g)  BY <2>1 DEF Requested
    <2>4. (\E s : Leading(g, s))'  BY <2>1, <2>2, <2>3, StagesKept DEF InProgress
    <2> QED  BY <2>1, <2>2, <2>4 DEF InProgress
  <1>8. CASE G!Plot(g)
    <2>0. PICK k \in Nat : k = curve[g] - 1 /\ k + 1 = curve[g]  BY <1>c
    <2>1. PICK c : c = [op |-> IF nplots[g] > 0 THEN "replot" ELSE "plot",
                        file |-> <<g, curve[g]>>]
      OBVIOUS
    <2>2. /\ pc[g] = "plot" /\ G!Cmd(g, c)
          /\ curve'[g] = curve[g] + 1 /\ nplots'[g] = nplots[g] + 1
          /\ pc'[g] = IF curve[g] < CurvesOf[g] THEN "output" ELSE "close"
          /\ UNCHANGED <<tbl, process, shown, chart, failed, leaked>>
      BY <1>8, <1>a, <2>1 DEF G!Plot, G!NextCurve
    <2> SUFFICES ASSUME Fine(g)', ~crashed' PROVE InProgress(g)'
      BY <2>2 DEF Charting
    <2>3. InProgress(g)  BY <1>0, <2>2, StaysCrashed DEF Charting, Fine
    <2>4. /\ process[g] = "running" /\ curve[g] <= CurvesOf[g]
          /\ nplots[g] = k /\ Len(tbl[g]) = k + 1
      BY <2>0, <2>2, <2>3 DEF InProgress
    <2>5. c \in Commands
      <3>1. <<g, curve[g]>> \in Files  BY <1>c DEF Files
      <3> QED  BY <2>1, <3>1 DEF Commands
    <2>6. pipe'[g] = Append(pipe[g], c)  BY <1>a, <2>2, <2>4 DEF G!Cmd
    <2>7. PICK o : o = IF k + 1 \in Joined[g] THEN 0 ELSE 1  OBVIOUS
    <2>8. Requested(g) = <<k, o>>  BY <2>0, <2>2, <2>7 DEF Requested
    <2>9. PICK t : t = Requested(g)'  OBVIOUS
    <2>10. t = <<k + 1, 0>>
      <3>1. curve'[g] - 1 = k + 1 /\ pc'[g] \in {"output", "close"}  BY <2>0, <2>2
      <3> QED  BY <2>9, <3>1 DEF Requested
    <2>11. Leads(g, c, Requested(g), t)
      <3>1. c.op = (IF k > 0 THEN "replot" ELSE "plot") /\ c.file = <<g, k + 1>>
        BY <2>0, <2>1, <2>4
      <3> QED  BY <2>7, <2>8, <2>10, <3>1 DEF Leads
    <2>12. PICK s : Leading(g, s)  BY <2>3 DEF InProgress
    <2>13. (\E u : Leading(g, u))'
      BY <1>0, <2>2, <2>5, <2>6, <2>9, <2>11, <2>12, Extended
    <2>14. nplots'[g] = curve'[g] - 1 /\ Len(tbl'[g]) = curve'[g] - 1
      BY <2>0, <2>2, <2>4
    <2>15. process'[g] = "running"  BY <2>2, <2>4
    <2>16. CASE curve[g] < CurvesOf[g]
      <3>1. pc'[g] = "output" /\ curve'[g] <= CurvesOf'[g]  BY <1>b, <1>c, <2>2, <2>16
      <3> QED  BY <2>13, <2>14, <2>15, <3>1 DEF InProgress
    <2>17. CASE ~(curve[g] < CurvesOf[g])
      <3>1. pc'[g] = "close" /\ curve'[g] = CurvesOf'[g] + 1
        BY <1>b, <1>c, <2>2, <2>4, <2>17
      <3> QED  BY <2>13, <2>14, <2>15, <3>1 DEF InProgress
    <2> QED  BY <2>16, <2>17
  <1>9. CASE G!GnuplotClose(g)
    <2>1. /\ pc[g] = "close" /\ pc'[g] = "closed" /\ process[g] # "running"
          /\ UNCHANGED <<process, chart, failed, leaked>>
      BY <1>9, <1>a DEF G!GnuplotClose
    <2> SUFFICES ASSUME Fine(g)' PROVE Finished(g)'
      BY <2>1 DEF Charting
    <2>2. ~crashed
      BY <1>9 DEF G!Program, G!Process, G!Dies, G!Execute, G!ExitGnuplot, G!GnuplotClose
    <2>3. InProgress(g)  BY <1>0, <2>1, <2>2 DEF Charting, Fine
    <2>4. pipe[g] = <<>> /\ curve[g] = CurvesOf[g] + 1  BY <2>1, <2>3 DEF InProgress
    <2>5. PICK s : Leading(g, s)  BY <2>3 DEF InProgress
    <2>6. Drawn(g, s[1]) /\ s[1] = Requested(g)  BY <2>4, <2>5 DEF Leading
    <2>7. Requested(g) = <<CurvesOf[g], 0>>
      <3>1. curve[g] - 1 = CurvesOf[g]  BY <1>b, <2>4
      <3> QED  BY <2>1, <3>1 DEF Requested
    <2>8. chart[g] = <<Curves(g, CurvesOf[g])>>  BY <1>b, <2>6, <2>7 DEF Drawn
    <2>9. chart'[g] = <<Curves(g, CurvesOf'[g])>>  BY <2>1, <2>8
    <2> QED  BY <2>1, <2>9 DEF Finished, Curves
  <1>10. CASE G!CloseFails(g)
    <2>1. pc'[g] = "closed" /\ g \in leaked'  BY <1>10, <1>a DEF G!CloseFails
    <2> QED  BY <2>1 DEF Charting, Fine
  <1>11. CASE G!Execute(g)
    <2>1. /\ process[g] = "running" /\ pipe[g] # <<>>
          /\ UNCHANGED <<pc, curve, tbl, nplots, process, failed, leaked, crashed>>
      BY <1>11 DEF G!Execute
    <2>2. pc[g] # "init"  BY <1>0, <2>1 DEF Readable
    <2>3. pc[g] = "closed" => ~Fine(g)  BY <1>0, <2>1 DEF Charting, Finished
    <2>4. Fine(g)' <=> Fine(g)  BY <2>1 DEF Fine
    <2> SUFFICES ASSUME pc[g] # "closed", Fine(g), ~crashed PROVE InProgress(g)'
      BY <2>1, <2>2, <2>3, <2>4 DEF Charting
    <2>5. InProgress(g)  BY <1>0, <2>2 DEF Charting
    <2>6. (\E s : Leading(g, s))'  BY <1>0, <1>11, <2>5, Executed DEF InProgress
    <2> QED  BY <2>1, <2>5, <2>6 DEF InProgress
  <1>12. CASE G!ExitGnuplot(g)
    <2>1. /\ process[g] = "running" /\ process'[g] = "exited" /\ pipe[g] = <<>>
          /\ crashed \/ pc[g] \in {"close", "closed"}
          /\ UNCHANGED <<pc, curve, tbl, nplots, pipe, shown, chart, failed, leaked, crashed>>
      BY <1>12, <1>a DEF G!ExitGnuplot
    <2>2. Fresh(g)' <=> Fresh(g)  BY <2>1 DEF Fresh
    <2>3. pc[g] = "closed" => ~Fine(g)  BY <1>0, <2>1 DEF Charting, Finished
    <2>4. Fine(g)' <=> Fine(g)  BY <2>1 DEF Fine
    <2>5. ASSUME pc[g] = "close", Fine(g), ~crashed PROVE InProgress(g)'
      <3>1. InProgress(g)  BY <1>0, <2>5 DEF Charting
      <3>2. Requested(g)' = Requested(g)  BY <2>1 DEF Requested
      <3>3. (\E s : Leading(g, s))'  BY <2>1, <3>1, <3>2, StagesKept DEF InProgress
      <3> QED  BY <2>1, <2>5, <3>1, <3>3 DEF InProgress
    <2> QED  BY <1>0, <2>1, <2>2, <2>3, <2>4, <2>5 DEF Charting
  <1>13. CASE G!Dies(g)
    <2>1. g \in failed' /\ UNCHANGED <<pc, curve, tbl, nplots, pipe, shown, chart>>
      BY <1>13 DEF G!Dies
    <2>2. Fresh(g)' <=> Fresh(g)  BY <2>1 DEF Fresh
    <2> QED  BY <1>0, <2>1, <2>2 DEF Charting, Fine
  <1> QED
    BY <1>1, <1>2, <1>3, <1>4, <1>5, <1>6, <1>7, <1>8, <1>9, <1>10, <1>11, <1>12, <1>13
    DEF G!Program, G!Process

LEMMA ChartsInit == InitPlotting => ChartsInv
  <1> SUFFICES ASSUME InitPlotting PROVE ChartsInv
    OBVIOUS
  <1>1. ReportInv /\ GnuplotInv  BY ReportInit, GnuplotInit DEF InitPlotting
  <1>2. ASSUME NEW g \in Graphs PROVE pc[g] = "init" /\ Fresh(g)
    BY DEF InitPlotting, G!Init, Fresh
  <1> QED  BY <1>1, <1>2 DEF ChartsInv, ReadFirst, Charting

\* What the thread reads does not disturb the charts.
LEMMA ChartingReads ==
  ASSUME ChartsInv, [NextPlotting]_<<vars, plotVars>>, UNCHANGED plotVars,
         NEW g \in Graphs
  PROVE  Charting(g)'
  <1>0. Charting(g)  BY DEF ChartsInv
  <1>1. UNCHANGED <<pc, curve, tbl, nplots, pipe, process, shown, chart, failed, leaked, crashed>>
    BY DEF plotVars
  <1>2. Fresh(g)' <=> Fresh(g)  BY <1>1 DEF Fresh
  <1>3. CASE Reading
    <2>1. pc[g] = "init"  BY <1>3 DEF ChartsInv, ReadFirst
    <2> QED  BY <1>0, <1>1, <1>2, <2>1 DEF Charting
  <1>4. CASE ~Reading
    <2>1. CurvesOf' = CurvesOf  BY <1>4, CurvesSteady
    <2>2. Fine(g)' <=> Fine(g)  BY <1>1, <2>1 DEF Fine
    <2>3. Finished(g)' <=> Finished(g)  BY <1>1, <2>1 DEF Finished, Curves
    <2>4. InProgress(g) => InProgress(g)'
      <3>1. Requested(g)' = Requested(g)  BY <1>1 DEF Requested
      <3>2. (\E s : Leading(g, s)) => (\E s : Leading(g, s))'  BY <1>1, <3>1, StagesKept
      <3> QED  BY <1>1, <2>1, <3>2 DEF InProgress
    <2> QED  BY <1>0, <1>1, <1>2, <2>2, <2>3, <2>4 DEF Charting
  <1> QED  BY <1>3, <1>4

LEMMA ChartsStep == ChartsInv /\ [NextPlotting]_<<vars, plotVars>> => ChartsInv'
  <1> SUFFICES ASSUME ChartsInv, [NextPlotting]_<<vars, plotVars>> PROVE ChartsInv'
    OBVIOUS
  <1>1. ReportInv'  BY ReportStep, ReportSteps DEF ChartsInv
  <1>2. GnuplotInv'  BY GnuplotStep DEF ChartsInv
  <1>3. CASE UNCHANGED plotVars
    <2>1. ReadFirst'
      <3>1. Reading' => Reading  BY CurvesSteady
      <3>2. pc' = pc  BY <1>3 DEF plotVars
      <3> QED  BY <3>1, <3>2 DEF ChartsInv, ReadFirst
    <2>2. \A g \in Graphs : Charting(g)'  BY <1>3, ChartingReads
    <2> QED  BY <1>1, <1>2, <2>1, <2>2 DEF ChartsInv
  <1>4. ASSUME ~Reading, NEW h \in Graphs, G!Program(h) \/ G!Process(h) \/ G!Dies(h)
        PROVE  ChartsInv'
    <2>1. CurvesOf' = CurvesOf /\ ~Reading'  BY <1>4, CurvesSteady
    <2>2. ASSUME NEW g \in Graphs PROVE Charting(g)'
      <3>1. CASE g = h  BY <1>4, <2>1, <3>1, ChartingStep
      <3>2. CASE g # h  BY <1>4, <2>1, <3>2, ChartingElsewhere
      <3> QED  BY <3>1, <3>2
    <2> QED  BY <1>1, <1>2, <2>1, <2>2 DEF ChartsInv, ReadFirst
  <1> QED  BY <1>3, <1>4 DEF NextPlotting, G!Next

\* The invariant of the charts, on which the last theorem rests.
THEOREM ChartsInvariant == SpecPlotting => []ChartsInv
  BY ChartsInit, ChartsStep, PTL DEF SpecPlotting

\* Each chart that is closed is one image with all its curves, in order, unless its
\* process or one of its files failed or it has too many curves; and if the report
\* fits its buffers, the slave's chart has one curve for each of its switches.
THEOREM AllCharts == SpecPlotting => []Charts
  <1>1. ChartsInv => Charts
    <2> SUFFICES ASSUME ChartsInv PROVE Charts
      OBVIOUS
    <2>1. G!Charts
      <3> SUFFICES ASSUME NEW g \in Graphs, pc[g] = "closed", g \notin failed \cup leaked,
                          CurvesOf[g] < MaxTmp
                   PROVE  chart[g] = <<Curves(g, CurvesOf[g])>>
        BY DEF G!Charts, Curves
      <3>1. Fine(g)  BY DEF Fine
      <3> QED  BY <3>1 DEF ChartsInv, Charting, Finished
    <2> SUFFICES ASSUME pc["values"] = "closed", "values" \notin failed \cup leaked,
                        Fits, params.nSwitches < MaxTmp,
                        NEW i \in DOMAIN chart["values"]
                 PROVE  Len(chart["values"][i]) = params.nSwitches
      BY <2>1 DEF Charts
    <2>2. "values" \in Graphs  BY DEF Graphs
    <2>3. PICK n \in Nat \ {0} : n = params.nSwitches
      <3>1. params.nSwitches \in Switches  BY DEF ChartsInv, ReportInv, Queued, Slaves
      <3> QED  BY <3>1, ParamAssumption
    <2>4. Received(1) = n
      <3>1. ~Reading  BY <2>2 DEF ChartsInv, ReadFirst
      <3>2. Strings /\ InPlace  BY DEF ChartsInv, ReportInv
      <3>3. Len(got) \in Nat /\ Len(number) \in Nat /\ Len(number) = Minimum(Len(got), 4)
        BY <3>2 DEF Strings
      <3>4. Len(number) >= 1
        <4> SUFFICES ASSUME Len(number) < 1 PROVE FALSE
          BY <3>3
        <4>1. Calls = 7  BY <3>3 DEF Calls
        <4>2. Len(got) >= 7  BY <3>1, <3>3, <4>1 DEF Reading
        <4> QED  BY <3>3, <4>2 DEF Minimum
      <3>5. number[1] = Numbers(params)[1]  BY <3>2, <3>3, <3>4 DEF InPlace
      <3>6. Numbers(params)[1] = n  BY <2>3 DEF Numbers
      <3> QED  BY <3>4, <3>5, <3>6 DEF Received
    <2>5. CurvesOf["values"] = n
      <3>1. AtLeastOne(Received(1)) = n  BY <2>3, <2>4 DEF AtLeastOne
      <3>2. Flows["values"] = n  BY <3>1 DEF Flows
      <3> QED  BY <3>2 DEF CurvesOf, Flows
    <2>6. chart["values"] = <<Curves("values", n)>>
      BY <2>1, <2>2, <2>3, <2>5 DEF G!Charts, Curves
    <2>7. i = 1  BY <2>6
    <2>8. Len(Curves("values", n)) = n  BY <2>3 DEF Curves
    <2> QED  BY <2>3, <2>6, <2>7, <2>8
  <1> QED  BY <1>1, ChartsInvariant, PTL
=============================================================================
