---------------------------- MODULE MsgBufProofs ----------------------------
(* Theorems about MsgBuf, for every byte set, buffer size and set of chunks. *)
EXTENDS MsgBuf, TLAPS

\* The inductive invariant.
Inv == TypeOK /\ WindowOK /\ NoJunk

\* What a store and a reallocation do to an array.
LEMMA StoreType ==
    ASSUME NEW n \in Nat, NEW b \in [0..(n - 1) -> Byte \cup {Junk}],
           NEW at \in Nat, NEW s \in Seq(Byte)
    PROVE  /\ Store(b, at, s) \in [0..(n - 1) -> Byte \cup {Junk}]
           /\ \A i \in 0..(n - 1) :
                 /\ i >= at /\ i < at + Len(s) => /\ i - at + 1 \in 1..Len(s)
                                                  /\ Store(b, at, s)[i] = s[i - at + 1]
                                                  /\ Store(b, at, s)[i] \in Byte
                 /\ ~(i >= at /\ i < at + Len(s)) => Store(b, at, s)[i] = b[i]
  <1>1. ASSUME NEW i \in 0..(n - 1), i >= at, i < at + Len(s)
        PROVE  i - at + 1 \in 1..Len(s) /\ s[i - at + 1] \in Byte
    <2>1. Len(s) \in Nat  OBVIOUS
    <2>2. i - at + 1 \in 1..Len(s)  BY <1>1, <2>1
    <2> QED  BY <2>2
  <1>2. DOMAIN b = 0..(n - 1)  OBVIOUS
  <1> QED  BY <1>1, <1>2 DEF Store

LEMMA ReallocType ==
    ASSUME NEW n \in Nat, NEW m \in Nat, n <= m,
           NEW b \in [0..(n - 1) -> Byte \cup {Junk}]
    PROVE  /\ Realloc(b, m) \in [0..(m - 1) -> Byte \cup {Junk}]
           /\ \A i \in 0..(n - 1) : Realloc(b, m)[i] = b[i]
  <1>1. DOMAIN b = 0..(n - 1)  OBVIOUS
  <1> QED  BY <1>1 DEF Realloc

\* The front of the buffer is a string of bytes of the length asked for.
LEMMA FrontType ==
    ASSUME Inv, NEW n \in Nat, n <= Buffered
    PROVE  /\ Front(n) \in Seq(Byte)
           /\ Len(Front(n)) = n
           /\ \A i \in 1..n : Front(n)[i] = buf[start + i - 1]
  <1>1. ASSUME NEW i \in 1..n PROVE buf[start + i - 1] \in Byte
    <2>1. start + i - 1 \in 0..(len - 1) /\ start + i - 1 >= start /\ start + i - 1 < end
      BY DEF Inv, TypeOK, WindowOK, Buffered
    <2> QED  BY <2>1 DEF Inv, NoJunk
  <1>2. Front(n) \in [1..n -> Byte]  BY <1>1 DEF Front
  <1>3. Front(n) \in Seq(Byte)  BY <1>2
  <1>4. Len(Front(n)) = n  BY <1>2, <1>3
  <1> QED  BY <1>3, <1>4 DEF Front

\* Taking n bytes away keeps the invariant and hands out the n oldest.
LEMMA ConsumeInv ==
    ASSUME Inv, NEW n \in Nat, n <= Buffered, Consume(n), UNCHANGED <<buf, len, pending, pushed>>
    PROVE  Inv'
  <1>1. Front(n) \in Seq(Byte)  BY FrontType
  <1>2. TypeOK'  BY <1>1 DEF Inv, TypeOK, WindowOK, Consume, Buffered
  <1>3. WindowOK'  BY DEF Inv, TypeOK, WindowOK, Consume, Buffered
  <1>4. NoJunk'  BY DEF Inv, TypeOK, WindowOK, NoJunk, Consume, Buffered
  <1> QED  BY <1>2, <1>3, <1>4 DEF Inv

LEMMA InitInv == Init => Inv
  <1> SUFFICES ASSUME Init PROVE Inv
    OBVIOUS
  <1>1. pushed \in BOOLEAN  BY DEF Init
  <1>2. TypeOK  BY <1>1, BufSizeAssumption DEF Init, TypeOK
  <1>3. WindowOK /\ NoJunk  BY BufSizeAssumption DEF Init, WindowOK, NoJunk
  <1> QED  BY <1>2, <1>3 DEF Inv

LEMMA ReadInv ==
    ASSUME Inv, NEW s \in Chunk, Read(s)
    PROVE  Inv'
  <1>1. s \in Seq(Byte) /\ Len(s) \in Nat /\ Len(s) > 0
    <2>1. s \in Seq(Byte) /\ s # <<>>  BY ChunkAssumption
    <2> QED  BY <2>1
  <1> DEFINE st == Store(buf, end, s)
  <1>2. /\ st \in [0..(len - 1) -> Byte \cup {Junk}]
        /\ \A i \in 0..(len - 1) :
              /\ i >= end /\ i < end + Len(s) => st[i] \in Byte
              /\ ~(i >= end /\ i < end + Len(s)) => st[i] = buf[i]
    <2>1. len \in Nat /\ end \in Nat /\ buf \in [0..(len - 1) -> Byte \cup {Junk}]
      BY DEF Inv, TypeOK
    <2> HIDE DEF st
    <2>2. ASSUME st = Store(buf, end, s)
          PROVE  /\ st \in [0..(len - 1) -> Byte \cup {Junk}]
                 /\ \A i \in 0..(len - 1) :
                       /\ i >= end /\ i < end + Len(s) => /\ i - end + 1 \in 1..Len(s)
                                                          /\ st[i] = s[i - end + 1]
                                                          /\ st[i] \in Byte
                       /\ ~(i >= end /\ i < end + Len(s)) => st[i] = buf[i]
      BY <1>1, <2>1, <2>2, StoreType, SMT
    <2>3. st = Store(buf, end, s)  BY DEF st
    <2> QED  BY <2>2, <2>3
  <1>3. len' \in Nat \ {0} /\ len <= len' /\ end' <= len' /\ end' = end + Len(s)
    BY <1>1 DEF Read, Inv, TypeOK, WindowOK
  <1>4. buf' = Realloc(st, len')  BY DEF Read
  <1>5. /\ buf' \in [0..(len' - 1) -> Byte \cup {Junk}]
        /\ \A i \in 0..(len - 1) : buf'[i] = st[i]
    <2> HIDE DEF st
    <2>1. len \in Nat /\ len' \in Nat  BY <1>3 DEF Inv, TypeOK
    <2> QED  BY <2>1, <1>2, <1>3, <1>4, ReallocType
  <1> HIDE DEF st
  <1>6. /\ end + Len(s) <= len /\ given' = <<>> /\ start' = start
        /\ pending' = pending /\ pushed' = pushed
    BY <1>1 DEF Read, Inv, TypeOK
  <1>7. TypeOK'
    <2>1. /\ start' \in Nat /\ pending' \in Seq(Byte) /\ given' \in Seq(Byte)
          /\ pushed' \in BOOLEAN
      BY <1>6 DEF Inv, TypeOK
    <2>2. end' \in Nat  BY <1>1, <1>3 DEF Inv, TypeOK
    <2>3. buf' \in [0..(len' - 1) -> Byte \cup {Junk}]  BY <1>5
    <2> QED  BY <1>3, <2>1, <2>2, <2>3 DEF TypeOK
  <1>8. WindowOK'  BY <1>1, <1>3, <1>6 DEF Inv, TypeOK, WindowOK
  <1>9. NoJunk'
    <2> SUFFICES ASSUME NEW i \in 0..(len' - 1), i >= start, i < end + Len(s)
                 PROVE  buf'[i] \in Byte
      BY <1>3, <1>6 DEF NoJunk
    <2>1. i \in 0..(len - 1)  BY <1>1, <1>6 DEF Inv, TypeOK
    <2>2. CASE i >= end  BY <2>1, <2>2, <1>2, <1>5
    <2>3. CASE ~(i >= end)
      BY <2>1, <2>3, <1>2, <1>5 DEF Inv, TypeOK, NoJunk
    <2> QED  BY <2>2, <2>3
  <1> QED  BY <1>7, <1>8, <1>9 DEF Inv

\* Growing the array, or leaving it alone, keeps the invariant.
LEMMA GrowInv ==
    ASSUME Inv, len' \in Nat \ {0}, len <= len', buf' = Realloc(buf, len'),
           given' \in Seq(Byte), pushed' \in BOOLEAN, UNCHANGED <<start, end, pending>>
    PROVE  Inv'
  <1>1. /\ buf' \in [0..(len' - 1) -> Byte \cup {Junk}]
        /\ \A i \in 0..(len - 1) : buf'[i] = buf[i]
    <2>1. len \in Nat /\ len' \in Nat /\ buf \in [0..(len - 1) -> Byte \cup {Junk}]
      BY DEF Inv, TypeOK
    <2>2. PICK m : m = len'  OBVIOUS
    <2>3. m \in Nat /\ len <= m  BY <2>1, <2>2
    <2>4. /\ Realloc(buf, m) \in [0..(m - 1) -> Byte \cup {Junk}]
          /\ \A i \in 0..(len - 1) : Realloc(buf, m)[i] = buf[i]
      BY <2>1, <2>3, ReallocType
    <2> QED  BY <2>2, <2>4
  <1>2. start' \in Nat /\ end' \in Nat /\ pending' \in Seq(Byte)
    BY DEF Inv, TypeOK
  <1>3. TypeOK'  BY <1>1, <1>2 DEF TypeOK
  <1>4. WindowOK'  BY DEF Inv, TypeOK, WindowOK
  <1>5. NoJunk'
    <2> SUFFICES ASSUME NEW i \in 0..(len' - 1), i >= start, i < end
                 PROVE  buf'[i] \in Byte
      BY DEF NoJunk
    <2>1. i \in 0..(len - 1)  BY DEF Inv, TypeOK, WindowOK
    <2>2. buf[i] \in Byte  BY <2>1 DEF Inv, NoJunk
    <2> QED  BY <2>1, <2>2, <1>1
  <1> QED  BY <1>3, <1>4, <1>5 DEF Inv

LEMMA ReadNothingInv == Inv /\ ReadNothing => Inv'
  <1> SUFFICES ASSUME Inv, ReadNothing PROVE Inv'
    OBVIOUS
  <1>1. len' \in Nat \ {0} /\ len <= len'  BY DEF ReadNothing, Inv, TypeOK
  <1>2. given' \in Seq(Byte) /\ pushed' \in BOOLEAN  BY DEF ReadNothing, Inv, TypeOK
  <1> QED  BY <1>1, <1>2, GrowInv DEF ReadNothing, Idle

LEMMA PushGrowInv == Inv /\ PushGrow => Inv'
  <1> SUFFICES ASSUME Inv, PushGrow PROVE Inv'
    OBVIOUS
  <1>1. len' \in Nat \ {0} /\ len <= len'  BY DEF PushGrow, Inv, TypeOK
  <1>2. given' \in Seq(Byte) /\ pushed' \in BOOLEAN  BY DEF PushGrow, Inv, TypeOK
  <1> QED  BY <1>1, <1>2, GrowInv DEF PushGrow

LEMMA PushCopyInv == Inv /\ PushCopy => Inv'
  <1> SUFFICES ASSUME Inv, PushCopy PROVE Inv'
    OBVIOUS
  <1>1. pending \in Seq(Byte) /\ Len(pending) \in Nat /\ Len(pending) > 0
    BY DEF Inv, TypeOK, PushCopy, Idle
  <1>2. /\ buf' \in [0..(len - 1) -> Byte \cup {Junk}]
        /\ \A i \in 0..(len - 1) :
              /\ i >= end /\ i < end + Len(pending) => buf'[i] \in Byte
              /\ ~(i >= end /\ i < end + Len(pending)) => buf'[i] = buf[i]
    BY <1>1, StoreType DEF PushCopy, Inv, TypeOK
  <1>3. /\ end' = end + Len(pending) /\ end + Len(pending) <= len
        /\ pending' = <<>> /\ given' = <<>> /\ UNCHANGED <<len, start, pushed>>
    BY <1>1 DEF PushCopy, NoRoom, Inv, TypeOK
  <1>4. TypeOK'  BY <1>1, <1>2, <1>3 DEF Inv, TypeOK
  <1>5. WindowOK'  BY <1>1, <1>3 DEF Inv, TypeOK, WindowOK
  <1>6. NoJunk'
    <2> SUFFICES ASSUME NEW i \in 0..(len - 1), i >= start, i < end + Len(pending)
                 PROVE  buf'[i] \in Byte
      BY <1>3 DEF NoJunk
    <2>1. CASE i >= end  BY <2>1, <1>2
    <2>2. CASE ~(i >= end)  BY <2>2, <1>2 DEF Inv, TypeOK, NoJunk
    <2> QED  BY <2>1, <2>2
  <1> QED  BY <1>4, <1>5, <1>6 DEF Inv

LEMMA NextInv == Inv /\ [Next]_vars => Inv'
  <1> SUFFICES ASSUME Inv, [Next]_vars PROVE Inv'
    OBVIOUS
  <1>1. CASE ReadAny  BY <1>1, ReadInv DEF ReadAny
  <1>2. CASE ReadNothing  BY <1>2, ReadNothingInv
  <1>3. CASE PullAny
    <2>1. PICK count \in 1..MaxLen : Pull(count)  BY <1>3 DEF PullAny
    <2> DEFINE n == IF count < Buffered THEN count ELSE Buffered
    <2>2. n \in Nat /\ n <= Buffered
      BY MaxLenAssumption DEF Inv, TypeOK, WindowOK, Buffered
    <2>3. Consume(n) /\ UNCHANGED <<buf, len, pending, pushed>>  BY <2>1 DEF Pull
    <2> HIDE DEF n
    <2> QED  BY <2>2, <2>3, ConsumeInv
  <1>4. CASE WriteAny
    <2>1. PICK want \in 0..MaxLen, k \in 0..MaxLen : Write(want, k)  BY <1>4 DEF WriteAny
    <2>2. k \in Nat /\ k <= Buffered
      BY <2>1, MaxLenAssumption DEF Write, Inv, TypeOK, WindowOK, Buffered
    <2>3. Consume(k) /\ UNCHANGED <<buf, len, pending, pushed>>  BY <2>1 DEF Write
    <2> QED  BY <2>2, <2>3, ConsumeInv
  <1>5. CASE ShortAny
    BY <1>5 DEF ShortAny, WriteShort, Inv, TypeOK, WindowOK, NoJunk
  <1>6. CASE Clear
    BY <1>6 DEF Clear, Inv, TypeOK, WindowOK, NoJunk
  <1>7. CASE PushAny
    BY <1>7, ChunkAssumption DEF PushAny, PushCall, Inv, TypeOK, WindowOK, NoJunk
  <1>8. CASE PushGrow  BY <1>8, PushGrowInv
  <1>9. CASE PushCopy  BY <1>9, PushCopyInv
  <1>10. CASE UNCHANGED vars
    BY <1>10 DEF vars, Inv, TypeOK, WindowOK, NoJunk
  <1> QED
    BY <1>1, <1>2, <1>3, <1>4, <1>5, <1>6, <1>7, <1>8, <1>9, <1>10 DEF Next

\* Every call of msgbuf.c keeps the array, the window and the live bytes well
\* formed: nothing outside the array is touched and no junk is ever live.
THEOREM Safety == Spec => [](TypeOK /\ Sound)
  <1>1. Spec => []Inv  BY InitInv, NextInv, PTL DEF Spec
  <1>2. Inv => TypeOK /\ Sound  BY DEF Inv, Sound
  <1> QED  BY <1>1, <1>2, PTL

\* ReadRoom made inductive: only a push leaves bytes to be copied.
RoomInv == ReadRoom /\ (~pushed => Idle)

\* A read always finds room in a buffer that nothing was pushed to: it never
\* asks read() for 0 bytes, so that a result of 0 does mean that the controller
\* closed the connection.
THEOREM InbufReadRoom == Spec => []ReadRoom
  <1>1. Init => Inv /\ RoomInv
    BY InitInv, BufSizeAssumption DEF Init, RoomInv, ReadRoom, Idle
  <1>2. Inv /\ RoomInv /\ [Next]_vars => Inv' /\ RoomInv'
    <2> SUFFICES ASSUME Inv, RoomInv, [Next]_vars PROVE RoomInv'
      BY NextInv
    <2> USE DEF Inv, TypeOK, WindowOK, RoomInv, ReadRoom, Idle
    <2>1. ASSUME NEW s \in Chunk, Read(s) PROVE RoomInv'
      <3>1. Len(s) \in Nat  BY ChunkAssumption
      <3> QED  BY <2>1, <3>1 DEF Read
    <2>2. CASE ReadNothing  BY <2>2 DEF ReadNothing
    <2>3. CASE PullAny  BY <2>3 DEF PullAny, Pull, Consume
    <2>4. CASE WriteAny  BY <2>4 DEF WriteAny, Write, Consume
    <2>5. CASE ShortAny  BY <2>5 DEF ShortAny, WriteShort
    <2>6. CASE Clear  BY <2>6 DEF Clear
    <2>7. CASE PushAny  BY <2>7 DEF PushAny, PushCall
    <2>8. CASE PushGrow \/ PushCopy  BY <2>8 DEF PushGrow, PushCopy
    <2>9. CASE UNCHANGED vars  BY <2>9 DEF vars
    <2> QED
      BY <2>1, <2>2, <2>3, <2>4, <2>5, <2>6, <2>7, <2>8, <2>9 DEF Next, ReadAny
  <1>3. RoomInv => ReadRoom  BY DEF RoomInv
  <1> QED  BY <1>1, <1>2, <1>3, PTL DEF Spec

-----------------------------------------------------------------------------
(* Refinement: every step of MsgBuf is a step of ByteQueue, or stutters.    *)

\* c is the string of the live bytes b[st], ..., b[en - 1].
IsWindow(c, b, st, en) ==
    /\ c \in Seq(Byte)
    /\ Len(c) = en - st
    /\ \A i \in 1..(en - st) : c[i] = b[st + i - 1]

ContentsOK == IsWindow(Contents, buf, start, end)

LEMMA ContentsWindow == Inv => ContentsOK
  <1> SUFFICES ASSUME Inv PROVE IsWindow(Contents, buf, start, end)
    BY DEF ContentsOK
  <1>1. Buffered \in Nat /\ Buffered <= Buffered  BY DEF Inv, TypeOK, WindowOK, Buffered
  <1> QED  BY <1>1, FrontType DEF IsWindow, Contents, Buffered

\* A step that keeps the live bytes where they are, perhaps with new ones
\* after them, is an Accept.
LEMMA AcceptStep ==
    ASSUME Inv, Inv', given' = <<>>, start' = start, end <= end',
           \A i \in 0..(len - 1) : i >= start /\ i < end => buf'[i] = buf[i]
    PROVE  Queue!Accept
  <1>1. PICK c, d, b2, en2 : c = Contents /\ d = Contents' /\ b2 = buf' /\ en2 = end'
    OBVIOUS
  <1>2. IsWindow(c, buf, start, end)  BY <1>1, ContentsWindow DEF ContentsOK
  <1>3. IsWindow(d, b2, start, en2)
    <2>1. ContentsOK'  BY ContentsWindow, PTL
    <2> QED  BY <2>1, <1>1 DEF ContentsOK
  <1>4. /\ start \in Nat /\ end \in Nat /\ len \in Nat
        /\ start <= end /\ end <= len
    BY DEF Inv, TypeOK, WindowOK
  <1>5. en2 \in Nat /\ end <= en2  BY <1>1 DEF Inv, TypeOK
  <1>6. \A i \in 0..(len - 1) : i >= start /\ i < end => b2[i] = buf[i]  BY <1>1
  <1>7. ASSUME NEW i \in 1..(end - start) PROVE d[i] = c[i]
    <2>1. i \in 1..(en2 - start)  BY <1>4, <1>5
    <2>2. start + i - 1 \in 0..(len - 1) /\ start + i - 1 >= start /\ start + i - 1 < end
      BY <1>4
    <2>3. c[i] = buf[start + i - 1]  BY <1>2 DEF IsWindow
    <2>4. d[i] = b2[start + i - 1]  BY <1>3, <2>1 DEF IsWindow
    <2> QED  BY <1>6, <2>2, <2>3, <2>4
  <1>8. Len(c) = end - start /\ Len(d) = en2 - start /\ d \in Seq(Byte)
    BY <1>2, <1>3 DEF IsWindow
  <1>9. Len(d) >= Len(c)  BY <1>8, <1>4, <1>5
  <1>10. \A i \in 1..Len(c) : d[i] = c[i]  BY <1>7, <1>8
  <1> QED  BY <1>1, <1>8, <1>9, <1>10 DEF Queue!Accept

\* Consume is a Deliver of the n oldest bytes.
LEMMA DeliverStep ==
    ASSUME Inv, Inv', NEW n \in Nat, n <= Buffered, Consume(n),
           UNCHANGED <<buf, len, pending, pushed>>
    PROVE  Queue!Deliver
  <1>1. PICK c, d, g, st2, en2 :
           /\ c = Contents /\ d = Contents' /\ g = given' /\ st2 = start' /\ en2 = end'
    OBVIOUS
  <1>2. IsWindow(c, buf, start, end)  BY <1>1, ContentsWindow DEF ContentsOK
  <1>3. IsWindow(d, buf, st2, en2)
    <2>1. ContentsOK'  BY ContentsWindow, PTL
    <2> QED  BY <2>1, <1>1 DEF ContentsOK
  <1>4. /\ g \in Seq(Byte) /\ Len(g) = n
        /\ \A i \in 1..n : g[i] = buf[start + i - 1]
    BY <1>1, FrontType DEF Consume
  <1>5. /\ start \in Nat /\ end \in Nat /\ st2 \in Nat /\ en2 \in Nat
        /\ n <= end - start
    BY <1>1 DEF Inv, TypeOK, Buffered
  <1>6. IF start + n >= end THEN st2 = 0 /\ en2 = 0 ELSE st2 = start + n /\ en2 = end
    BY <1>1 DEF Consume
  <1>7. en2 - st2 = (end - start) - n  BY <1>5, <1>6
  <1>8. ASSUME NEW i \in 1..n PROVE g[i] = c[i]
    <2>1. i \in 1..(end - start)  BY <1>5
    <2> QED  BY <2>1, <1>2, <1>4 DEF IsWindow
  <1>9. ASSUME NEW i \in 1..(en2 - st2) PROVE d[i] = c[i + n]
    <2>1. i + n \in 1..(end - start) /\ st2 = start + n  BY <1>5, <1>6, <1>7
    <2>2. st2 + i - 1 = start + (i + n) - 1  BY <2>1, <1>5
    <2>3. d[i] = buf[st2 + i - 1]  BY <1>3 DEF IsWindow
    <2>4. c[i + n] = buf[start + (i + n) - 1]  BY <1>2, <2>1 DEF IsWindow
    <2> QED  BY <2>2, <2>3, <2>4
  <1>10. Len(c) = end - start /\ Len(d) = en2 - st2 /\ d \in Seq(Byte)
    BY <1>2, <1>3 DEF IsWindow
  <1>11. Len(c) = Len(g) + Len(d)  BY <1>4, <1>5, <1>7, <1>10
  <1>12. /\ \A i \in 1..Len(g) : g[i] = c[i]
         /\ \A i \in 1..Len(d) : d[i] = c[i + Len(g)]
    BY <1>4, <1>8, <1>9, <1>10
  <1> QED  BY <1>1, <1>4, <1>10, <1>11, <1>12 DEF Queue!Deliver

LEMMA NextRefines == Inv /\ Inv' /\ [Next]_vars => [Queue!Next]_(Queue!vars)
  <1> SUFFICES ASSUME Inv, Inv', [Next]_vars PROVE [Queue!Next]_(Queue!vars)
    OBVIOUS
  <1> USE DEF Queue!Next
  <1>1. ASSUME NEW s \in Chunk, Read(s) PROVE Queue!Accept
    <2>1. /\ len \in Nat /\ end \in Nat /\ buf \in [0..(len - 1) -> Byte \cup {Junk}]
          /\ s \in Seq(Byte) /\ Len(s) \in Nat /\ len <= len' /\ len' \in Nat
      BY <1>1, ChunkAssumption DEF Read, Inv, TypeOK
    <2> DEFINE st == Store(buf, end, s)
    <2>2. /\ st \in [0..(len - 1) -> Byte \cup {Junk}]
          /\ \A i \in 0..(len - 1) : ~(i >= end /\ i < end + Len(s)) => st[i] = buf[i]
      BY <2>1, StoreType
    <2>3. buf' = Realloc(st, len')  BY <1>1 DEF Read
    <2> HIDE DEF st
    <2>4. \A i \in 0..(len - 1) : buf'[i] = st[i]  BY <2>1, <2>2, <2>3, ReallocType
    <2>5. \A i \in 0..(len - 1) : i >= start /\ i < end => buf'[i] = buf[i]
      BY <2>1, <2>2, <2>4
    <2>6. given' = <<>> /\ start' = start /\ end <= end'  BY <1>1, <2>1 DEF Read
    <2> QED  BY <2>5, <2>6, AcceptStep
  <1>2. CASE ReadNothing
    <2>1. /\ len \in Nat /\ len' \in Nat /\ len <= len'
          /\ buf \in [0..(len - 1) -> Byte \cup {Junk}]
      BY <1>2 DEF ReadNothing, Inv, TypeOK
    <2>2. \A i \in 0..(len - 1) : buf'[i] = buf[i]  BY <1>2, <2>1, ReallocType DEF ReadNothing
    <2>3. given' = <<>> /\ start' = start /\ end <= end'
      BY <1>2 DEF ReadNothing, Inv, TypeOK
    <2> QED  BY <2>2, <2>3, AcceptStep
  <1>3. CASE PullAny
    <2>1. PICK count \in 1..MaxLen : Pull(count)  BY <1>3 DEF PullAny
    <2> DEFINE n == IF count < Buffered THEN count ELSE Buffered
    <2>2. n \in Nat /\ n <= Buffered
      BY MaxLenAssumption DEF Inv, TypeOK, WindowOK, Buffered
    <2>3. Consume(n) /\ UNCHANGED <<buf, len, pending, pushed>>  BY <2>1 DEF Pull
    <2> HIDE DEF n
    <2> QED  BY <2>2, <2>3, DeliverStep
  <1>4. CASE WriteAny
    <2>1. PICK want \in 0..MaxLen, k \in 0..MaxLen : Write(want, k)  BY <1>4 DEF WriteAny
    <2>2. k \in Nat /\ k <= Buffered
      BY <2>1, MaxLenAssumption DEF Write, Inv, TypeOK, WindowOK, Buffered
    <2>3. Consume(k) /\ UNCHANGED <<buf, len, pending, pushed>>  BY <2>1 DEF Write
    <2> QED  BY <2>2, <2>3, DeliverStep
  <1>5. CASE ShortAny
    <2>1. /\ given' = <<>> /\ start' = start /\ end <= end'
          /\ \A i \in 0..(len - 1) : i >= start /\ i < end => buf'[i] = buf[i]
      BY <1>5 DEF ShortAny, WriteShort, Inv, TypeOK
    <2> QED  BY <2>1, AcceptStep
  <1>6. CASE Clear
    <2>1. IsWindow(Contents', buf', start', end')
      <3>1. ContentsOK'  BY ContentsWindow, PTL
      <3> QED  BY <3>1 DEF ContentsOK
    <2>2. start' = 0 /\ end' = 0 /\ given' = <<>>  BY <1>6 DEF Clear
    <2>3. IsWindow(Contents', buf', 0, 0)  BY <2>1, <2>2
    <2>4. Contents' = <<>>  BY <2>3 DEF IsWindow
    <2> QED  BY <2>2, <2>4 DEF Queue!Discard
  <1>7. CASE PushAny
    <2>1. /\ given' = <<>> /\ start' = start /\ end <= end'
          /\ \A i \in 0..(len - 1) : i >= start /\ i < end => buf'[i] = buf[i]
      BY <1>7 DEF PushAny, PushCall, Inv, TypeOK
    <2> QED  BY <2>1, AcceptStep
  <1>8. CASE PushGrow
    <2>1. /\ len \in Nat /\ len' \in Nat /\ len <= len'
          /\ buf \in [0..(len - 1) -> Byte \cup {Junk}]
      BY <1>8 DEF PushGrow, Inv, TypeOK
    <2>2. \A i \in 0..(len - 1) : buf'[i] = buf[i]  BY <1>8, <2>1, ReallocType DEF PushGrow
    <2>3. given' = <<>> /\ start' = start /\ end <= end'
      BY <1>8 DEF PushGrow, Inv, TypeOK
    <2> QED  BY <2>2, <2>3, AcceptStep
  <1>9. CASE PushCopy
    <2>1. /\ len \in Nat /\ end \in Nat /\ buf \in [0..(len - 1) -> Byte \cup {Junk}]
          /\ pending \in Seq(Byte) /\ Len(pending) \in Nat
      BY DEF Inv, TypeOK
    <2>2. \A i \in 0..(len - 1) :
             ~(i >= end /\ i < end + Len(pending)) => buf'[i] = buf[i]
      BY <1>9, <2>1, StoreType DEF PushCopy
    <2>3. \A i \in 0..(len - 1) : i >= start /\ i < end => buf'[i] = buf[i]
      BY <2>1, <2>2
    <2>4. given' = <<>> /\ start' = start /\ end <= end'  BY <1>9, <2>1 DEF PushCopy
    <2> QED  BY <2>3, <2>4, AcceptStep
  <1>10. CASE UNCHANGED vars
    BY <1>10 DEF vars, Queue!vars, Contents, Buffered, Front
  <1> QED
    BY <1>1, <1>2, <1>3, <1>4, <1>5, <1>6, <1>7, <1>8, <1>9, <1>10 DEF Next, ReadAny

\* The message buffer implements the byte queue: what is read or pushed into it
\* is what is pulled from it or written to the socket, every byte once and in
\* order, through growths, short writes and resets of the window.
THEOREM Refinement == Spec => FifoQueue
  <1>1. Init => Queue!Init
    BY DEF Init, Queue!Init, Contents, Buffered, Front
  <1>2. Spec => []Inv  BY InitInv, NextInv, PTL DEF Spec
  <1> QED  BY <1>1, <1>2, NextRefines, PTL DEF Spec, FifoQueue, Queue!Spec
=============================================================================
