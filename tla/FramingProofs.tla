---------------------------- MODULE FramingProofs ----------------------------
(* Theorems about Framing, for every stream of messages and every way of      *)
(* cutting it.                                                                *)
EXTENDS Framing, TLAPS

\* The constants' facts in the form the proofs use them.
LEMMA Stream ==
    /\ Total \in Nat
    /\ Bounds \subseteq 0..Total
    /\ \A p \in Starts : Length[p] \in Nat /\ Length[p] > 0 /\ p + Length[p] \in Bounds
    /\ \A p \in Starts, b \in Bounds : b > p => b >= p + Length[p]
  <1>1. Total \in Nat /\ Starts \subseteq 0..(Total - 1)  BY StreamAssumption
  <1>2. Bounds \subseteq 0..Total  BY <1>1 DEF Bounds
  <1>3. \A p \in Starts : Length[p] \in Nat  BY StreamAssumption
  <1> QED  BY <1>1, <1>2, <1>3, StreamAssumption

LEMMA MsgLenType == ASSUME NEW m \in MsgLen PROVE m \in Nat
  BY Stream, StaleAssumption DEF MsgLen

LEMMA InitType == Init => TypeOK
  <1> SUFFICES ASSUME Init PROVE TypeOK
    OBVIOUS
  <1>1. sent \in 0..Total /\ rd \in 0..sent /\ pulled \in 0..rd /\ cnt \in Int
    BY Stream DEF Init
  <1>2. pc \in {"run", "parse", "read", "drain"} /\ aligned \in BOOLEAN /\ drained \in BOOLEAN
    BY DEF Init
  <1> QED  BY <1>1, <1>2 DEF TypeOK

\* Pulling never passes what was read.
LEMMA PullToType ==
    ASSUME TypeOK, NEW m \in Nat
    PROVE  PullTo(m) \in 0..rd
  BY Stream DEF TypeOK, PullTo, Have

LEMMA NextType == TypeOK /\ [Next]_vars => TypeOK'
  <1> SUFFICES ASSUME TypeOK, [Next]_vars PROVE TypeOK'
    OBVIOUS
  <1> USE DEF TypeOK
  <1>1. CASE Arrive  BY <1>1, Stream DEF Arrive
  <1>2. CASE HandleRead  BY <1>2, Stream DEF HandleRead, ReadTo
  <1>3. CASE ParseMessage  BY <1>3, MsgLenType, PullToType DEF ParseMessage
  <1>4. CASE ParseReturn  BY <1>4 DEF ParseReturn
  <1>5. CASE CallGetCount  BY <1>5 DEF CallGetCount
  <1>6. CASE DrainRead
    <2>1. PICK r : r \in ReadTo /\ rd' = r  BY <1>6 DEF DrainRead
    <2>2. r \in 0..sent /\ r > rd  BY <2>1, Stream DEF ReadTo
    <2>3. cnt' = r - rd  BY <1>6, <2>1 DEF DrainRead
    <2> QED  BY <1>6, <2>1, <2>2, <2>3, Stream DEF DrainRead
  <1>7. CASE DrainEmpty  BY <1>7 DEF DrainEmpty
  <1>8. CASE DrainMessage
    <2>1. PICK m \in MsgLen : m <= cnt /\ pulled' = PullTo(m) /\ cnt' = cnt - m
      BY <1>8 DEF DrainMessage
    <2>2. m \in Nat  BY MsgLenType
    <2> QED  BY <1>8, <2>1, <2>2, PullToType DEF DrainMessage
  <1>9. CASE DrainBreak  BY <1>9 DEF DrainBreak
  <1>10. CASE UNCHANGED vars  BY <1>10 DEF vars
  <1> QED
    BY <1>1, <1>2, <1>3, <1>4, <1>5, <1>6, <1>7, <1>8, <1>9, <1>10
    DEF Next, ReadSteps, DrainSteps

\* The positions stay ordered: pulled, read, sent.
THEOREM Typed == Spec => []TypeOK
  BY InitType, NextType, PTL DEF Spec

-----------------------------------------------------------------------------
(* The poll loop alone.                                                     *)

\* Until switchGetCount is called the switch is in its own loop, and in step.
RunInv == ~drained => pulled \in Bounds /\ pc \in {"run", "parse"}

LEMMA RunStep == TypeOK /\ RunInv /\ [Next]_vars => RunInv'
  <1> SUFFICES ASSUME TypeOK, RunInv, [Next]_vars, ~drained' PROVE RunInv'
    BY DEF RunInv
  <1>1. CASE ParseMessage
    <2>1. PICK m \in MsgLen : m <= Have /\ pulled' = PullTo(m)
      BY <1>1 DEF ParseMessage
    <2>2. Have >= HeaderLen /\ ~drained /\ pulled \in Bounds /\ pc' \in {"run", "parse"}
      BY <1>1 DEF ParseMessage, RunInv
    <2>3. CASE pulled \in Starts
      <3>1. Have >= LenEnd
        BY <2>2, HeaderAssumption, Stream DEF Have, TypeOK
      <3>2. m = Length[pulled]  BY <2>1, <2>3, <3>1 DEF MsgLen
      <3>3. pulled' = pulled + Length[pulled]  BY <2>1, <3>2 DEF PullTo
      <3> QED  BY <2>2, <2>3, <3>3, Stream DEF RunInv
    <2>4. CASE pulled \notin Starts
      <3>1. pulled = Total  BY <2>2, <2>4 DEF Bounds
      <3>2. rd = Total  BY <3>1, Stream DEF TypeOK
      <3>3. PullTo(m) \in 0..rd  BY MsgLenType, PullToType
      <3>4. PullTo(m) = Total  BY <3>1, <3>2, <2>1, Stream, MsgLenType DEF PullTo, Have
      <3> QED  BY <2>1, <2>2, <3>4 DEF RunInv, Bounds
    <2> QED  BY <2>3, <2>4
  <1>2. CASE Arrive \/ HandleRead \/ ParseReturn \/ UNCHANGED vars
    BY <1>2 DEF Arrive, HandleRead, ParseReturn, vars, RunInv
  <1>3. CASE CallGetCount  BY <1>3 DEF CallGetCount
  <1>4. CASE DrainSteps
    BY <1>4 DEF DrainSteps, DrainRead, DrainEmpty, DrainMessage, DrainBreak, RunInv
  <1> QED  BY <1>1, <1>2, <1>3, <1>4 DEF Next, ReadSteps

-----------------------------------------------------------------------------
(* With switchGetCount.                                                     *)

LEMMA NextPeekSafe == TypeOK /\ PeekSafe /\ [Next]_vars => PeekSafe'
  <1> SUFFICES ASSUME TypeOK, PeekSafe, [Next]_vars PROVE PeekSafe'
    OBVIOUS
  <1>1. CASE Arrive  BY <1>1 DEF Arrive, PeekSafe, Have
  <1>2. CASE ReadSteps \/ CallGetCount \/ DrainEmpty \/ DrainBreak
    BY <1>2 DEF ReadSteps, HandleRead, ParseMessage, ParseReturn, CallGetCount,
                DrainEmpty, DrainBreak, PeekSafe
  <1>3. CASE DrainRead
    <2>1. PICK r, p, c : rd' = r /\ pulled' = p /\ cnt' = c  OBVIOUS
    <2>2. r \in ReadTo /\ c = r - rd /\ p = pulled  BY <1>3, <2>1 DEF DrainRead
    <2>3. r \in Int /\ r > rd  BY <2>2, Stream DEF ReadTo, TypeOK
    <2>4. c <= r - p  BY <2>2, <2>3, Stream DEF TypeOK
    <2> QED  BY <2>1, <2>4 DEF PeekSafe, Have
  <1>4. CASE DrainMessage
    <2>1. PICK m \in MsgLen : m <= cnt /\ pulled' = PullTo(m) /\ cnt' = cnt - m
      BY <1>4 DEF DrainMessage
    <2>2. PICK r, p, c : rd' = r /\ pulled' = p /\ cnt' = c  OBVIOUS
    <2>3. m \in Nat /\ r = rd /\ c = cnt - m /\ p = PullTo(m)
      BY <1>4, <2>1, <2>2, MsgLenType DEF DrainMessage
    <2>4. cnt <= rd - pulled  BY <1>4 DEF DrainMessage, PeekSafe, Have
    <2>5. p = pulled + m
      BY <2>1, <2>3, <2>4, Stream DEF PullTo, Have, TypeOK
    <2>6. c <= r - p  BY <2>3, <2>4, <2>5, Stream DEF TypeOK
    <2> QED  BY <2>2, <2>6 DEF PeekSafe, Have
  <1>5. CASE UNCHANGED vars  BY <1>5 DEF vars, PeekSafe, Have
  <1> QED  BY <1>1, <1>2, <1>3, <1>4, <1>5 DEF Next, DrainSteps

\* Whatever stale or misread lengths the inner loop of switchGetCount meets,
\* it never peeks into an empty buffer: the bytes of this read it has still to
\* account for are in inbuf.
THEOREM DrainPeekSafe == Spec => []PeekSafe
  <1>1. Init => TypeOK /\ PeekSafe
    BY InitType DEF Init, PeekSafe
  <1> QED  BY <1>1, NextType, NextPeekSafe, PTL DEF Spec

\* What holds when every read returns whole messages: both ends of inbuf are
\* message boundaries, and inbuf is empty between two calls.
AlignedInv ==
    /\ pulled \in Bounds
    /\ rd \in Bounds
    /\ pc \in {"run", "read"} => pulled = rd
    /\ pc = "drain" => cnt = rd - pulled

LEMMA AlignedStep ==
    ASSUME aligned, TypeOK, AlignedInv, [Next]_vars
    PROVE  AlignedInv'
  <1>1. pulled < rd => pulled \in Starts
    BY Stream DEF AlignedInv, TypeOK, Bounds
  <1>2. pulled < rd => /\ rd >= pulled + Length[pulled]
                       /\ Length[pulled] \in Nat /\ Length[pulled] >= HeaderLen
                       /\ MsgLen = {Length[pulled]}
                       /\ pulled + Length[pulled] \in Bounds
    <2> SUFFICES ASSUME pulled < rd
                 PROVE  /\ rd >= pulled + Length[pulled]
                        /\ Length[pulled] \in Nat /\ Length[pulled] >= HeaderLen
                        /\ MsgLen = {Length[pulled]}
                        /\ pulled + Length[pulled] \in Bounds
      OBVIOUS
    <2>1. pulled \in Starts /\ rd \in Bounds  BY <1>1 DEF AlignedInv
    <2>2. rd >= pulled + Length[pulled] /\ pulled + Length[pulled] \in Bounds
      BY <2>1, Stream
    <2>3. Length[pulled] \in Nat /\ Length[pulled] >= HeaderLen
      BY <2>1, Stream, StreamAssumption
    <2>4. Have >= LenEnd
      BY <2>2, <2>3, HeaderAssumption, Stream DEF Have, TypeOK
    <2> QED  BY <2>1, <2>2, <2>3, <2>4 DEF MsgLen
  <1>3. CASE Arrive  BY <1>3 DEF Arrive, AlignedInv
  <1>4. CASE HandleRead
    BY <1>4 DEF HandleRead, ReadTo, AlignedInv
  <1>5. CASE ParseMessage
    <2>1. PICK m \in MsgLen : m <= Have /\ pulled' = PullTo(m)
      BY <1>5 DEF ParseMessage
    <2>2. CASE pulled < rd
      <3>1. pulled' = pulled + Length[pulled]  BY <1>2, <2>1, <2>2 DEF PullTo
      <3> QED  BY <3>1, <1>2, <2>2, <1>5 DEF ParseMessage, AlignedInv
    <2>3. CASE ~(pulled < rd)
      <3>1. Have = 0  BY <2>3, Stream DEF Have, TypeOK
      <3>2. m = 0  BY <2>1, <3>1, MsgLenType
      <3>3. pulled' = pulled + 0  BY <2>1, <3>1, <3>2 DEF PullTo
      <3>4. pulled' = pulled  BY <3>3, Stream DEF TypeOK
      <3> QED  BY <3>4, <1>5 DEF ParseMessage, AlignedInv
    <2> QED  BY <2>2, <2>3
  <1>6. CASE ParseReturn
    <2>1. pulled = rd
      <3> SUFFICES ASSUME pulled < rd PROVE FALSE
        BY Stream DEF TypeOK
      <3>1. Have >= Length[pulled]  BY <1>2, Stream DEF Have, TypeOK
      <3>2. Have >= HeaderLen
        BY <3>1, <1>2, HeaderAssumption, Stream DEF Have, TypeOK
      <3>3. Have \in Nat  BY Stream DEF Have, TypeOK
      <3> QED  BY <3>1, <3>2, <3>3, <1>2, <1>6, HeaderAssumption DEF ParseReturn
    <2> QED  BY <1>6, <2>1 DEF ParseReturn, AlignedInv
  <1>7. CASE CallGetCount \/ DrainEmpty
    BY <1>7 DEF CallGetCount, DrainEmpty, AlignedInv
  <1>8. CASE DrainRead
    BY <1>8 DEF DrainRead, ReadTo, AlignedInv
  <1>9. CASE DrainMessage
    <2>1. PICK m \in MsgLen : m <= cnt /\ pulled' = PullTo(m) /\ cnt' = cnt - m
      BY <1>9 DEF DrainMessage
    <2>2. pulled < rd /\ cnt = rd - pulled
      BY <1>9, Stream DEF DrainMessage, AlignedInv, TypeOK
    <2>3. m = Length[pulled] /\ m \in Nat  BY <1>2, <2>1, <2>2
    <2>4. pulled' = pulled + m  BY <1>2, <2>2, <2>3, <2>1 DEF PullTo, Have
    <2>5. PICK r, p, c : r = rd' /\ p = pulled' /\ c = cnt'  OBVIOUS
    <2>6. r = rd /\ c = cnt - m /\ p = pulled + m  BY <1>9, <2>1, <2>4, <2>5 DEF DrainMessage
    <2>7. c = r - p  BY <2>2, <2>3, <2>6, Stream DEF TypeOK
    <2>8. p \in Bounds /\ r \in Bounds  BY <1>2, <2>2, <2>3, <2>6 DEF AlignedInv
    <2>9. pc' = "drain"  BY <1>9 DEF DrainMessage
    <2> QED  BY <2>5, <2>7, <2>8, <2>9 DEF AlignedInv
  <1>10. CASE DrainBreak
    <2>1. pulled = rd
      <3> SUFFICES ASSUME pulled < rd PROVE FALSE
        BY Stream DEF TypeOK
      <3>1. cnt = rd - pulled  BY <1>10 DEF DrainBreak, AlignedInv
      <3>2. Length[pulled] <= cnt  BY <3>1, <1>2, Stream DEF TypeOK
      <3>3. cnt > 0  BY <3>1, Stream DEF TypeOK
      <3> QED  BY <3>2, <3>3, <1>2, <1>10, <3>1, Stream DEF DrainBreak, TypeOK
    <2> QED  BY <1>10, <2>1 DEF DrainBreak, AlignedInv
  <1>11. CASE UNCHANGED vars  BY <1>11 DEF vars, AlignedInv
  <1> QED
    BY <1>3, <1>4, <1>5, <1>6, <1>7, <1>8, <1>9, <1>10, <1>11
    DEF Next, ReadSteps, DrainSteps

\* Everything the theorems below need: what holds until switchGetCount is called,
\* and what holds throughout if reads return whole messages.
Inv == TypeOK /\ RunInv /\ (aligned => AlignedInv)

LEMMA AlwaysInv == Spec => []Inv
  <1>1. Init => Inv
    BY InitType, StreamAssumption DEF Init, Inv, AlignedInv, RunInv
  <1>2. Inv /\ [Next]_vars => Inv'
    <2> SUFFICES ASSUME Inv, [Next]_vars PROVE Inv'
      OBVIOUS
    <2>1. aligned' = aligned
      BY DEF Next, ReadSteps, DrainSteps, Arrive, HandleRead, ParseMessage, ParseReturn,
             CallGetCount, DrainRead, DrainEmpty, DrainMessage, DrainBreak, vars
    <2>2. TypeOK' /\ RunInv'  BY NextType, RunStep DEF Inv
    <2>3. aligned => AlignedInv'  BY AlignedStep DEF Inv
    <2> QED  BY <2>1, <2>2, <2>3 DEF Inv
  <1> QED  BY <1>1, <1>2, PTL DEF Spec

\* The switch keeps the message boundaries while a test runs, whatever pieces TCP
\* delivers, since ofp13SwitchHandleRead looks at a length only when a whole header
\* is there; and switchGetCount keeps them as long as every read returns whole
\* messages (MCFramingCut shows that it does not otherwise).
THEOREM StaysInSync == Spec => []InSync
  <1>1. Inv => InSync  BY DEF Inv, AlignedInv, RunInv, InSync
  <1> QED  BY <1>1, AlwaysInv, PTL

\* If every read returns whole messages, switchGetCount returns with nothing left
\* in inbuf that it could still have thrown away.
THEOREM QueueCleared == Spec => ClearsQueue
  <1>1. Inv /\ [Next]_vars => [aligned /\ pc = "read" /\ pc' = "run" => ~Complete]_vars
    <2> SUFFICES ASSUME Inv, aligned, pc = "read", Complete PROVE FALSE
      OBVIOUS
    <2>1. pulled = rd /\ rd \in Nat  BY Stream DEF Inv, AlignedInv, TypeOK
    <2>2. Have = 0  BY <2>1 DEF Have
    <2>3. Length[pulled] \in Nat /\ Length[pulled] > 0  BY Stream DEF Complete
    <2> QED  BY <2>2, <2>3 DEF Complete
  <1> QED  BY <1>1, AlwaysInv, PTL DEF Spec, ClearsQueue
=============================================================================
