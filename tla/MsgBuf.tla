------------------------------- MODULE MsgBuf -------------------------------
(***************************************************************************)
(* The message buffer of src/src/msgbuf.c: a growable array with a window  *)
(* [start, end) of live bytes.  A fake switch owns two of them: inbuf,     *)
(* which is only read from the socket, peeked and pulled, and outbuf,      *)
(* which is only pushed and written to the socket.                         *)
(*                                                                         *)
(* buf is the array, indexed from 0 as in C; a cell that nothing was ever  *)
(* stored in (malloc, realloc) holds Junk.  Bytes that were consumed stay  *)
(* in the array, as they do in the code.  pending is the argument of the   *)
(* msgbufPush under way: its loop of msgbufGrow calls is a step each.      *)
(***************************************************************************)
EXTENDS Integers, Sequences

CONSTANTS
    Byte,       \* the values a byte can have
    Junk,       \* the content of memory nobody has written
    BufSize,    \* bufsize, the argument of msgbufNew (BUFLEN = 65536)
    MaxLen,     \* bound: the array is not grown beyond this
    Chunk       \* the byte strings that one read returns or one push adds

ASSUME BufSizeAssumption == BufSize \in Nat \ {0}
ASSUME MaxLenAssumption  == MaxLen \in Nat
ASSUME ChunkAssumption   == Chunk \subseteq (Seq(Byte) \ {<<>>})
ASSUME JunkAssumption    == Junk \notin Byte

VARIABLES
    buf,        \* the array
    len,        \* its allocated length
    start,      \* the first live byte
    end,        \* one past the last live byte
    pending,    \* the bytes msgbufPush has still to copy, <<>> between calls
    given,      \* the bytes the last call handed out
    pushed      \* (history) something was pushed: the buffer is no inbuf

vars == <<buf, len, start, end, pending, given, pushed>>

-----------------------------------------------------------------------------
(* Helpers *)

\* memcpy or read into the array at offset at.
Store(b, at, s) ==
    [i \in DOMAIN b |-> IF i >= at /\ i < at + Len(s) THEN s[i - at + 1] ELSE b[i]]

\* Faulty: malloc without a copy.
ReallocFresh(b, n) == [i \in 0..(n - 1) |-> Junk]

\* realloc to n cells.
Realloc(b, n) == [i \in 0..(n - 1) |-> IF i \in DOMAIN b THEN b[i] ELSE Junk]

\* msgbufCountBuffered.
Buffered == end - start

\* The n oldest live bytes.
Front(n) == [i \in 1..n |-> buf[start + i - 1]]

Contents == Front(Buffered)

\* Faulty: > where the code has >=.
ConsumeLate(n) ==
    /\ start' = IF start + n > end THEN 0 ELSE start + n
    /\ end'   = IF start + n > end THEN 0 ELSE end
    /\ given' = Front(n)

\* Faulty: resets the window whatever is left in it.
ConsumeReset(n) ==
    /\ start' = 0
    /\ end' = 0
    /\ given' = Front(n)

\* What msgbufPull and msgbufWrite do with the window once n bytes are gone.
Consume(n) ==
    /\ start' = IF start + n >= end THEN 0 ELSE start + n
    /\ end'   = IF start + n >= end THEN 0 ELSE end
    /\ given' = Front(n)

-----------------------------------------------------------------------------
Init ==
    /\ len = BufSize
    /\ buf = [i \in 0..(BufSize - 1) |-> Junk]
    /\ start = 0
    /\ end = 0
    /\ pending = <<>>
    /\ given = <<>>
    /\ pushed = FALSE

Idle == pending = <<>>

\* Faulty: grows only when the bytes would not fit.
ReadTight(s) ==
    LET full == end + Len(s) > len IN
    /\ Idle
    /\ Len(s) <= len - end
    /\ full => 2 * len <= MaxLen
    /\ len' = IF full THEN 2 * len ELSE len
    /\ buf' = Realloc(Store(buf, end, s), len')
    /\ end' = end + Len(s)
    /\ given' = <<>>
    /\ UNCHANGED <<start, pending, pushed>>

\* msgbufRead when the socket has the bytes s for it.
Read(s) ==
    LET full == end + Len(s) >= len IN
    /\ Idle
    /\ Len(s) <= len - end
    /\ full => 2 * len <= MaxLen
    /\ len' = IF full THEN 2 * len ELSE len
    /\ buf' = Realloc(Store(buf, end, s), len')
    /\ end' = end + Len(s)
    /\ given' = <<>>
    /\ UNCHANGED <<start, pending, pushed>>

\* msgbufRead when read() returns 0 or -1: a full array is grown all the same.
ReadNothing ==
    /\ Idle
    /\ end >= len => 2 * len <= MaxLen
    /\ len' = IF end >= len THEN 2 * len ELSE len
    /\ buf' = Realloc(buf, len')
    /\ given' = <<>>
    /\ UNCHANGED <<start, end, pending, pushed>>

\* msgbufWrite(len = want): the kernel takes k of the bytes offered to it.
\* k = 0 is also what a write() that returns -1 does to the buffer.
Write(want, k) ==
    LET offered == IF want > 0 THEN want ELSE Buffered IN
    /\ Idle
    /\ want <= Buffered
    /\ k <= offered
    /\ Consume(k)
    /\ UNCHANGED <<buf, len, pending, pushed>>

\* msgbufWrite that refuses: fewer bytes are buffered than asked for.
WriteShort(want) ==
    /\ Idle
    /\ want > Buffered
    /\ given' = <<>>
    /\ UNCHANGED <<buf, len, start, end, pending, pushed>>

\* msgbufPull of count bytes: as many as there are.
Pull(count) ==
    /\ Idle
    /\ count > 0
    /\ Buffered > 0
    /\ Consume(IF count < Buffered THEN count ELSE Buffered)
    /\ UNCHANGED <<buf, len, pending, pushed>>

\* msgbufClear.
Clear ==
    /\ Idle
    /\ start' = 0
    /\ end' = 0
    /\ given' = <<>>
    /\ UNCHANGED <<buf, len, pending, pushed>>

\* msgbufPush is called with the bytes s.  The bound is stated here, so that
\* the loop that follows can always run to its end.
PushCall(s) ==
    /\ Idle
    /\ 2 * (end + Len(s)) <= MaxLen
    /\ pending' = s
    /\ given' = <<>>
    /\ pushed' = TRUE
    /\ UNCHANGED <<buf, len, start, end>>

\* The test of msgbufPush's loop.
NoRoom == end + Len(pending) > len

\* One turn of that loop: msgbufGrow.
PushGrow ==
    /\ ~Idle
    /\ NoRoom
    /\ len' = 2 * len
    /\ buf' = Realloc(buf, len')
    /\ given' = <<>>
    /\ UNCHANGED <<start, end, pending, pushed>>

\* The rest of msgbufPush.
PushCopy ==
    /\ ~Idle
    /\ ~NoRoom
    /\ buf' = Store(buf, end, pending)
    /\ end' = end + Len(pending)
    /\ pending' = <<>>
    /\ given' = <<>>
    /\ UNCHANGED <<len, start, pushed>>

-----------------------------------------------------------------------------
ReadAny   == \E s \in Chunk : Read(s)
PullAny   == \E count \in 1..MaxLen : Pull(count)
WriteAny  == \E want, k \in 0..MaxLen : Write(want, k)
ShortAny  == \E want \in 0..MaxLen : WriteShort(want)
PushAny   == \E s \in Chunk : PushCall(s)

\* Every call, in any order.
Next ==
    \/ ReadAny \/ ReadNothing \/ PullAny \/ WriteAny \/ ShortAny
    \/ Clear \/ PushAny \/ PushGrow \/ PushCopy

Spec == Init /\ [][Next]_vars

-----------------------------------------------------------------------------
(* Properties *)

\* Every variable has its type; the array has exactly len cells.
TypeOK ==
    /\ len \in Nat \ {0}
    /\ buf \in [0..(len - 1) -> Byte \cup {Junk}]
    /\ start \in Nat
    /\ end \in Nat
    /\ pending \in Seq(Byte)
    /\ given \in Seq(Byte)
    /\ pushed \in BOOLEAN

\* The window stays inside the array through every growth, and an emptied
\* buffer starts again at the array's first cell, which is the only thing
\* that ever gives consumed space back (msgbufPull, msgbufWrite).
WindowOK ==
    /\ start <= end
    /\ end <= len
    /\ start = end => start = 0

\* No call ever hands out, or keeps as live, memory that nobody stored to,
\* whatever the order of growing, storing and consuming.
NoJunk == \A i \in 0..(len - 1) : i >= start /\ i < end => buf[i] \in Byte

\* Both: the window is inside the array and what is in it was stored there.
Sound == WindowOK /\ NoJunk

\* The buffer is a first-in first-out queue: a growth, a short write or a reset of
\* the window neither drops, repeats nor reorders the bytes that are in it.
Queue == INSTANCE ByteQueue WITH q <- Contents
FifoQueue == Queue!Spec

\* A buffer that nothing is pushed to, as inbuf, always leaves room for the next
\* read.  With no room read() is asked for 0 bytes and returns 0, and
\* ofp13SwitchHandleRead takes that for a closed connection and exits
\* (myswitch.c:756-764).
ReadRoom == ~pushed => end < len
=============================================================================
