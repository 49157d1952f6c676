-------------------------- MODULE DelayTimerProofs --------------------------
(* Theorems about DelayTimer, for every delay and every unit of time.        *)
EXTENDS DelayTimer, TLAPS

\* What a waiting switch waits for.
Waiting ==
    switchStatus = "WAITING" =>
        /\ delay # 0
        /\ delay_start.sec = begun.sec + DelaySec
        /\ delay_start.usec = begun.usec + DelayUsec

Inv == TypeOK /\ Waiting

LEMMA DelayParts ==
    ASSUME NEW d \in Nat
    PROVE  d \div MsPerSec \in Nat /\ (d % MsPerSec) * UsecPerMs \in Nat
  <1>1. d \div MsPerSec \in Nat  BY UnitAssumption
  <1>2. d % MsPerSec \in Nat  BY UnitAssumption
  <1>3. \A x, y \in Nat : x * y \in Nat  OBVIOUS
  <1> QED  BY <1>1, <1>2, <1>3, UnitAssumption

LEMMA DelayTypes == TypeOK => DelaySec \in Nat /\ DelayUsec \in Nat
  BY DelayParts, DelaysAssumption DEF TypeOK, DelaySec, DelayUsec

LEMMA InitInv == Init => Inv
  <1> SUFFICES ASSUME Init PROVE Inv
    OBVIOUS
  <1>1. now \in Time /\ begun \in Time  BY DEF Init
  <1>2. delay_start \in [sec : Nat, usec : Nat]  BY DEF Init
  <1>3. switchStatus # "WAITING"  BY TargetsAssumption DEF Init
  <1> QED  BY <1>1, <1>2, <1>3 DEF Init, Inv, TypeOK, Waiting

LEMMA NextInv == Inv /\ [Next]_vars => Inv'
  <1> SUFFICES ASSUME Inv, [Next]_vars PROVE Inv'
    OBVIOUS
  <1> USE DEF Inv, TypeOK, Waiting
  <1>1. CASE Tick
    <2>1. now' \in Time /\ UNCHANGED <<delay, switchStatus, nextStatus, delay_start, begun>>
      BY <1>1 DEF Tick
    <2> QED  BY <2>1 DEF DelaySec, DelayUsec
  <1>2. CASE HandleWrite  BY <1>2, TargetsAssumption DEF HandleWrite, DelaySec, DelayUsec
  <1>3. ASSUME NEW new \in Targets, ChangeStatus(new) PROVE Inv'
    <2>1. begun' = now /\ now' = now /\ delay' = delay  BY <1>3 DEF ChangeStatus
    <2>2. CASE delay = 0
      BY <1>3, <2>1, <2>2, TargetsAssumption DEF ChangeStatus, DelaySec, DelayUsec
    <2>3. CASE delay # 0
      <3>1. /\ switchStatus' = "WAITING" /\ nextStatus' = new
            /\ delay_start' = Deadline(now)
        BY <1>3, <2>3 DEF ChangeStatus
      <3>2. now.sec \in Nat /\ now.usec \in Nat
        BY UnitAssumption, MaxSecAssumption DEF Time
      <3>3. DelaySec \in Nat /\ DelayUsec \in Nat  BY DelayTypes
      <3>4. Deadline(now) \in [sec : Nat, usec : Nat]
        BY <3>2, <3>3 DEF Deadline
      <3>5. Deadline(now).sec = now.sec + DelaySec /\ Deadline(now).usec = now.usec + DelayUsec
        BY DEF Deadline
      <3>6. DelaySec' = DelaySec /\ DelayUsec' = DelayUsec  BY <2>1 DEF DelaySec, DelayUsec
      <3>7. TypeOK'  BY <2>1, <3>1, <3>4
      <3>8. Waiting'
        <4>1. PICK st, bg, sc, us :
                 st = delay_start' /\ bg = begun' /\ sc = DelaySec' /\ us = DelayUsec'
          OBVIOUS
        <4>2. st.sec = bg.sec + sc /\ st.usec = bg.usec + us
          BY <2>1, <3>1, <3>5, <3>6, <4>1
        <4> QED  BY <2>1, <2>3, <4>1, <4>2
      <3> QED  BY <3>7, <3>8
    <2> QED  BY <2>2, <2>3
  <1>4. CASE UNCHANGED vars  BY <1>4 DEF vars, DelaySec, DelayUsec
  <1> QED  BY <1>1, <1>2, <1>3, <1>4 DEF Next

LEMMA AlwaysInv == Spec => []Inv
  BY InitInv, NextInv, PTL DEF Spec

\* Elapsed time between b and n, and the deadline b + d, in seconds of u
\* microseconds.
LEMMA Arithmetic ==
    ASSUME NEW u \in Nat, NEW ns \in Nat, NEW nu \in Nat, NEW bs \in Nat, NEW bu \in Nat,
           NEW ds \in Nat, NEW du \in Nat, nu < u, bu < u
    PROVE  /\ ns = bs + ds /\ nu <= bu + du
                => (ns - bs) * u + (nu - bu) <= ds * u + du
           /\ ns < bs + ds => (ns - bs) * u + (nu - bu) <= ds * u + du
           /\ ns = bs + ds /\ nu > bu + du => (ns - bs) * u + (nu - bu) >= ds * u
           /\ ns > bs + ds => (ns - bs) * u + (nu - bu) >= ds * u
  <1>1. \A x, y \in Int : x <= y => x * u <= y * u  OBVIOUS
  <1>2. \A x \in Int : (x + 1) * u = x * u + u  OBVIOUS
  <1>3. PICK k \in Int : k = ns - bs  OBVIOUS
  <1>4. k * u \in Int /\ ds * u \in Int  OBVIOUS
  <1>5. ASSUME k < ds PROVE k * u + (nu - bu) <= ds * u + du
    <2>1. (k + 1) * u <= ds * u  BY <1>1, <1>5
    <2>2. k * u + u <= ds * u  BY <2>1, <1>2
    <2> QED  BY <2>2, <1>4
  <1>6. ASSUME k > ds PROVE k * u + (nu - bu) >= ds * u
    <2>1. (ds + 1) * u <= k * u  BY <1>1, <1>6
    <2>2. ds * u + u <= k * u  BY <2>1, <1>2
    <2> QED  BY <2>2, <1>4
  <1>7. ASSUME k = ds PROVE /\ nu <= bu + du => k * u + (nu - bu) <= ds * u + du
                            /\ nu > bu + du => k * u + (nu - bu) >= ds * u
    BY <1>4, <1>7
  <1> QED  BY <1>3, <1>5, <1>6, <1>7

\* The parts of the times, as Arithmetic wants them.
LEMMA Parts ==
    ASSUME Inv
    PROVE  /\ UsecPerSec \in Nat
           /\ now.sec \in Nat /\ now.usec \in Nat /\ now.usec < UsecPerSec
           /\ begun.sec \in Nat /\ begun.usec \in Nat /\ begun.usec < UsecPerSec
           /\ DelaySec \in Nat /\ DelayUsec \in Nat
  <1>1. PICK u \in Nat : u = UsecPerSec  BY UnitAssumption
  <1>2. now \in [sec : 0..MaxSec, usec : 0..(u - 1)] /\ begun \in [sec : 0..MaxSec, usec : 0..(u - 1)]
    BY <1>1 DEF Inv, TypeOK, Time
  <1> QED  BY <1>1, <1>2, MaxSecAssumption, DelayTypes DEF Inv

LEMMA InvNeverLate == Inv => NeverLate
  <1> SUFFICES ASSUME Inv, switchStatus = "WAITING", ~After(now, delay_start)
               PROVE  ~(Elapsed > DelaySec * UsecPerSec + DelayUsec)
    BY DEF NeverLate
  <1>1. PICK u, ns, nu, bs, bu, ds, du :
           /\ u = UsecPerSec /\ ns = now.sec /\ nu = now.usec
           /\ bs = begun.sec /\ bu = begun.usec /\ ds = DelaySec /\ du = DelayUsec
    OBVIOUS
  <1>2. /\ u \in Nat /\ ns \in Nat /\ nu \in Nat /\ bs \in Nat /\ bu \in Nat
        /\ ds \in Nat /\ du \in Nat /\ nu < u /\ bu < u
    BY <1>1, Parts
  <1>3. delay_start.sec = bs + ds /\ delay_start.usec = bu + du
    BY <1>1 DEF Inv, Waiting
  <1>4. (ns = bs + ds /\ nu <= bu + du) \/ ns < bs + ds
    BY <1>1, <1>2, <1>3 DEF After
  <1>5. (ns - bs) * u + (nu - bu) <= ds * u + du  BY <1>2, <1>4, Arithmetic
  <1>6. (ns - bs) * u + (nu - bu) \in Int /\ ds * u + du \in Int  BY <1>2
  <1>7. ~((ns - bs) * u + (nu - bu) > ds * u + du)  BY <1>5, <1>6
  <1> QED  BY <1>1, <1>7 DEF Elapsed

\* A delay that is over ends at the switch's next write, for every delay and
\* every phase of the clock: the missing carry never makes a delay longer.
THEOREM DelayNeverLate == Spec => []NeverLate
  BY AlwaysInv, InvNeverLate, PTL

\* Only ofp13SwitchHandleWrite ends a delay, at a time after the deadline.
LEMMA WakesAfter ==
    ASSUME Inv, [Next]_vars, Wakes
    PROVE  After(now, delay_start)
  <1>1. CASE Tick  BY <1>1 DEF Tick, Wakes
  <1>2. CASE HandleWrite  BY <1>2 DEF HandleWrite, Wakes
  <1>3. ASSUME NEW new \in Targets, ChangeStatus(new) PROVE FALSE
    BY <1>3 DEF ChangeStatus, Wakes, Inv, Waiting
  <1>4. CASE UNCHANGED vars  BY <1>4 DEF vars, Wakes
  <1> QED  BY <1>1, <1>2, <1>3, <1>4 DEF Next

\* A delay is never cut short by as much as its last part of a second.
THEOREM DelayWholeSeconds == Spec => WaitsWholeSeconds
  <1>1. Inv /\ [Next]_vars => [Wakes => Elapsed >= DelaySec * UsecPerSec]_vars
    <2> SUFFICES ASSUME Inv, [Next]_vars, Wakes
                 PROVE  Elapsed >= DelaySec * UsecPerSec
      OBVIOUS
    <2>1. PICK u, ns, nu, bs, bu, ds, du :
             /\ u = UsecPerSec /\ ns = now.sec /\ nu = now.usec
             /\ bs = begun.sec /\ bu = begun.usec /\ ds = DelaySec /\ du = DelayUsec
      OBVIOUS
    <2>2. /\ u \in Nat /\ ns \in Nat /\ nu \in Nat /\ bs \in Nat /\ bu \in Nat
          /\ ds \in Nat /\ du \in Nat /\ nu < u /\ bu < u
      BY <2>1, Parts
    <2>3. delay_start.sec = bs + ds /\ delay_start.usec = bu + du
      BY <2>1 DEF Inv, Waiting, Wakes
    <2>4. (ns = bs + ds /\ nu > bu + du) \/ ns > bs + ds
      BY <2>1, <2>2, <2>3, WakesAfter DEF After
    <2>5. (ns - bs) * u + (nu - bu) >= ds * u  BY <2>2, <2>4, Arithmetic
    <2> QED  BY <2>1, <2>5 DEF Elapsed
  <1> QED  BY <1>1, AlwaysInv, PTL DEF Spec, WaitsWholeSeconds
=============================================================================
