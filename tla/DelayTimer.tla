----------------------------- MODULE DelayTimer -----------------------------
(***************************************************************************)
(* The delay between two states of a fake switch's handshake:              *)
(* switchChangeStatus computes a deadline from gettimeofday and the        *)
(* configured delay, and ofp13SwitchHandleWrite compares it with the clock *)
(* by timercmp whenever poll says that the socket can be written           *)
(* (src/src/myswitch.c).                                                   *)
(*                                                                         *)
(* Times are struct timevals, [sec, usec].  The units are constants, so    *)
(* that TLC can count through several small "seconds".                     *)
(***************************************************************************)
EXTENDS Integers

CONSTANTS
    MsPerSec, UsecPerMs,    \* 1000 and 1000
    Delays,                 \* the delays a switch can be configured with, in ms
    Targets,                \* the states it changes to
    MaxSec                  \* bound: the clock stops at the end of this second

UsecPerSec == MsPerSec * UsecPerMs

ASSUME UnitAssumption    == /\ MsPerSec \in Nat \ {0}
                            /\ UsecPerMs \in Nat \ {0}
                            /\ UsecPerSec \in Nat \ {0}
ASSUME DelaysAssumption  == Delays \subseteq Nat
ASSUME TargetsAssumption == "WAITING" \notin Targets
ASSUME MaxSecAssumption  == MaxSec \in Nat

\* A timeval as gettimeofday returns it.
Time == [sec : 0..MaxSec, usec : 0..(UsecPerSec - 1)]

VARIABLES
    now,            \* the clock
    delay,          \* fs->delay
    switchStatus,   \* fs->switchStatus
    nextStatus,     \* fs->nextStatus
    delay_start,    \* fs->delay_start: in fact when the delay is over
    begun           \* (history) when switchChangeStatus was called

vars == <<now, delay, switchStatus, nextStatus, delay_start, begun>>

-----------------------------------------------------------------------------
\* timercmp(&a, &b, >).
After(a, b) == IF a.sec = b.sec THEN a.usec > b.usec ELSE a.sec > b.sec

\* The two parts the code splits the delay into.
DelaySec  == delay \div MsPerSec
DelayUsec == (delay % MsPerSec) * UsecPerMs

\* Faulty: the whole delay is added in microseconds as well.
DeadlineTwice(t) == [sec |-> t.sec + DelaySec, usec |-> t.usec + delay * UsecPerMs]

\* Faulty: the whole seconds are forgotten.
DeadlineShort(t) == [sec |-> t.sec, usec |-> t.usec + DelayUsec]

\* What switchChangeStatus adds to the time it reads: the microseconds are
\* not carried over into the seconds.
Deadline(t) == [sec |-> t.sec + DelaySec, usec |-> t.usec + DelayUsec]

Init ==
    /\ now \in {t \in Time : t.sec = 0}
    /\ delay \in Delays
    /\ switchStatus \in Targets
    /\ nextStatus = switchStatus
    /\ delay_start = [sec |-> 0, usec |-> 0]
    /\ begun = now

\* The clock, which is assumed not to be set back.
Tick ==
    /\ now' \in {t \in Time : After(t, now)}
    /\ UNCHANGED <<delay, switchStatus, nextStatus, delay_start, begun>>

\* switchChangeStatus, which a second features request may call again while
\* the switch waits.  The bound leaves the clock time to reach the deadline.
ChangeStatus(new) ==
    /\ now.sec + DelaySec + 2 <= MaxSec
    /\ IF delay = 0
       THEN switchStatus' = new /\ UNCHANGED <<nextStatus, delay_start>>
       ELSE /\ switchStatus' = "WAITING"
            /\ nextStatus' = new
            /\ delay_start' = Deadline(now)
    /\ begun' = now
    /\ UNCHANGED <<now, delay>>

\* ofp13SwitchHandleWrite of a switch that waits.
HandleWrite ==
    /\ switchStatus = "WAITING"
    /\ switchStatus' = IF After(now, delay_start) THEN nextStatus ELSE "WAITING"
    /\ UNCHANGED <<now, delay, nextStatus, delay_start, begun>>

Next == Tick \/ HandleWrite \/ \E new \in Targets : ChangeStatus(new)

Spec == Init /\ [][Next]_vars

-----------------------------------------------------------------------------
(* Properties *)

TypeOK ==
    /\ now \in Time
    /\ begun \in Time
    /\ delay \in Delays
    /\ switchStatus \in Targets \cup {"WAITING"}
    /\ nextStatus \in Targets
    /\ delay_start \in [sec : Nat, usec : Nat]

\* Microseconds between the call of switchChangeStatus and now.
Elapsed == (now.sec - begun.sec) * UsecPerSec + (now.usec - begun.usec)

Wakes == switchStatus = "WAITING" /\ switchStatus' # "WAITING"

\* Once the delay is over the next ofp13SwitchHandleWrite ends it, although the
\* deadline may have a microseconds part of more than a second.
NeverLate ==
    switchStatus = "WAITING" /\ Elapsed > DelaySec * UsecPerSec + DelayUsec
        => After(now, delay_start)

\* The delay's whole seconds are always waited for: without the carry a delay
\* ends early, but by less than its last fraction of a second.
WaitsWholeSeconds == [][Wakes => Elapsed >= DelaySec * UsecPerSec]_vars
=============================================================================
