\* The clock stops at the bound MaxSec.
SPECIFICATION Spec
CONSTANTS
    MsPerSec = 2
    UsecPerMs = 3
    MaxSec = 5
    Delays <- MCDelays
    Targets <- MCTargets
INVARIANTS NeverLate
PROPERTIES WaitsWholeSeconds
CHECK_DEADLOCK FALSE
