SPECIFICATION Spec
CONSTANTS
    Ram <- EmptyRam
    Answers <- Mishaps
    SendFails = TRUE
    MaxCycles = 3
INVARIANTS Aligned Staggered PlotSafe
PROPERTIES StopEnds
\* The thread returns.
CHECK_DEADLOCK FALSE
