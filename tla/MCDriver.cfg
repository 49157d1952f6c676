SPECIFICATION Spec
CONSTANTS
    NoArg = NoArg
    CommandLines <- AllLines
    RandomOffset <- OneOffset
    CanFail = TRUE
    QueueTime = 1
    W = 17
    Counts <- SomeCounts
    PollTimes <- AnyPoll
INVARIANTS SumCounts RowSound Framed CoversDelay
PROPERTIES Ends
\* The benchmark returns.
CHECK_DEADLOCK FALSE
