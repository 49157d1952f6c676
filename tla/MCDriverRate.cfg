SPECIFICATION Spec
CONSTANTS
    NoArg = NoArg
    CommandLines <- OneLine
    RandomOffset <- OneOffset
    CanFail = FALSE
    QueueTime = 1
    W = 17
    Counts <- SomeCounts
    PollTimes <- AnyPoll
INVARIANTS RatePerMs
\* The benchmark returns.
CHECK_DEADLOCK FALSE
