\* The poll loop and switchGetCount, the stream cut anywhere or at messages.
SPECIFICATION Spec
CONSTANTS
    HeaderLen = 8
    LenEnd = 4
    Total <- MCTotal
    Starts <- MCStarts
    Length <- MCLength
    Stale <- MCStale
INVARIANTS InSync PeekSafe
PROPERTIES AllAnswered ClearsQueue GetCountReturns
\* It may stop: the stream is bounded.
CHECK_DEADLOCK FALSE
