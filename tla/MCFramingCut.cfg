\* With switchGetCount, the stream cut anywhere: framing is lost.
SPECIFICATION Spec
CONSTANTS
    HeaderLen = 8
    LenEnd = 4
    Total <- MCTotal
    Starts <- MCStarts
    Length <- MCLength
    Stale <- MCStale
INVARIANTS FramingKept
\* It may stop: the stream is bounded.
CHECK_DEADLOCK FALSE
