\* Every call on a message buffer, in any order.
SPECIFICATION Spec
CONSTANTS
    b1 = b1
    b2 = b2
    junk = junk
    Junk = junk
    Byte <- MCByte
    Chunk <- MCChunk
    BufSize = 1
    MaxLen = 8
INVARIANTS Sound ReadRoom
PROPERTIES FifoQueue
