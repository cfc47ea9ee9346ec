SPECIFICATION FairSpec
CONSTANTS
    r1 = r1
    r2 = r2
    r3 = r3
    Reader = {r1, r2, r3}
    MaxSize = 2
    MaxChunks = 4
CHECK_DEADLOCK FALSE
INVARIANTS
    StreamsHaveFullBody
    BufferWholeOrEmpty
PROPERTIES
    EveryoneAnswered
