SPECIFICATION SpecHeap
CONSTANTS
    Lengths <- MCFullLengths
    ChunkLength = 2
    Flags <- MCFlags
    DICT_CACHE_SIZE = 2
    MaxStamp = 9
INVARIANT MiddleChunkIsFull
CHECK_DEADLOCK FALSE
