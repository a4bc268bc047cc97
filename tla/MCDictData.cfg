SPECIFICATION FairDataSpec
CONSTANTS
    Lengths <- MCLengths
    WORDDATA_CACHE_NUM = 2
    ChunkLength = 2
    Flags <- MCFlags
    DICT_CACHE_SIZE = 2
    MaxStamp = 6
    ArticleSizes = {0, 2, 3}
INVARIANTS SlotsCoherent ChunksFound ChunksCoherent
PROPERTIES Implements Termination
CHECK_DEADLOCK FALSE
