SPECIFICATION FairSpec
CONSTANTS
    Words <- MCWords
    Fold <- MCFold
    MaxWc = 3
    Libs = {1, 2}
    Lower <- MCFold
    Synonyms <- MCNoSynonyms
    Offsets <- MCOffsets
    Lengths <- MCLengths
INVARIANTS TypeOK Synced NeighbourAnswer
PROPERTIES Termination Implements
