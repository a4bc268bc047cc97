SPECIFICATION FairSpec
CONSTANTS
    Libs = 2
    Words <- MCWords
    Spelling <- MCSpelling
    Dictionaries <- MCDictionaries
    Queries <- MCQueries
    reslist_size = 2
    iMaxFuzzyDistance = 3
INVARIANTS SlotToReplace NearestKept DistanceExact NearestFirst
PROPERTY Termination
