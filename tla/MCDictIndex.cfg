SPECIFICATION FairDictSpec
CONSTANTS
    Words <- MCWords
    Fold <- MCFold
    MaxWc = 7
    ENTR_PER_PAGE = 2
INVARIANTS DiskPageCoherent SearchInside LookupCorrect KeyCorrect
PROPERTIES Implements Termination
CHECK_DEADLOCK FALSE
