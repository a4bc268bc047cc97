SPECIFICATION PrepareSpec
CONSTANTS
    Trees <- MCTrees
    UseLists <- MCUseLists
    Orderings <- MCOrderings
    NoFile = NoFile
INVARIANTS EveryAskedOnce OrderKept PathKnown
CHECK_DEADLOCK FALSE
