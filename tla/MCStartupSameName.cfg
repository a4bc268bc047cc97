SPECIFICATION PrepareSpec
CONSTANTS
    Trees <- SameNames
    UseLists <- MCUseLists
    Orderings <- MCOrderings
    NoFile = NoFile
INVARIANTS OnlyAsked
CHECK_DEADLOCK FALSE
