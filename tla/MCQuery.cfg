SPECIFICATION Spec
CONSTANTS
    Libraries <- MCLibraries
    Phrases <- MCPhrases
    Order <- MCOrder
    NonAscii <- MCNonAscii
    Chars <- MCChars
    LowerChar <- MCLowerChar
    MAXFUZZY = 2
    MAX_MATCH_ITEM_PER_LIB = 2
INVARIANTS AllBasesTried ResultsAreAsked RuleSearch PageShowsResults
