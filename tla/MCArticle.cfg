SPECIFICATION Spec
CONSTANTS
    BigEndian = FALSE
    Libraries <- MCLibraries
    Phrases <- MCPhrases
    Beyond <- MCBeyond
    Conf <- MCConf
    Regexes <- MCRegexes
    RegexReplace <- MCRegexReplace
INVARIANTS LayoutExact ParsedIsWritten FullTextSearch ReplacedOnce
