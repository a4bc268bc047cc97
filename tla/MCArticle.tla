----------------------------- MODULE MCArticle -----------------------------
EXTENDS Article

\* Letters a and m, the types m, h and n of texts, W and X of binary data.
Texts == UNION { [1 .. n -> {97, 109}] : n \in 0 .. 2 }
Binaries == { <<>>, <<109>>, <<109, 0>> }
Bodies(type) == IF IsUpper(type) THEN Binaries ELSE Texts
SectionsOf(type) == { [type |-> type, body |-> b] : b \in Bodies(type) }

TypeSequences == { <<t>> : t \in {109, 87, 88, 110} }
                 \cup { <<t, u>> : t \in {109, 104, 87}, u \in {109, 87} }
                 \cup { <<88, 109>>, <<109, 87, 109>> }
Articles(types) ==
    IF Len(types) = 1 THEN { <<s>> : s \in SectionsOf(types[1]) }
    ELSE IF Len(types) = 2
    THEN { <<s, t>> : s \in SectionsOf(types[1]), t \in SectionsOf(types[2]) }
    ELSE { <<s, t, u>> : s \in { [type |-> 109, body |-> b] : b \in { <<>>, <<97>> } },
                         t \in SectionsOf(87),
                         u \in { [type |-> 109, body |-> b] : b \in { <<>>, <<109, 97>> } } }

\* The search goes over the letter W and three bytes of a size, 87 bytes, and comes down
\* in a section that is longer.
LongWav == { << [type |-> 87, body |-> [k \in 1 .. 100 |-> 109]] >> }

\* One dictionary of one article; a dictionary of two; two dictionaries, the second
\* of which has no sametypesequence.
MCLibraries ==
    UNION { { <<[path |-> <<47>>, name |-> <<40>>, types |-> ty, articles |-> <<a>>]>> : a \in Articles(ty) } : ty \in TypeSequences }
    \cup { <<[path |-> <<47>>, name |-> <<40>>, types |-> <<109>>, articles |-> <<a, b>>]>> : a \in Articles(<<109>>), b \in Articles(<<109>>) }
    \cup UNION { { <<[path |-> <<47>>, name |-> <<40>>, types |-> <<107>>, articles |-> <<<<[type |-> 107, body |-> <<97, 109>>]>>>>],
              [path |-> <<47>>, name |-> <<40>>, types |-> <<>>, articles |-> <<a>>]>> :
              a \in Articles(ty) \cup LongWav } : ty \in {<<109>>, <<109, 109>>, <<87, 109>>, <<109, 87>>} }
MCPhrases == { <<97>>, <<97, 109>>, <<97, 32, 109>>, <<109, 92, 97>>, <<32>> }
MCBeyond == { <<0>>, <<109, 0>> }

\* A comment; for type m the rules m=mm and \n=, a=m and the name, and one that is none; for h
\* ^~ the directory, another for a directory in an expression, and a~ one that is bad.
MCConf == << <<35, 97, 61>>, <<109, 61, 109, 109>>, <<92, 110, 61>>, <<97, 61, 109, DICT_NAME>>, <<98>>,
             <<58, 104>>, <<94, 126, DICT_PATH>>, <<DICT_PATH, 126, 98>>, <<DICT_NAME, 126, 97>>,
             <<109, 92, 61, 61, 120>>, <<109, 97, 61, 97, 109>> >>
MCRegexes == { <<94>>, <<47>> }
MCRegexReplace(re, text, to) ==
    IF re = <<94>> THEN to \o text
    ELSE FlattenSeq([k \in DOMAIN text |-> IF text[k] = 47 THEN to ELSE <<text[k]>>])
============================================================================
