------------------------------ MODULE MCQuery ------------------------------
EXTENDS Query

Capital == [S |-> "s", E |-> "e", D |-> "d", C |-> "c", A |-> "a", T |-> "t", N |-> "n",
            I |-> "i", G |-> "g"]
MCLowerChar(c) == IF c \in DOMAIN Capital THEN Capital[c] ELSE c

\* The characters of a string.
Spelt(string) == [k \in 1 .. Len(string) |-> SubSeq(string, k, k)]
SpeltAll(strings) == { Spelt(string) : string \in strings }

\* Inflected words, among them some as short as an ending, and some that the rules
\* for doubled consonants must leave alone; ^ stands for an accented letter.
Inflected ==
  SpeltAll(
    { "cats", "CATs", "s", "as", "ed", "baked", "red", "biggly", "oddly", "ly", "aly",
      "running", "runNING", "planned", "eggs", "adding", "ing", "king", "baking",
      "seeing", "boxes", "goes", "es", "aes", "shes", "ashes", "ches", "churches",
      "tried", "ied", "died", "flies", "ies", "bigger", "er", "est", "best", "^t^s" })
MCNonAscii == {"^"}

NoSyn == [w \in {} |-> 0]
OneWord == UNION { BaseWords(w) : w \in Inflected }
Sublists == { [k \in DOMAIN list |-> Spelt(list[k])] :
                list \in { <<"bake">>, <<"bake", "Cat", "cat">>, <<"cat", "run">>,
                          <<"bake", "cat", "run">> } }

\* Templates: out.htm as it is shipped, its two loops in one section; out.js; and a
\* loop with a loop in it.
OutHtm == << MarkerToken("h"), TextToken("head"), VarToken(STR), TextToken("form"),
             MarkerToken("b"), TextToken("list"), ForToken, VarToken(IDX), VarToken(WORD),
             VarToken(BOOKNAME), EndForToken, TextToken("list end"),
             ForToken, VarToken(IDX), VarToken(DEFINITION), EndForToken,
             MarkerToken("f"), TextToken("foot") >>
OutJs == << MarkerToken("j"), TextToken("["), VarToken(STR), ForToken, TextToken(","),
            VarToken(WORD), EndForToken, TextToken("]") >>
Nested == << ForToken, VarToken(WORD), ForToken, VarToken(IDX), EndForToken,
             MarkerToken("b"), EndForToken, TextToken("end") >>

MCLibraries ==
    { [dicts |-> <<[words |-> <<w>>, syn |-> NoSyn]>>, template |-> OutHtm] :
          w \in OneWord \cup SpeltAll({"zoo"}) }
    \cup { [dicts |-> <<[words |-> v, syn |-> NoSyn], [words |-> w, syn |-> y]>>, template |-> t] :
             v \in Sublists, w \in Sublists,
             y \in { NoSyn, [x \in SpeltAll({"run", "CAT"}) |-> 1] }, t \in {OutHtm} }
    \cup { [dicts |-> <<[words |-> v, syn |-> NoSyn]>>, template |-> t] :
             v \in Sublists, t \in {OutJs, Nested} }
MCPhrases == Inflected \cup SpeltAll({ "", "CAT", "cat", "c\\*", "c*", "/cat", "|cat" })
AllOf(lists) == UNION { ToSet(list) : list \in lists }
MCChars == AllOf(MCPhrases \cup OneWord) \cup AllOf(AllOf(Sublists)) \cup {"z", "o"}

\* The words that are the only one of their dictionary come anywhere.
Sorted == [k \in 1 .. 5 |-> Spelt(<<"bake", "Cat", "cat", "run", "zoo">>[k])]
MCOrder == FoldSet(LAMBDA w, list : Append(list, w), Sorted, OneWord \ ToSet(Sorted))
============================================================================
