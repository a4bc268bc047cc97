-------------------------------- MODULE Query --------------------------------
(***************************************************************************)
(* Library::process_phrase: what kind of query a phrase is, the searches   *)
(* that answer it with words, and SimpleLookup of each of these words in   *)
(* every dictionary, exactly or by the rules of LookupSimilarWord; and the *)
(* page that is made of the results (see ResponseOut).                     *)
(*                                                                         *)
(* A word is the sequence of its characters.  A dictionary is its sorted   *)
(* list of words and its synonyms; Dict::Lookup is used through its answers, and so are the      *)
(* fuzzy search (see FuzzySearch), the full-text search (see Article) and  *)
(* the regular expressions, whose matches are any set of words.            *)
(***************************************************************************)
EXTENDS Integers, Sequences, SequencesExt, FiniteSets, ResponseOut

CONSTANTS
    Libraries,          \* what may be loaded: a sequence of dictionaries, a template
    Phrases,            \* what may be asked
    Order,              \* the words of the dictionaries in their order
    Chars, NonAscii,    \* the characters, and those of them that are not ASCII
    LowerChar(_),       \* a character in lower case
    MAXFUZZY,           \* how many words the fuzzy search keeps
    MAX_MATCH_ITEM_PER_LIB

NUL == "NUL"        \* the character '\0'
Word == Seq(Chars)

\* No string has the character that ends strings in it; a word of a dictionary has its
\* place in the order, and may be of any length.
ASSUME CharsAssumption == NUL \notin Chars /\ {"e", "y"} \subseteq Chars
ASSUME PhrasesAssumption == Phrases \subseteq Word
ASSUME LibrariesAssumption ==
    \A l \in Libraries :
        /\ l.dicts \in Seq(Range(l.dicts))
        /\ \A d \in DOMAIN l.dicts :
              /\ l.dicts[d].words \in Seq(Word)
              /\ ToSet(l.dicts[d].words) \subseteq Range(Order)
              /\ Range(l.dicts[d].syn) \subseteq Int
        /\ l.template \in Seq(Range(l.template))
        /\ \A k \in DOMAIN l.template : l.template[k].t \in Tokens
ASSUME OrderAssumption == Order \in Seq(Range(Order))
ASSUME SizesAssumption == MAXFUZZY \in Nat /\ MAX_MATCH_ITEM_PER_LIB \in Nat

VARIABLES
    dicts, no_fuzzy,    \* the dictionaries, and the option -e
    str, kind,          \* the phrase, and what kind of query it is
    pc,                 \* what runs
    matches,            \* LookupWithRule: the words that match the expression
    ppMatchWord,        \* LookupWithRule: those found
    plan,               \* the words still to be looked up, the first one being so
    lib, ind,           \* SimpleLookup: the dictionary, and the index it found
    rule, sNewWord,     \* LookupSimilarWord: the rule, and its buffer
    endings, tried,     \* what to put after the stem, and what was looked up
    res_list,           \* the results: the word asked for, dictionary and index
    template, alldata,  \* the template, and whether the last page is a whole one
    rout                \* the page

vars == <<dicts, no_fuzzy, str, kind, pc, matches, ppMatchWord, plan, lib, ind,
          rule, sNewWord, endings, tried, res_list, template, alldata, rout>>
page == <<template, alldata, rout>>
-----------------------------------------------------------------------------
INVALID_INDEX == -100
Prefix(s, k) == SubSeq(s, 1, k)
Suffix(s, n) == SubSeq(s, Len(s) - n + 1, Len(s))
Lower(s) == [k \in DOMAIN s |-> LowerChar(s[k])]
EndsIn(s, suffix) == Len(s) >= Len(suffix) /\ Lower(Suffix(s, Len(suffix))) = suffix

ListOf(d) == dicts[d].words
SynOf(d) == dicts[d].syn

\* Dict::Lookup: a synonym, or the words that compare equal.  When there is none
\* the index is that of a neighbour, or none.
Equal(d, word, ignorecase) ==
    { k \in DOMAIN ListOf(d) : IF ignorecase THEN Lower(ListOf(d)[k]) = Lower(word)
                               ELSE ListOf(d)[k] = word }
Hits(d, word, ignorecase) ==
    IF word \in DOMAIN SynOf(d) THEN {SynOf(d)[word]} ELSE Equal(d, word, ignorecase)
Misses(d) == DOMAIN ListOf(d) \cup {INVALID_INDEX}

Idle == pc = "idle"
NoWord == <<>>
Clear == rule' = 0 /\ sNewWord' = NoWord /\ endings' = <<>> /\ tried' = <<>>
UnchangedSimilar == UNCHANGED <<rule, sNewWord, endings, tried>>
UnchangedQuery == UNCHANGED <<dicts, no_fuzzy, str, kind, matches, ppMatchWord, page>>
-----------------------------------------------------------------------------
(* analyze_query.                                                           *)

\* The phrase without its backslashes, and whether it has a wildcard.
TakeChar(s, c) ==
    IF c = "\\" /\ ~s.escape THEN [s EXCEPT !.escape = TRUE]
    ELSE [res |-> Append(s.res, c), escape |-> FALSE,
          regexp |-> s.regexp \/ (~s.escape /\ c \in {"*", "?"})]
Scan(s) ==
    LET scan[k \in 0 .. Len(s)] ==
            IF k = 0 THEN [res |-> <<>>, escape |-> FALSE, regexp |-> FALSE]
            ELSE TakeChar(scan[k - 1], s[k])
    IN  scan[Len(s)]

AnalyzeQuery(s) ==
    CASE Head(s) = "/" -> [kind |-> "fuzzy", query |-> Tail(s)]
      [] Head(s) = "|" -> [kind |-> "data", query |-> Tail(s)]
      [] OTHER -> [kind |-> IF Scan(s).regexp THEN "regexp" ELSE "simple",
                   query |-> Scan(s).res]

Init ==
    /\ \E lib0 \in Libraries : dicts = lib0.dicts /\ template = lib0.template
    /\ no_fuzzy \in BOOLEAN /\ alldata = TRUE /\ rout = <<>>
    /\ str = NoWord /\ kind = "none" /\ pc = "idle"
    /\ matches = {} /\ ppMatchWord = <<>> /\ plan = <<>>
    /\ lib = 0 /\ ind = 0
    /\ rule = 0 /\ sNewWord = NoWord /\ endings = <<>> /\ tried = <<>>
    /\ res_list = <<>>
-----------------------------------------------------------------------------
(* process_phrase.                                                          *)

AllWords == UNION { ToSet(ListOf(d)) : d \in DOMAIN dicts }

\* A slip: what the page buffer holds is kept.
RoutKept == rout

\* The buffer after rout.reset().
RoutReset == <<>>

\* alldata is chosen here: nothing reads it before.
MakePage(buffer, results, s) ==
    /\ alldata' \in BOOLEAN
    /\ rout' = buffer \o MakeContent(template, alldata', results, s)

\* An empty phrase has no results.
ProcessPhrase(s) ==
    /\ Idle
    /\ str' = s /\ res_list' = <<>>
    /\ LET q == AnalyzeQuery(s) IN
         /\ kind' = IF s = NoWord THEN "none" ELSE q.kind
         /\ plan' = IF kind' = "simple" THEN <<q.query>> ELSE <<>>
         /\ pc' = CASE kind' = "none" -> "idle" [] kind' = "simple" -> "lookup"
                    [] OTHER -> kind'
         /\ IF kind' = "regexp" THEN matches' \in SUBSET AllWords ELSE matches' = {}
    /\ lib' = 1 /\ ind' = 0 /\ ppMatchWord' = <<>>
    /\ IF s = NoWord THEN MakePage(RoutReset, <<>>, s) ELSE rout' = RoutReset /\ alldata' = TRUE
    /\ Clear
    /\ UNCHANGED <<dicts, no_fuzzy, template>>

\* Libs::LookupWithFuzzy: some distinct words of the dictionaries, or none.
LookupWithFuzzy ==
    /\ pc = "fuzzy"
    /\ \E n \in 0 .. MAXFUZZY : plan' \in [1 .. n -> AllWords] /\ IsInjective(plan')
    /\ pc' = "lookup" /\ lib' = 1
    /\ UnchangedQuery /\ UnchangedSimilar
    /\ UNCHANGED <<ind, res_list>>

\* LookupData: every dictionary gives the words of some of its articles, in their order.
LookupData ==
    /\ pc = "data"
    /\ IF lib <= Len(dicts)
       THEN /\ \E n \in 0 .. Len(ListOf(lib)) : \E at \in [1 .. n -> DOMAIN ListOf(lib)] :
                  /\ \A j, k \in 1 .. n : j < k => at[j] < at[k]
                  /\ plan' = plan \o [k \in 1 .. n |-> ListOf(lib)[at[k]]]
            /\ lib' = lib + 1 /\ UNCHANGED pc
       ELSE pc' = "lookup" /\ lib' = 1 /\ UNCHANGED plan
    /\ UnchangedQuery /\ UnchangedSimilar
    /\ UNCHANGED <<ind, res_list>>

\* Dict::LookupWithRule: where the first matches of a dictionary are.
Matches(d, n) == { k \in 1 .. n : ListOf(d)[k] \in matches }
AiIndex(d) ==
    { k \in Matches(d, Len(ListOf(d))) : Cardinality(Matches(d, k - 1)) < MAX_MATCH_ITEM_PER_LIB }

\* A slip: only the last word of the list is compared.
AddMatchAfterOther(list, w) ==
    IF list # <<>> /\ Last(list) = w THEN list ELSE Append(list, w)

AddMatch(list, w) == IF w \in ToSet(list) THEN list ELSE Append(list, w)

\* The list after a dictionary.
AddMatches(list, d) ==
    LET added[k \in 0 .. Len(ListOf(d))] ==
            IF k = 0 THEN list
            ELSE IF k \in AiIndex(d) THEN AddMatch(added[k - 1], ListOf(d)[k]) ELSE added[k - 1]
    IN  added[Len(ListOf(d))]

\* Libs::LookupWithRule: one dictionary after the other; then the list is sorted.
LookupWithRule ==
    /\ pc = "regexp" /\ lib <= Len(dicts)
    /\ ppMatchWord' = AddMatches(ppMatchWord, lib)
    /\ lib' = lib + 1
    /\ UnchangedSimilar
    /\ UNCHANGED <<dicts, no_fuzzy, str, kind, pc, matches, plan, ind, res_list, page>>

Place(w) == CHOOSE k \in DOMAIN Order : Order[k] = w

SortMatches ==
    /\ pc = "regexp" /\ lib > Len(dicts)
    /\ \E p \in [DOMAIN ppMatchWord -> DOMAIN ppMatchWord] :
          /\ IsInjective(p)
          /\ ppMatchWord' = [k \in DOMAIN ppMatchWord |-> ppMatchWord[p[k]]]
    /\ \A j, k \in DOMAIN ppMatchWord' :
          j < k => Place(ppMatchWord'[j]) <= Place(ppMatchWord'[k])
    /\ plan' = ppMatchWord'
    /\ pc' = "lookup" /\ lib' = 1
    /\ UnchangedSimilar
    /\ UNCHANGED <<dicts, no_fuzzy, str, kind, matches, ind, res_list, page>>

\* When every word was looked up: the content is made, or a simple query that found
\* nothing is searched for again, as it was typed.
PlanDone ==
    /\ pc = "lookup" /\ plan = <<>>
    /\ IF kind = "simple" /\ res_list = <<>> /\ ~no_fuzzy
       THEN pc' = "fuzzy" /\ kind' = "fuzzy" /\ UNCHANGED page
       ELSE /\ pc' = "idle" /\ UNCHANGED kind
            /\ MakePage(rout, res_list, str) /\ UNCHANGED template
    /\ UnchangedSimilar
    /\ UNCHANGED <<dicts, no_fuzzy, str, matches, ppMatchWord, plan, lib, ind, res_list>>
-----------------------------------------------------------------------------
(* SimpleLookup of Head(plan): SimpleLookupWord in one dictionary after     *)
(* the other.                                                               *)

word == Head(plan)

NextDictionary == pc' = "lookup" /\ lib' = lib + 1 /\ Clear /\ UNCHANGED plan

\* The dictionary's word at ind is a result, with its article.
AddResult == res_list' = Append(res_list, [asked |-> word, lib |-> lib, ind |-> ind'])

SimpleLookupFound ==
    /\ pc = "lookup" /\ plan # <<>> /\ lib <= Len(dicts)
    /\ ind' \in Hits(lib, word, FALSE)
    /\ AddResult
    /\ NextDictionary
    /\ UnchangedQuery

SimpleLookupMissed ==
    /\ pc = "lookup" /\ plan # <<>> /\ lib <= Len(dicts)
    /\ Hits(lib, word, FALSE) = {}
    /\ ind' \in Misses(lib)
    /\ IF no_fuzzy THEN NextDictionary
       ELSE pc' = "similar" /\ UnchangedSimilar /\ UNCHANGED <<plan, lib>>
    /\ UNCHANGED res_list
    /\ UnchangedQuery

WordDone ==
    /\ pc = "lookup" /\ plan # <<>> /\ lib > Len(dicts)
    /\ plan' = Tail(plan) /\ lib' = 1
    /\ UnchangedQuery /\ UnchangedSimilar
    /\ UNCHANGED <<pc, ind, res_list>>
-----------------------------------------------------------------------------
(* LookupSimilarWord.                                                       *)

\* What is cut off the end of a word longer than so much, and what is put there
\* instead; a consonant that the ending doubled may go too.
Rules == <<
    [suffixes |-> {<<"s">>, <<"e", "d">>}, longer |-> 1, cut |-> 1, doubled |-> FALSE,
     endings |-> <<NoWord>>],
    [suffixes |-> {<<"l", "y">>}, longer |-> 2, cut |-> 2, doubled |-> TRUE,
     endings |-> <<NoWord>>],
    [suffixes |-> {<<"i", "n", "g">>}, longer |-> 3, cut |-> 3, doubled |-> TRUE,
     endings |-> <<NoWord, <<"e">>>>],
    [suffixes |-> {<<"e", "s">>}, longer |-> 3, cut |-> 2, doubled |-> FALSE,
     endings |-> <<NoWord>>],
    [suffixes |-> {<<"e", "d">>}, longer |-> 3, cut |-> 2, doubled |-> TRUE,
     endings |-> <<NoWord>>],
    [suffixes |-> {<<"i", "e", "d">>}, longer |-> 3, cut |-> 3, doubled |-> FALSE,
     endings |-> <<<<"y">>>>],
    [suffixes |-> {<<"i", "e", "s">>}, longer |-> 3, cut |-> 3, doubled |-> FALSE,
     endings |-> <<<<"y">>>>],
    [suffixes |-> {<<"e", "r">>}, longer |-> 2, cut |-> 2, doubled |-> FALSE,
     endings |-> <<NoWord>>],
    [suffixes |-> {<<"e", "s", "t">>}, longer |-> 3, cut |-> 3, doubled |-> FALSE,
     endings |-> <<NoWord>>] >>

Vowels == {"a", "e", "i", "o", "u"}
IsVowel(c) == LowerChar(c) \in Vowels

\* "es" after s, x, o, ch, sh.
EsCondition(w) ==
    LET last == Len(w) - 2 IN
    \/ LowerChar(w[last]) \in {"s", "x", "o"}
    \/ Len(w) > 4 /\ LowerChar(w[last]) = "h" /\ LowerChar(w[last - 1]) \in {"c", "s"}

Applies(r, w) ==
    /\ Len(w) > r.longer
    /\ \E suffix \in r.suffixes : EndsIn(w, suffix)
    /\ r.suffixes = {<<"e", "s">>} => EsCondition(w)

DoubledAt(r, w) ==
    LET last == Len(w) - r.cut IN
    /\ r.doubled /\ last > 3
    /\ w[last] = w[last - 1] /\ ~IsVowel(w[last - 1]) /\ IsVowel(w[last - 2])

\* The buffer, one cell longer than the word: the string in it, and one put after it.
CString(buf) ==
    Prefix(buf, (CHOOSE k \in DOMAIN buf : buf[k] = NUL /\ \A j \in 1 .. k - 1 : buf[j] # NUL) - 1)
Append0(buf, ending) ==
    IF ending = NoWord THEN buf
    ELSE LET n == Len(CString(buf)) IN [buf EXCEPT ![n + 1] = Head(ending), ![n + 2] = NUL]

\* A slip: the index found is not taken over.
FoundElsewhere(w) ==
    /\ Hits(lib, w, TRUE) # {}
    /\ ind' = ind
    /\ AddResult
    /\ NextDictionary

\* One Lookup() of the rules: found, or what to do next.
Found(w) ==
    /\ ind' \in Hits(lib, w, TRUE)
    /\ AddResult
    /\ NextDictionary
Missed(w) ==
    /\ Hits(lib, w, TRUE) = {}
    /\ tried' = Append(tried, w)
    /\ UNCHANGED <<plan, lib, ind, res_list>>

NextRule == pc' = "similar" /\ rule' = rule + 1

IsPureEnglish(w) == \A k \in DOMAIN w : w[k] \notin NonAscii

\* First the word itself, in any case.
IgnoreCase ==
    /\ pc = "similar" /\ rule = 0
    /\ \/ Found(word)
       \/ /\ Missed(word)
          /\ IF ~IsPureEnglish(word) THEN pc' = pc /\ rule' = Len(Rules) + 1 ELSE NextRule
          /\ UNCHANGED <<sNewWord, endings>>
    /\ UnchangedQuery

StartRule ==
    /\ pc = "similar" /\ rule \in DOMAIN Rules /\ Applies(Rules[rule], word)
    /\ LET r == Rules[rule]
           stem == [Append(word, NUL) EXCEPT ![Len(word) - r.cut + 1] = NUL]
       IN  /\ endings' = r.endings
           /\ IF DoubledAt(r, word)
              THEN pc' = "doubled" /\ sNewWord' = [stem EXCEPT ![Len(word) - r.cut] = NUL]
              ELSE pc' = "ending" /\ sNewWord' = stem
    /\ UnchangedQuery
    /\ UNCHANGED <<plan, lib, ind, rule, tried, res_list>>

SkipRule ==
    /\ pc = "similar" /\ rule \in DOMAIN Rules /\ ~Applies(Rules[rule], word)
    /\ NextRule
    /\ UnchangedQuery
    /\ UNCHANGED <<plan, lib, ind, sNewWord, endings, tried, res_list>>

\* A slip: the doubled consonant is not put back.
NotRestored == sNewWord

\* Without the doubled consonant, which is then put back.
Restored == LET k == Len(word) - Rules[rule].cut IN [sNewWord EXCEPT ![k] = sNewWord[k - 1]]

TryDoubled ==
    /\ pc = "doubled"
    /\ \/ Found(CString(sNewWord))
       \/ /\ Missed(CString(sNewWord))
          /\ sNewWord' = Restored
          /\ pc' = "ending" /\ UNCHANGED <<rule, endings>>
    /\ UnchangedQuery

TryEnding ==
    /\ pc = "ending"
    /\ LET buf == Append0(sNewWord, Head(endings)) IN
         \/ Found(CString(buf))
         \/ /\ Missed(CString(buf))
            /\ sNewWord' = buf /\ endings' = Tail(endings)
            /\ IF Tail(endings) = <<>> THEN NextRule ELSE UNCHANGED <<pc, rule>>
    /\ UnchangedQuery

\* No rule helped.
NothingSimilar ==
    /\ pc = "similar" /\ rule > Len(Rules)
    /\ NextDictionary
    /\ UnchangedQuery
    /\ UNCHANGED <<ind, res_list>>
-----------------------------------------------------------------------------
Step ==
    \/ LookupWithFuzzy \/ LookupData \/ LookupWithRule \/ SortMatches
    \/ PlanDone \/ SimpleLookupFound \/ SimpleLookupMissed \/ WordDone
    \/ IgnoreCase \/ StartRule \/ SkipRule \/ TryDoubled \/ TryEnding \/ NothingSimilar

Next ==
    \/ \E s \in Phrases : ProcessPhrase(s)
    \/ Step

Spec == Init /\ [][Next]_vars
-----------------------------------------------------------------------------
\* The base words of an inflected word, by their spelling: what is left when the
\* ending is taken from it, with y for ied and ies, with e for ing, and less one of
\* two equal consonants after a vowel when that is over three letters.
Stem(w, suffix, min) ==
    { Prefix(w, n) : n \in { k \in min .. Len(w) : EndsIn(w, suffix) /\ k + Len(suffix) = Len(w) } }
Single(u) ==
    { Prefix(u, n - 1) : n \in { k \in 4 .. Len(u) :
        k = Len(u) /\ u[k] = u[k - 1] /\ ~IsVowel(u[k]) /\ IsVowel(u[k - 2]) } }
WithSingle(stems) == stems \cup UNION { Single(u) : u \in stems }
TakesEs(u) == (\E e \in {"s", "x", "o"} : EndsIn(u, <<e>>))
              \/ (Len(u) > 2 /\ \E c \in {"c", "s"} : EndsIn(u, <<c, "h">>))
BaseWords(w) ==
    IF ~IsPureEnglish(w) THEN {w}
    ELSE {w} \cup Stem(w, <<"s">>, 1)
         \cup { Append(v, w[Len(v) + 1]) : v \in Stem(w, <<"e", "d">>, 0) }
         \cup WithSingle(Stem(w, <<"l", "y">>, 1) \cup Stem(w, <<"i", "n", "g">>, 1)
                         \cup Stem(w, <<"e", "d">>, 2))
         \cup { Append(v, "e") : v \in Stem(w, <<"i", "n", "g">>, 1) }
         \cup { v \in Stem(w, <<"e", "s">>, 2) : TakesEs(v) }
         \cup { Append(v, "y") :
                   v \in Stem(w, <<"i", "e", "d">>, 1) \cup Stem(w, <<"i", "e", "s">>, 1) }
         \cup Stem(w, <<"e", "r">>, 1) \cup Stem(w, <<"e", "s", "t">>, 1)

\* When LookupSimilarWord finds nothing it has looked up every base word of the
\* word, and nothing that is none, though all rules share one buffer.
AllBasesTried ==
    pc = "similar" /\ rule > Len(Rules) => ToSet(tried) = BaseWords(word)

\* A result is the word asked for or its synonym, if the dictionary has one; a word
\* of another spelling comes only from a dictionary that has not, is a base word or
\* its synonym, and never comes with -e.
ResultsAreAsked ==
    \A n \in DOMAIN res_list :
        LET r == res_list[n] IN
        IF Hits(r.lib, r.asked, FALSE) # {} THEN r.ind \in Hits(r.lib, r.asked, FALSE)
        ELSE ~no_fuzzy /\ \E b \in BaseWords(r.asked) : r.ind \in Hits(r.lib, b, TRUE)

\* What a rule search found: no word twice, in order, no more than match_res has
\* places for; and the first matches of every dictionary are among them, so only a
\* dictionary with more than MAX_MATCH_ITEM_PER_LIB of them has some left out.
RuleSearch ==
    kind = "regexp" /\ pc = "lookup" =>
        /\ Len(ppMatchWord) <= MAX_MATCH_ITEM_PER_LIB * Len(dicts)
        /\ \A j, k \in DOMAIN ppMatchWord :
               j < k => Place(ppMatchWord[j]) < Place(ppMatchWord[k])
        /\ ToSet(ppMatchWord) \subseteq matches
        /\ \A d \in DOMAIN dicts : \A k \in DOMAIN ListOf(d) :
               /\ ListOf(d)[k] \in matches \ ToSet(ppMatchWord)
               => Cardinality({ j \in 1 .. k - 1 : ListOf(d)[j] \in ToSet(ppMatchWord) })
                      >= MAX_MATCH_ITEM_PER_LIB

\* The page, from the template as it is written: outside the loops every text and
\* variable once, a loop once for every result, in their order, each value as a JSON
\* string after {{m:j}}; without alldata the sections {{m:b}} only.
MarkersBefore(k) == { j \in 1 .. k : template[j].t = "marker" }
SectionOf(k) == template[CHOOSE j \in MarkersBefore(k) : \A i \in MarkersBefore(k) : i <= j].flag
Shows(k) == alldata \/ MarkersBefore(k) = {} \/ SectionOf(k) = "b"
LoopOf(k) == { f \in 1 .. k - 1 : template[f].t = "for"
                                  /\ \A j \in f .. k - 1 : template[j].t # "endfor" }
ValueOf(key, n) ==
    CASE key = STR -> <<"str", str>>
      [] key = IDX -> <<"idx", n>>
      [] key = WORD -> <<"word", res_list[n]>>
      [] key = DEFINITION -> <<"definition", res_list[n]>>
      [] key = BOOKNAME -> <<"bookname", res_list[n]>>
PutOut(k, n) ==
    IF template[k].t = "text" THEN template[k].text
    ELSE Value(ValueOf(template[k].text, n), MarkersBefore(k) # {} /\ SectionOf(k) = "j")
PutsOut(k, loop) == template[k].t \in {"text", "var"} /\ LoopOf(k) = loop
TurnOf(f, n) ==
    FlattenSeq([k \in DOMAIN template |->
        IF PutsOut(k, {f}) THEN <<PutOut(k, n)>> ELSE <<>>])
PageOf ==
    FlattenSeq([k \in DOMAIN template |->
        IF ~Shows(k) THEN <<>>
        ELSE IF template[k].t = "for"
        THEN FlattenSeq([n \in DOMAIN res_list |-> TurnOf(k, n)])
        ELSE IF PutsOut(k, {}) THEN <<PutOut(k, 0)>> ELSE <<>>])

\* A template as the documentation has it: a loop ends before the next one, with no
\* marker in it, and the values of a result are put out in a loop.
Documented ==
    \A k \in DOMAIN template :
        /\ template[k].t \in {"for", "marker"} => LoopOf(k) = {}
        /\ template[k].t = "endfor" => LoopOf(k) # {}
        /\ template[k].t = "var" =>
               template[k].text \in {STR} \cup IF LoopOf(k) = {} THEN {}
                                               ELSE {IDX, WORD, DEFINITION, BOOKNAME}

\* The page of a phrase shows all results of this phrase, and nothing of another; before
\* the first phrase there is none.
PageShowsResults ==
    pc = "idle" /\ (str # NoWord \/ rout # <<>>) /\ Documented => rout = PageOf
=============================================================================
