------------------------------- MODULE Article -------------------------------
(***************************************************************************)
(* The sections of an article: how DictBase::GetWordData lays them out in  *)
(* memory, how Library::parse_data reads them back and applies the rules   *)
(* of format.conf, and how the full-text search (Libs::LookupData,         *)
(* DictBase::SearchData) walks over them in the file.  A byte is its code. *)
(* The sizes in a .dict file are in network byte order, and the program    *)
(* reads and writes numbers in the byte order of the host: where that      *)
(* leads it out of an article is the end of what is defined.               *)
(***************************************************************************)
EXTENDS Integers, Sequences, SequencesExt, FiniteSets

CONSTANTS
    BigEndian,      \* whether the host has the byte order of the network
    Libraries,      \* the sequences of dictionaries that may be loaded
    Phrases,        \* what may be searched for, after the '|'
    Beyond,         \* what may follow the search buffer in memory
    Conf,           \* format.conf: the sequence of its lines
    Regexes,        \* the regular expressions that are well formed
    RegexReplace(_, _, _)   \* std::regex_replace: of one of them, in a text, by a text

VARIABLES
    dicts,          \* the dictionaries: types and articles of each
    pc,             \* what runs: a loop of one of the operations, or none
    at,             \* the dictionary and article being worked on
    data, p1, p2, i,    \* GetWordData: the copy, where it writes and reads, item
    p, res,         \* parse_data: where it reads, the sections it generated
    SearchWords, origin_data, WordFind, \* SearchData, which also walks with p and i
    rest, reslist   \* LookupData: the places of the articles to come, and those found

vars == <<dicts, pc, at, data, p1, p2, i, p, res,
          SearchWords, origin_data, WordFind, rest, reslist>>
-----------------------------------------------------------------------------
U32 == 4            \* sizeof(uint32_t)
Unset == -1         \* a byte nothing was written to

\* A number of 32 bits in network byte order, as in a file, and in the order of the host,
\* as set_uint32() puts it.
Fits32(n) == n \div 16777216 < 256
Network(n) == << n \div 16777216, (n \div 65536) % 256, (n \div 256) % 256, n % 256 >>
HostOrder(b) == IF BigEndian THEN b ELSE << b[4], b[3], b[2], b[1] >>
Host(n) == HostOrder(Network(n))

\* get_uint32() at address a of a piece of memory.
Number(b) == 16777216 * b[1] + 65536 * b[2] + 256 * b[3] + b[4]
Uint32(mem, a) == Number(HostOrder(SubSeq(mem, a + 1, a + U32)))

IsUpper(c) == c \in 65 .. 90

\* The types whose sections are searched, and those that are shown: l g k m t x y,
\* and h and w too.  Of the binary ones W and P are stepped over.
SearchedTypes == {108, 103, 107, 109, 116, 120, 121}
ShownTypes == SearchedTypes \cup {104, 119}
SkippedTypes == {87, 80}

\* A section as it stands in a file: a text ends in '\0', the rest begin with
\* their size.
Field(s) == IF IsUpper(s.type) THEN Network(Len(s.body)) \o s.body ELSE Append(s.body, 0)

\* An article in the .dict file.  With a sametypesequence the types are left out,
\* and so is the end or the size of the last section.
InFile(types, sections) ==
    IF types = <<>> THEN FlattenSeq([k \in DOMAIN sections |->
                                        <<sections[k].type>> \o Field(sections[k])])
    ELSE FlattenSeq([k \in 1 .. Len(types) - 1 |-> Field(sections[k])])
         \o Last(sections).body

\* What an article is (external): with a sametypesequence it has these sections; a text
\* has no end in it; and its size, and that of what is made of it, take 32 bits.
Conforms(types, sections) ==
    /\ sections \in Seq([type : 1 .. 255, body : Seq(0 .. 255)])
    /\ \A k \in DOMAIN sections :
         /\ IsUpper(sections[k].type) \/ 0 \notin ToSet(sections[k].body)
         /\ Fits32(Len(sections[k].body))
    /\ types # <<>> => /\ Len(sections) = Len(types)
                       /\ \A k \in DOMAIN sections : sections[k].type = types[k]
    /\ Fits32(Len(InFile(types, sections)) + Len(types) + 2 * U32)

ASSUME LibrariesAssumption ==
    \A lib \in Libraries : \A d \in DOMAIN lib :
        /\ lib[d].types \in Seq(1 .. 255)
        /\ lib[d].path \in Seq(1 .. 255) /\ lib[d].name \in Seq(1 .. 255)
        /\ \A a \in DOMAIN lib[d].articles : Conforms(lib[d].types, lib[d].articles[a])

\* What is typed are bytes, and so is what memory holds behind the buffer.
ASSUME SearchAssumption ==
    /\ \A phrase \in Phrases : phrase \in Seq(1 .. 255)
    /\ \A b \in Beyond : b \in Seq(0 .. 255)

Types == dicts[at.dict].types
Sections == dicts[at.dict].articles[at.article]

Raw == InFile(Types, Sections)

\* strlen() at address a.
StrLen(mem, a) == CHOOSE n \in 0 .. Len(mem) - a :
                      /\ a + n = Len(mem) \/ mem[a + n + 1] = 0
                      /\ \A k \in 1 .. n : mem[a + k] # 0

\* How many bytes a section with no type before it takes.
SectionSize(type, mem, a) ==
    IF IsUpper(type) THEN Uint32(mem, a) + U32 ELSE StrLen(mem, a) + 1

\* The size, or the end of the text, lies in this memory.
CanRead(type, mem, a) ==
    IF IsUpper(type) THEN a + U32 <= Len(mem) ELSE \E k \in a + 1 .. Len(mem) : mem[k] = 0

\* memcpy of some bytes to address a, as far as the memory reaches.
Write(mem, a, bytes) ==
    [k \in DOMAIN mem |-> IF k \in a + 1 .. a + Len(bytes) THEN bytes[k - a] ELSE mem[k]]

Idle == pc \in {"idle", "parsed", "searched"}
NoArticle == [dict |-> 0, article |-> 0]
ResetSearch ==
    /\ SearchWords' = <<>> /\ origin_data' = <<>> /\ WordFind' = {}
    /\ rest' = {} /\ reslist' = {}

Init ==
    /\ dicts \in Libraries
    /\ pc = "idle"
    /\ at = NoArticle
    /\ data = <<>> /\ p1 = 0 /\ p2 = 0 /\ i = 0
    /\ p = 0 /\ res = <<>>
    /\ SearchWords = <<>> /\ origin_data = <<>> /\ WordFind = {}
    /\ rest = {} /\ reslist = {}
-----------------------------------------------------------------------------
(* GetWordData, a miss of its cache: what WordDataCache calls the data.     *)

\* A slip: the end of the last text is not counted.
DataSizeWithoutEnd(types, size) ==
    size + U32 + Len(types) + IF IsUpper(Last(types)) THEN U32 ELSE 0

DataSize(types, size) ==
    size + U32 + Len(types) + IF IsUpper(Last(types)) THEN U32 ELSE 1

GetWordData(d, a) ==
    /\ Idle
    /\ at' = [dict |-> d, article |-> a]
    /\ LET types == dicts[d].types
           raw == InFile(types, dicts[d].articles[a])
       IN  IF types = <<>>
           THEN /\ data' = Host(Len(raw) + U32) \o raw
                /\ pc' = "parse" /\ p1' = Len(raw) + U32 /\ p2' = Len(raw) /\ i' = 0
           ELSE /\ data' = [k \in 1 .. DataSize(types, Len(raw)) |-> Unset]
                /\ pc' = "copy" /\ p1' = U32 /\ p2' = 0 /\ i' = 1
    /\ p' = U32 /\ res' = <<>>
    /\ ResetSearch
    /\ UNCHANGED dicts

\* The section at p2 lies in what was read.
ItemLies == CanRead(Types[i], Raw, p2) /\ p2 + SectionSize(Types[i], Raw, p2) <= Len(Raw)

\* A head item: its type, then its bytes.
CopyItem ==
    /\ pc = "copy" /\ i < Len(Types) /\ ItemLies
    /\ LET size == SectionSize(Types[i], Raw, p2) IN
         /\ data' = Write(data, p1, <<Types[i]>> \o SubSeq(Raw, p2 + 1, p2 + size))
         /\ p1' = p1 + 1 + size
         /\ p2' = p2 + size
    /\ i' = i + 1
    /\ UNCHANGED <<dicts, pc, at, p, res, SearchWords, origin_data, WordFind, rest, reslist>>

\* memcpy of more than there is: what comes of it is not defined.
CopyOutside ==
    /\ pc = "copy" /\ i < Len(Types) /\ ~ItemLies
    /\ pc' = "copy outside"
    /\ UNCHANGED <<dicts, at, data, p1, p2, i, p, res,
                   SearchWords, origin_data, WordFind, rest, reslist>>

\* The last item, given the end or the size that the file leaves out; and the
\* size of it all.
LastItem(body) ==
    <<Last(Types)>> \o IF IsUpper(Last(Types)) THEN Host(Len(body)) \o body ELSE Append(body, 0)

CopyLastItem ==
    /\ pc = "copy" /\ i = Len(Types)
    /\ LET item == LastItem(SubSeq(Raw, p2 + 1, Len(Raw))) IN
         /\ data' = Write(Write(data, p1, item), 0, Host(Len(data)))
         /\ p1' = p1 + Len(item)
         /\ p2' = Len(Raw)
    /\ pc' = "parse"
    /\ UNCHANGED <<dicts, at, i, p, res, SearchWords, origin_data, WordFind, rest, reslist>>
-----------------------------------------------------------------------------
(* The rules of format.conf.  {{DICT_PATH}} and {{DICT_NAME}} are one cell. *)

DICT_PATH == -2
DICT_NAME == -3
Hash == 35
Colon == 58
Backslash == 92
Operators == {61, 126}      \* x=y, a text, and x~y, a regular expression
NoOperator == 0

\* One character of a line: a backslash makes the next one a part of the text, or
\* the tab, newline or return it names; the first operator parts x from y.
Named(c) == CASE c = 110 -> 10 [] c = 116 -> 9 [] c = 114 -> 13 [] OTHER -> c
Add(s, c) == IF s.op = NoOperator THEN [s EXCEPT !.from = Append(@, c), !.escape = FALSE]
             ELSE [s EXCEPT !.to = Append(@, c), !.escape = FALSE]
TakeConfChar(s, c) ==
    CASE s.escape -> Add(s, Named(c))
      [] ~s.escape /\ c = Backslash -> [s EXCEPT !.escape = TRUE]
      [] ~s.escape /\ c \in Operators /\ s.op = NoOperator -> [s EXCEPT !.op = c]
      [] OTHER -> Add(s, c)
TakenLine(line) ==
    LET taken[k \in 0 .. Len(line)] ==
            IF k = 0 THEN [from |-> <<>>, op |-> NoOperator, to |-> <<>>, escape |-> FALSE]
            ELSE TakeConfChar(taken[k - 1], line[k])
    IN  taken
Rule(line) == TakenLine(line)[Len(line)]

\* A slip: the rules of a type are collected from the last one on.
AddRuleInFront(rules, rule) == IF rule.op = NoOperator THEN rules ELSE <<rule>> \o rules

\* What has no operator is no rule.
AddRule(rules, rule) == IF rule.op = NoOperator THEN rules ELSE Append(rules, rule)

\* A comment, the type of the rules to come, or a rule.
TakeLine(s, line) ==
    CASE line[1] = Hash -> s
      [] line[1] = Colon -> [s EXCEPT !.type = line[2]]
      [] OTHER -> [s EXCEPT !.rules[s.type] = AddRule(@, Rule(line))]
Loaded ==
    LET loaded[k \in 0 .. Len(Conf)] ==
            IF k = 0 THEN [type |-> 109, rules |-> [type \in 1 .. 255 |-> <<>>]]
            ELSE TakeLine(loaded[k - 1], Conf[k])
    IN  loaded
CustomRep == Loaded[Len(Conf)].rules

\* genFormatText: the variables of a text get their values.
GenFormatText(text, dict) ==
    FlattenSeq([k \in DOMAIN text |->
        CASE text[k] = DICT_PATH -> dict.path
          [] text[k] = DICT_NAME -> dict.name
          [] OTHER -> <<text[k]>>])

\* TransActText::replaceAll: from left to right, going on after what was put in.
ReplaceText(s, f, t) ==
    LET FoundAt(k) == k + Len(f) - 1 <= Len(s) /\ SubSeq(s, k, k + Len(f) - 1) = f
        after[k \in 1 .. Len(s) + 1] ==
            CASE k > Len(s) -> <<>>
              [] k <= Len(s) /\ FoundAt(k) -> t \o after[k + Len(f)]
              [] OTHER -> <<s[k]>> \o after[k + 1]
    IN  after[1]

\* TransActRegex::replaceAll leaves the text alone when the expression is no good.
ReplaceBy(rule, dict, text) ==
    LET f == GenFormatText(rule.from, dict)
        t == GenFormatText(rule.to, dict)
    IN  CASE rule.op = 61 -> ReplaceText(text, f, t)
          [] rule.op = 126 /\ f \in Regexes -> RegexReplace(f, text, t)
          [] OTHER -> text

\* The rules of its type, one after the other.
ReplacedBy(rules, dict, text) ==
    LET replaced[k \in 0 .. Len(rules)] ==
            IF k = 0 THEN text ELSE ReplaceBy(rules[k], dict, replaced[k - 1])
    IN  replaced
Replaced(type, dict, text) == ReplacedBy(CustomRep[type], dict, text)[Len(CustomRep[type])]

\* No line is empty, and a type follows a colon.  A pattern has a character, at least,
\* or replaceAll never ends; and a regular expression with no variable is good, or the
\* program ends when it is loaded.
ASSUME ConfLoads ==
    /\ Conf \in Seq(Seq(Int))
    /\ \A k \in DOMAIN Conf :
         /\ Conf[k] # <<>>
         /\ Conf[k][1] = Colon => Len(Conf[k]) > 1 /\ Conf[k][2] \in 1 .. 255
         /\ Conf[k][1] \notin {Hash, Colon} =>
              LET rule == Rule(Conf[k]) IN
              /\ rule.from # <<>>
              /\ rule.op = 126 /\ {DICT_PATH, DICT_NAME} \cap ToSet(rule.from) = {}
                     => rule.from \in Regexes
-----------------------------------------------------------------------------
(* parse_data.                                                              *)

\* A slip: the size of the text after the rules.
GenerateSizeAfter(type, text) ==
    [out |-> Replaced(type, dicts[at.dict], text),
     sec_size |-> Len(Replaced(type, dicts[at.dict], text))]

\* TransformatTemplate::generate: the text with the rules of its type applied,
\* and its size in the data.
Generate(type, text) ==
    [out |-> Replaced(type, dicts[at.dict], text), sec_size |-> Len(text)]

TextAt(a) == SubSeq(data, a + 1, a + StrLen(data, a))

ParseText(type, a) ==
    IF data[a + 1] = 0
    THEN p' = a + 1 /\ UNCHANGED res
    ELSE LET g == Generate(type, TextAt(a)) IN
         /\ res' = Append(res, [type |-> type, out |-> g.out])
         /\ p' = a + g.sec_size + 1

\* What follows the type at p can be read.
NextLies == data[p + 1] \in ShownTypes \cup SkippedTypes => CanRead(data[p + 1], data, p + 1)

\* One turn of the loop.  A type that the switch does not name takes no bytes.
ParseSection ==
    /\ pc = "parse" /\ p < Uint32(data, 0) /\ NextLies
    /\ LET type == data[p + 1] IN
         \/ type \in ShownTypes /\ ParseText(type, p + 1)
         \/ type \in SkippedTypes /\ p' = p + 1 + Uint32(data, p + 1) + U32 /\ UNCHANGED res
         \/ type \notin ShownTypes \cup SkippedTypes /\ p' = p + 1 /\ UNCHANGED res
    /\ UNCHANGED <<dicts, pc, at, data, p1, p2, i,
                   SearchWords, origin_data, WordFind, rest, reslist>>

ParseOutside ==
    /\ pc = "parse" /\ p < Uint32(data, 0) /\ ~NextLies
    /\ pc' = "parse outside"
    /\ UNCHANGED <<dicts, at, data, p1, p2, i, p, res,
                   SearchWords, origin_data, WordFind, rest, reslist>>

\* A size that was read wrong may have led beyond the end.
ParseReturn ==
    /\ pc = "parse" /\ p >= Uint32(data, 0)
    /\ pc' = "parsed"
    /\ UNCHANGED <<dicts, at, data, p1, p2, i, p, res,
                   SearchWords, origin_data, WordFind, rest, reslist>>
-----------------------------------------------------------------------------
(* LookupData: its words, then every article of every dictionary.           *)

\* The words of a phrase: '\' takes the next character as it is, or as the tab
\* or the newline it names; blanks separate.
Escaped(c) == CASE c = 116 -> 9 [] c = 110 -> 10 [] OTHER -> c
Flush(s) == IF s.word = <<>> THEN s.words ELSE Append(s.words, s.word)
TakeChar(s, c) ==
    CASE s.escape -> [s EXCEPT !.word = Append(@, Escaped(c)), !.escape = FALSE]
      [] ~s.escape /\ c = 92 -> [s EXCEPT !.escape = TRUE]
      [] ~s.escape /\ c = 32 -> [s EXCEPT !.words = Flush(s), !.word = <<>>]
      [] OTHER -> [s EXCEPT !.word = Append(@, c)]
Taken(phrase) ==
    LET taken[k \in 0 .. Len(phrase)] ==
            IF k = 0 THEN [words |-> <<>>, word |-> <<>>, escape |-> FALSE]
            ELSE TakeChar(taken[k - 1], phrase[k])
    IN  taken
Words(phrase) == Flush(Taken(phrase)[Len(phrase)])

\* containSearchData: not told of type k, which SearchData does search.
ContainSearchData(d) ==
    dicts[d].types = <<>> \/ ToSet(dicts[d].types) \cap (SearchedTypes \ {107}) # {}

\* Where LookupData looks for its words, one dictionary after the other, and in each
\* one article after the other.
Places ==
    UNION { { [dict |-> d, article |-> a] : a \in DOMAIN dicts[d].articles } :
                d \in { e \in DOMAIN dicts : ContainSearchData(e) } }
Before(place, other) ==
    \/ place.dict < other.dict
    \/ place.dict = other.dict /\ place.article < other.article

LookupData(phrase) ==
    /\ Idle
    /\ SearchWords' = Words(phrase)
    /\ rest' = IF SearchWords' = <<>> THEN {} ELSE Places
    /\ pc' = "next"
    /\ data' = <<>> /\ p1' = 0 /\ p2' = 0 /\ i' = 0 /\ p' = 0 /\ res' = <<>>
    /\ at' = NoArticle /\ origin_data' = <<>> /\ WordFind' = {} /\ reslist' = {}
    /\ UNCHANGED dicts

\* The buffer only grows, and an article is read over what was in it.
NextArticle ==
    /\ pc = "next"
    /\ at' \in rest /\ \A place \in rest : place = at' \/ Before(at', place)
    /\ rest' = rest \ {at'}
    /\ LET d == dicts[at'.dict]
           raw == InFile(d.types, d.articles[at'.article])
       IN  /\ origin_data' = raw \o SubSeq(origin_data, Len(raw) + 1, Len(origin_data))
           /\ pc' = IF d.types = <<>> THEN "sections" ELSE "items"
    /\ p' = 0 /\ i' = 1 /\ WordFind' = {}
    /\ UNCHANGED <<dicts, data, p1, p2, res, SearchWords, reslist>>

LookupDataReturn ==
    /\ pc = "next" /\ rest = {}
    /\ pc' = "searched"
    /\ at' = NoArticle /\ origin_data' = <<>> /\ p' = 0 /\ i' = 0 /\ WordFind' = {}
    /\ UNCHANGED <<dicts, data, p1, p2, res, SearchWords, rest, reslist>>

\* Where strstr() finds a word in the text at address a.
Finds(mem, a, word) ==
    { t \in a .. a + StrLen(mem, a) - Len(word) : SubSeq(mem, t + 1, t + Len(word)) = word }

AllFound(found) == found = DOMAIN SearchWords

\* The words of the text at p are marked.  Once all are, SearchData returns true;
\* otherwise it goes on after the text.
SearchText(size) ==
    LET found == WordFind \cup { w \in DOMAIN SearchWords :
                                   Finds(origin_data, p, SearchWords[w]) # {} }
    IN  \/ /\ AllFound(found)
           /\ pc' = "next" /\ reslist' = reslist \cup {at}
           /\ UNCHANGED <<p, i, WordFind>>
        \/ /\ ~AllFound(found)
           /\ WordFind' = found /\ p' = p + size /\ i' = i + 1
           /\ UNCHANGED <<pc, reslist>>

StepOver(size) == p' = p + size /\ i' = i + 1 /\ UNCHANGED <<pc, WordFind, reslist>>

SearchItem ==
    /\ pc = "items" /\ i < Len(Types) /\ CanRead(Types[i], origin_data, p)
    /\ LET size == SectionSize(Types[i], origin_data, p) IN
         \/ Types[i] \in SearchedTypes /\ SearchText(size)
         \/ Types[i] \notin SearchedTypes /\ StepOver(size)
    /\ UNCHANGED <<dicts, at, data, p1, p2, res, SearchWords, origin_data, rest>>

\* A slip: wherever it begins.
LastFoundAnywhere(mem) ==
    WordFind \cup { w \in DOMAIN SearchWords : Finds(mem, p, SearchWords[w]) # {} }

\* The last item has no end: strstr() goes on in what an earlier, longer article
\* left in the buffer, and beyond it.  Only where the word begins is looked at; from
\* behind the article that always seems to be in it.
LastFound(mem) ==
    WordFind \cup { w \in DOMAIN SearchWords :
                      \E t \in Finds(mem, p, SearchWords[w]) : p > Len(Raw) \/ t < Len(Raw) }

SearchLastItem ==
    /\ pc = "items" /\ i = Len(Types)
    /\ Last(Types) \in SearchedTypes => p <= Len(origin_data)
    /\ \E b \in Beyond :
         reslist' = IF Last(Types) \in SearchedTypes /\ AllFound(LastFound(origin_data \o b))
                    THEN reslist \cup {at} ELSE reslist
    /\ pc' = "next"
    /\ UNCHANGED <<dicts, at, data, p1, p2, i, p, res,
                   SearchWords, origin_data, WordFind, rest>>

\* Without a sametypesequence every section is searched, or stepped over, from its
\* type on.
SearchSection ==
    /\ pc = "sections" /\ p < Len(Raw) /\ CanRead(origin_data[p + 1], origin_data, p)
    /\ LET type == origin_data[p + 1]
           size == SectionSize(type, origin_data, p)
       IN  \/ type \in SearchedTypes /\ SearchText(size)
           \/ type \notin SearchedTypes /\ StepOver(size)
    /\ UNCHANGED <<dicts, at, data, p1, p2, res, SearchWords, origin_data, rest>>

SearchSectionsEnd ==
    /\ pc = "sections" /\ p >= Len(Raw)
    /\ pc' = "next"
    /\ UNCHANGED <<dicts, at, data, p1, p2, i, p, res,
                   SearchWords, origin_data, WordFind, rest, reslist>>

\* A section that cannot be read in the buffer.
SearchOutside ==
    /\ \/ pc = "items" /\ i < Len(Types) /\ ~CanRead(Types[i], origin_data, p)
       \/ /\ pc = "items" /\ i = Len(Types)
          /\ Last(Types) \in SearchedTypes /\ p > Len(origin_data)
       \/ pc = "sections" /\ p < Len(Raw) /\ ~CanRead(origin_data[p + 1], origin_data, p)
    /\ pc' = "search outside"
    /\ UNCHANGED <<dicts, at, data, p1, p2, i, p, res,
                   SearchWords, origin_data, WordFind, rest, reslist>>
-----------------------------------------------------------------------------
\* Nothing is said of the program after it has read or written outside.
Outside == pc \in {"copy outside", "parse outside", "search outside"} /\ UNCHANGED vars

Step ==
    \/ CopyItem \/ CopyOutside \/ CopyLastItem
    \/ ParseSection \/ ParseOutside \/ ParseReturn
    \/ NextArticle \/ LookupDataReturn
    \/ SearchItem \/ SearchLastItem \/ SearchSection \/ SearchSectionsEnd
    \/ SearchOutside \/ Outside

Next ==
    \/ \E d \in DOMAIN dicts : \E a \in DOMAIN dicts[d].articles : GetWordData(d, a)
    \/ \E phrase \in Phrases : LookupData(phrase)
    \/ Step

Spec == Init /\ [][Next]_vars
-----------------------------------------------------------------------------
\* The sizes that an article has in the file are the same in the byte order of the host:
\* so it is on a host with network order, and elsewhere of empty sections, or when the
\* only binary section is the last one of a sametypesequence, which has none.
InHostOrder(types, sections) ==
    \A k \in DOMAIN sections :
        IsUpper(sections[k].type) /\ (types = <<>> \/ k < Len(types))
            => Host(Len(sections[k].body)) = Network(Len(sections[k].body))

\* GetWordData fills what it allocated and no more, whatever sizes it reads (data_size was
\* computed before the article was looked at): when it is done every byte of the copy was
\* written.  And it copies more than there is only when a size stands in another byte order.
LayoutExact ==
    /\ p1 <= Len(data)
    /\ pc \in {"copy", "copy outside", "parse", "parsed"} => p2 <= Len(Raw)
    /\ pc = "parse" => /\ p1 = Len(data) /\ Uint32(data, 0) = Len(data)
                       /\ \A k \in DOMAIN data : data[k] # Unset
    /\ pc = "copy outside" => ~InHostOrder(Types, Sections)

\* What parse_data shows of the first n sections of an article of a dictionary.
Shown(s) == s.type \in ShownTypes /\ s.body # <<>>
AddShown(shown, s, dict) ==
    IF Shown(s) THEN Append(shown, [type |-> s.type, out |-> Replaced(s.type, dict, s.body)])
    ELSE shown
ShownOf(sections, dict) ==
    LET shown[n \in 0 .. Len(sections)] ==
            IF n = 0 THEN <<>> ELSE AddShown(shown[n - 1], sections[n], dict)
    IN  shown

\* It knows the types of all of them.
Known(sections) == \A k \in DOMAIN sections : sections[k].type \in ShownTypes \cup SkippedTypes

\* What parse_data returns is the texts of the article, each under its own type
\* and in their order, whatever was left out of the file and whatever the binary
\* sections between them hold, and nothing outside is read; for articles of the types it
\* knows, whose sizes the host reads as they were written.
Parsable == Known(Sections) /\ InHostOrder(Types, Sections)
ParsedIsWritten ==
    /\ pc = "parsed" /\ Parsable => res = ShownOf(Sections, dicts[at.dict])[Len(Sections)]
    /\ pc = "parse outside" => ~Parsable

\* The words of a section, for whoever reads the article.
HasWord(text, word) ==
    \E t \in 0 .. Len(text) - Len(word) : SubSeq(text, t + 1, t + Len(word)) = word
HasAllWords(sections) ==
    \A w \in DOMAIN SearchWords : \E k \in DOMAIN sections :
        sections[k].type \in SearchedTypes /\ HasWord(sections[k].body, SearchWords[w])

\* The full-text search misses no article of a dictionary with a sametypesequence, unless
\* a size stands in another byte order; and for words of one letter it finds nothing else,
\* whatever earlier articles left in the buffer.  Such a size, or an article without a
\* sametypesequence, leads it out of the buffer, and nothing else does.
Searchable(d) == dicts[d].types # <<>> /\ ContainSearchData(d)
FullTextSearch ==
    /\ pc = "searched" /\ SearchWords # <<>> =>
        \A d \in DOMAIN dicts : Searchable(d) =>
            \A a \in DOMAIN dicts[d].articles : InHostOrder(dicts[d].types, dicts[d].articles[a]) =>
                LET has == HasAllWords(dicts[d].articles[a])
                    found == [dict |-> d, article |-> a] \in reslist
                IN  /\ has => found
                    /\ (\A w \in DOMAIN SearchWords : Len(SearchWords[w]) = 1)
                           /\ found => has
    /\ pc = "search outside" /\ Types # <<>> => ~InHostOrder(Types, Sections)

\* The lines of format.conf that are rules of a type: the last type named before.
TypeAt(k) == LET named == { j \in 1 .. k : Conf[j][1] = Colon }
             IN  IF named = {} THEN 109 ELSE Conf[CHOOSE j \in named : \A n \in named : n <= j][2]
RuleLines(type) == { k \in DOMAIN Conf : /\ Conf[k][1] \notin {Hash, Colon} /\ TypeAt(k) = type
                                        /\ Rule(Conf[k]).op # NoOperator }

\* When the patterns of a type are single characters, and no rule puts one in that
\* a later line looks for, every character of a text is replaced once, by the line
\* that names it, and what that puts in stays as it is.
From(rule, dict) == GenFormatText(rule.from, dict)
To(rule, dict) == GenFormatText(rule.to, dict)
SingleRules(type, dict) ==
    \A k \in RuleLines(type) :
        /\ Rule(Conf[k]).op = 61 /\ Len(From(Rule(Conf[k]), dict)) = 1
        /\ \A j \in RuleLines(type) : j < k =>
               From(Rule(Conf[k]), dict)[1] \notin ToSet(To(Rule(Conf[j]), dict))
                                                   \cup {From(Rule(Conf[j]), dict)[1]}
Substituted(type, dict, c) ==
    LET naming == { j \in RuleLines(type) : From(Rule(Conf[j]), dict) = <<c>> }
    IN  IF naming = {} THEN <<c>> ELSE To(Rule(Conf[CHOOSE j \in naming : TRUE]), dict)
ReplacedOnce ==
    pc = "parsed" /\ Parsable =>
        \A k \in DOMAIN Sections :
            LET s == Sections[k]
                dict == dicts[at.dict]
                place == Len(ShownOf(Sections, dict)[k])
            IN  Shown(s) /\ SingleRules(s.type, dict) =>
                    res[place].out = FlattenSeq([j \in DOMAIN s.body |->
                                                    Substituted(s.type, dict, s.body[j])])
=============================================================================
