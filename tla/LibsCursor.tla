----------------------------- MODULE LibsCursor -----------------------------
(***************************************************************************)
(* The cursor of class Libs over the word lists of several dictionaries    *)
(* (poGetNextWord, poGetPreWord) and the request that uses it,             *)
(* Library::get_neighbour, which lists the words around a given one.       *)
(*                                                                         *)
(* A dictionary is a word list of IdxFile, looked up as module KeyIndex    *)
(* says, and the synonyms of its .syn file.                                *)
(***************************************************************************)
EXTENDS IdxFile, Sequences, FiniteSets

CONSTANTS
    Libs,           \* the numbers of the dictionaries, indexes of oLib
    Lower,          \* Lower[w]: w in lower case
    Synonyms,       \* the .syn files: sets of [syn, idx] entries
    Offsets,        \* the values of the parameter off of a request
    Lengths         \* the values of its parameter len

ASSUME LowerAssumption ==
    /\ Lower \in [Words -> Words]
    /\ \A a, b \in Words : Lower[a] = Lower[b] <=> Fold[a] = Fold[b]

ASSUME LibsAssumption == IsFiniteSet(Libs)

ASSUME RequestAssumption == Offsets \subseteq Int /\ Lengths \subseteq Nat

VARIABLES
    file,           \* file[l]: the word list of dictionary l
    synonyms,       \* synonyms[l]: its synonyms
    iCurrent,       \* iCurrent[l]: an index of file[l], or INVALID_INDEX
    word,           \* the word the last cursor call returned: {w}, or {}
    pc, str, offset, length,    \* the request being served
    back,           \* how often its first loop has still to step back
    neighbour       \* the words found so far

dicts == <<file, synonyms>>
request == <<str, offset, length>>
vars == <<dicts, iCurrent, word, pc, request, back, neighbour>>

\* The word lists of this module have no word twice.
DistinctFiles == { f \in Files : \A i, j \in 0 .. f.wc - 1 :
                                   i < j => f.word[i] < f.word[j] }
-----------------------------------------------------------------------------
\* Dict::Lookup(str, idx, false): the synonyms, by their lower case form,
\* before the index.
SynHits(l, w) == { s \in synonyms[l] : s.syn = Lower[w] }

\* Where Dict::Lookup(w, idx, false) can leave idx: whatever answer of the
\* index is right.
Lookup(l, w) ==
    IF SynHits(l, w) # {}
    THEN { s.idx : s \in SynHits(l, w) }
    ELSE { i \in {INVALID_INDEX} \cup 0 .. file[l].wc - 1 :
             \E found \in BOOLEAN :
                 LookupAnswer(file[l], "stardict_strcmp", w, found, i) }

LeastOf(S) == { w \in S : \A v \in S : w <= v }
GreatestOf(S) == { w \in S : \A v \in S : v <= w }

\* The dictionaries that have a word at their index, and that word.
HasWord(c) == { l \in Libs : c[l] >= 0 /\ c[l] < file[l].wc }
WordAt(c, l) == file[l].word[c[l]]

\* poGetCurrentWord()
CurrentWord(c) == LeastOf({ WordAt(c, l) : l \in HasWord(c) })

\* A slip: a dictionary at its end steps on too.
AdvancePastEnd(c) ==
    /\ iCurrent' = [l \in Libs |->
                      IF \/ (l \in HasWord(c) /\ WordAt(c, l) \in CurrentWord(c))
                         \/ c[l] >= file[l].wc
                      THEN c[l] + 1 ELSE c[l]]
    /\ word' = IF CurrentWord(c) = {} THEN {} ELSE CurrentWord(iCurrent')

\* A slip: the word stepped over is returned.
AdvanceReturnsCurrent(c) ==
    /\ iCurrent' = [l \in Libs |->
                      IF l \in HasWord(c) /\ WordAt(c, l) \in CurrentWord(c)
                      THEN c[l] + 1 ELSE c[l]]
    /\ word' = CurrentWord(c)

\* poGetNextWord() after its lookups: every dictionary that stands at the
\* current word steps over it.
Advance(c) ==
    /\ iCurrent' = [l \in Libs |->
                      IF l \in HasWord(c) /\ WordAt(c, l) \in CurrentWord(c)
                      THEN c[l] + 1 ELSE c[l]]
    /\ word' = IF CurrentWord(c) = {} THEN {} ELSE CurrentWord(iCurrent')

GetNextWord == Advance(iCurrent)
GetNextWordOf(w) ==
    \E c \in [Libs -> {INVALID_INDEX} \cup 0 .. MaxWc - 1] :
        /\ \A l \in Libs : c[l] \in Lookup(l, w)
        /\ Advance(c)

\* A slip: only one dictionary steps back over a word that several have.
GetPreWordInOne ==
    LET c == [l \in Libs |-> IF iCurrent[l] = INVALID_INDEX THEN file[l].wc
                                                            ELSE iCurrent[l]]
        movable == { l \in Libs : 0 < c[l] /\ c[l] <= file[l].wc }
        before(l) == file[l].word[c[l] - 1]
        w == GreatestOf({ before(l) : l \in movable })
        one == CHOOSE l \in movable : before(l) \in w
    IN /\ word' = w
       /\ iCurrent' = [l \in Libs |-> IF movable # {} /\ l = one
                                      THEN c[l] - 1 ELSE c[l]]

\* poGetPreWord(): an index after the last word is a number while its
\* dictionary takes part, and INVALID_INDEX again when it did not move.
GetPreWord ==
    LET c == [l \in Libs |-> IF iCurrent[l] = INVALID_INDEX THEN file[l].wc
                                                            ELSE iCurrent[l]]
        movable == { l \in Libs : 0 < c[l] /\ c[l] <= file[l].wc }
        before(l) == file[l].word[c[l] - 1]
        w == GreatestOf({ before(l) : l \in movable })
    IN /\ word' = w
       /\ iCurrent' = [l \in Libs |->
                         IF l \in movable /\ before(l) \in w THEN c[l] - 1
                         ELSE IF l \in movable /\ c[l] = file[l].wc
                         THEN INVALID_INDEX ELSE c[l]]
-----------------------------------------------------------------------------
Init ==
    /\ file \in [Libs -> DistinctFiles]
    /\ synonyms \in [Libs -> Synonyms]
    /\ \A l \in Libs : \A s \in synonyms[l] : s.idx < file[l].wc
    /\ iCurrent = [l \in Libs |-> 0]
    /\ word = {}
    /\ pc = "idle"
    /\ str = {} /\ offset = 0 /\ length = 0 /\ back = 0
    /\ neighbour = <<>>

\* A slip: while (++offset < 2).
RequestOneBackLess(w, off, len) ==
    /\ pc = "idle"
    /\ str' = {w} /\ offset' = off /\ length' = len
    /\ back' = 1 - off
    /\ neighbour' = <<>>
    /\ GetNextWordOf(w)
    /\ pc' = "back"
    /\ UNCHANGED dicts

\* get_neighbour(w, off, len) begins by placing the cursor after w.  Its first
\* loop, while (++offset <= 2), can step back 2 - off times.
Request(w, off, len) ==
    /\ pc = "idle"
    /\ str' = {w} /\ offset' = off /\ length' = len
    /\ back' = 2 - off
    /\ neighbour' = <<>>
    /\ GetNextWordOf(w)
    /\ pc' = "back"
    /\ UNCHANGED dicts

\* One step back.
Back ==
    /\ pc = "back"
    /\ back > 0
    /\ GetPreWord
    /\ back' = back - 1
    /\ pc' = IF word' # {} THEN "back" ELSE "collect"
    /\ UNCHANGED <<dicts, request, neighbour>>

BackEnd ==
    /\ pc = "back"
    /\ back <= 0
    /\ pc' = "collect"
    /\ UNCHANGED <<dicts, iCurrent, word, request, back, neighbour>>

\* A slip: the loop goes on after nullptr.
CollectOn ==
    /\ pc = "collect"
    /\ Len(neighbour) < length
    /\ GetNextWord
    /\ \/ /\ word' # {}
          /\ \E w \in word' : neighbour' = Append(neighbour, w)
          /\ pc' = "collect"
       \/ /\ word' = {}
          /\ UNCHANGED <<neighbour, pc>>
    /\ UNCHANGED <<dicts, request, back>>

\* One word of the answer, while it is shorter than length.
Collect ==
    /\ pc = "collect"
    /\ Len(neighbour) < length
    /\ GetNextWord
    /\ \/ /\ word' # {}
          /\ \E w \in word' : neighbour' = Append(neighbour, w)
          /\ pc' = "collect"
       \/ /\ word' = {}
          /\ neighbour' = neighbour
          /\ pc' = "idle"
    /\ UNCHANGED <<dicts, request, back>>

Answer ==
    /\ pc = "collect"
    /\ Len(neighbour) >= length
    /\ pc' = "idle"
    /\ UNCHANGED <<dicts, iCurrent, word, request, back, neighbour>>

Step == Back \/ BackEnd \/ Collect \/ Answer

Next ==
    \/ \E w \in Words, off \in Offsets, len \in Lengths : Request(w, off, len)
    \/ Step

Spec == Init /\ [][Next]_vars

\* The server's thread runs the request; nothing in it waits.
FairSpec == Spec /\ WF_vars(Step)
-----------------------------------------------------------------------------
WordsOf(l) == { file[l].word[i] : i \in 0 .. file[l].wc - 1 }
AllWords == UNION { WordsOf(l) : l \in Libs }

\* How many words of dictionary l are behind a cursor with the indexes c.
Pos(c, l) == IF c[l] = INVALID_INDEX THEN file[l].wc ELSE c[l]
Passed(c) == UNION { { file[l].word[i] : i \in 0 .. Pos(c, l) - 1 } : l \in Libs }

\* The indexes c mark one place in the merged order.
OnePlace(c) ==
    \A l, k \in Libs : \A i \in 0 .. Pos(c, l) - 1, j \in Pos(c, k) .. file[k].wc - 1 :
        file[l].word[i] < file[k].word[j]

\* Type invariant: an index is INVALID_INDEX or stays between the first word
\* and the end of its dictionary.
TypeOK ==
    /\ file \in [Libs -> DistinctFiles]
    /\ iCurrent \in [Libs -> Int]
    /\ \A l \in Libs : iCurrent[l] \in {INVALID_INDEX} \cup 0 .. file[l].wc
    /\ word \in SUBSET Words
    /\ pc \in {"idle", "back", "collect"}
    /\ neighbour \in Seq(Words)

\* The indexes of all dictionaries mark one place in the merged order: no word
\* behind the cursor in one dictionary is ahead of it in another, so a word
\* that several dictionaries have is listed once.
Synced == OnePlace(iCurrent)

MinOf(a, b) == IF a < b THEN a ELSE b
MaxOf(a, b) == IF a < b THEN b ELSE a
Below(w) == Cardinality({ v \in AllWords : v < w })

\* How many words are below the first word of an answer.  The cursor is placed
\* after the first word that is not below str and goes back 2 - offset words;
\* the answer begins one word later.  Where nothing is left to go back over,
\* that drops the very first word of all.
FirstBelow(w) ==
    MaxOf(0, MinOf(Below(w) + 1, Cardinality(AllWords)) - MaxOf(0, 2 - offset)) + 1

\* The answer of get_neighbour is a run of words of the merged order without
\* a gap or a repetition, from the word the request asks for to the length it
\* asks for, or to the last word of all.
NeighbourAnswer ==
    pc = "idle" =>
        \A w \in str :
            /\ Len(neighbour) =
                 MinOf(length, MaxOf(0, Cardinality(AllWords) - FirstBelow(w)))
            /\ \A i \in 1 .. Len(neighbour) :
                 /\ neighbour[i] \in AllWords
                 /\ Below(neighbour[i]) = FirstBelow(w) + i - 1

\* Every request is answered.
Termination == pc # "idle" ~> pc = "idle"

\* Over dictionaries without synonyms, the cursors of all dictionaries are one
\* cursor over the merged list.
MC == INSTANCE MergedCursor WITH all <- AllWords, passed <- Passed(iCurrent), ret <- word
Implements == MC!Spec
=============================================================================
