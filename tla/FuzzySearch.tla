----------------------------- MODULE FuzzySearch -----------------------------
(***************************************************************************)
(* Libs::LookupWithFuzzy: one walk over the words of all dictionaries that *)
(* keeps the reslist_size words nearest to the one asked for.  The         *)
(* farthest word kept so far sets iMaxDistance, the distance a further     *)
(* word must stay below.                                                   *)
(*                                                                         *)
(* A word is the integer rank stardict_strcmp gives it, as in IdxFile; its *)
(* letters, in lower case, are Spelling[w].                                *)
(***************************************************************************)
EXTENDS EditDistance

CONSTANTS
    Libs,               \* dictionaries, 1 .. Libs
    Words,
    Spelling,
    Dictionaries,       \* the word lists that are searched together
    Queries,            \* the lower case spellings of the words asked for
    reslist_size,       \* 10 in the code
    iMaxFuzzyDistance   \* 3 in the code

ASSUME WordsAssumption == Words \subseteq Int /\ \A w \in Words : Spelling[w] \in Seq(Int)
ASSUME DictionariesAssumption ==
    /\ Libs \in Nat \ {0}
    /\ Dictionaries \subseteq [1 .. Libs -> Seq(Words) \ {<<>>}]
ASSUME QueriesAssumption == Queries \subseteq Seq(Int)
ASSUME SizesAssumption ==
    reslist_size \in Nat \ {0} /\ iMaxFuzzyDistance \in Nat \ {0}

VARIABLES
    file,           \* file[l]: the words of dictionary l
    pc, str,        \* the call being served: ucs4_str2
    oFuzzystruct,   \* the words kept, with their distances
    iMaxDistance,
    iLib, index,    \* the next word to examine
    reslist,        \* the answer
    Found

walk == <<oFuzzystruct, iMaxDistance, iLib, index>>
vars == <<file, pc, str, walk, reslist, Found>>

Slots == 1 .. reslist_size
Empty == [op |-> "null", dist |-> iMaxFuzzyDistance]    \* pMatchWord = nullptr
Kept(w, d) == [op |-> "word", word |-> w, dist |-> d]
Init ==
    /\ file \in Dictionaries
    /\ pc = "idle"
    /\ str = <<>>
    /\ oFuzzystruct = [j \in Slots |-> Empty]
    /\ iMaxDistance = iMaxFuzzyDistance
    /\ iLib = 1 /\ index = 1
    /\ reslist = [j \in Slots |-> Empty]
    /\ Found = FALSE

Call(q) ==
    /\ pc = "idle"
    /\ q # <<>>
    /\ str' = q
    /\ oFuzzystruct' = [j \in Slots |-> Empty]
    /\ iMaxDistance' = iMaxFuzzyDistance
    /\ iLib' = 1 /\ index' = 1
    /\ reslist' = [j \in Slots |-> Empty]
    /\ Found' = FALSE
    /\ pc' = "walk"
    /\ UNCHANGED file

\* A query that is only the '/' of a fuzzy search.
CallEmpty ==
    /\ pc = "idle"
    /\ str' = <<>>
    /\ Found' = FALSE
    /\ UNCHANGED <<file, pc, walk, reslist>>
-----------------------------------------------------------------------------
InLib == pc = "walk" /\ iLib <= Libs /\ index <= Len(file[iLib])
sCheck == file[iLib][index]

\* What of a word is compared: no more letters than the query has.
Checked(w) == SubSeq(Spelling[w], 1, Smaller(Len(Spelling[w]), Len(str)))

OtherLength(w, limit) ==
    Len(Spelling[w]) - Len(str) >= limit \/ Len(str) - Len(Spelling[w]) >= limit

\* The function f; TLC works its values out once, and not at every use.
Tabulated(f) == CHOOSE g \in {f} : g = f

\* CalEditDistance of every pair of words that can be compared.
Beginnings == UNION { { SubSeq(Spelling[w], 1, n) : n \in 0 .. Len(Spelling[w]) } : w \in Words }
EditDistances ==
    Tabulated([x \in Beginnings \X Queries \X (0 .. iMaxFuzzyDistance) |->
                  CalEditDistance(x[1], x[2], x[3])])
iDistance == EditDistances[<<Checked(sCheck), str, iMaxDistance>>]
Near == ~OtherLength(sCheck, iMaxDistance)
        /\ iDistance < iMaxDistance /\ iDistance < Len(str)

\* A slip: only the first slot is compared.
AlreadyInFirst ==
    oFuzzystruct[1].op = "word" /\ oFuzzystruct[1].word = sCheck

AlreadyInList ==
    \E j \in Slots : oFuzzystruct[j].op = "word" /\ oFuzzystruct[j].word = sCheck

\* The word is passed over.
Skip ==
    /\ InLib
    /\ ~Near
    /\ index' = index + 1
    /\ UNCHANGED <<file, pc, str, oFuzzystruct, iMaxDistance, iLib, reslist, Found>>

\* A slip: the walk does not go on.
SkipKnownStays ==
    /\ InLib
    /\ Near
    /\ AlreadyInList
    /\ Found' = TRUE
    /\ UNCHANGED <<file, pc, str, walk, reslist>>

SkipKnown ==
    /\ InLib
    /\ Near
    /\ AlreadyInList
    /\ Found' = TRUE
    /\ index' = index + 1
    /\ UNCHANGED <<file, pc, str, oFuzzystruct, iMaxDistance, iLib, reslist>>

\* The last slot at iMaxDistance; the first slot where there is none.
MaxDistanceAt ==
    LET farthest == { j \in Slots : oFuzzystruct[j].dist = iMaxDistance }
    IN IF farthest = {} THEN 1
       ELSE CHOOSE j \in farthest : \A k \in farthest : k <= j

Farthest(slots) ==
    CHOOSE d \in { slots[j].dist : j \in Slots } : \A j \in Slots : slots[j].dist <= d

\* A slip: the distance of the newest word becomes the limit.
KeepSetsLimit ==
    /\ InLib
    /\ Near
    /\ ~AlreadyInList
    /\ oFuzzystruct' = [oFuzzystruct EXCEPT ![MaxDistanceAt] = Kept(sCheck, iDistance)]
    /\ iMaxDistance' = iDistance
    /\ Found' = TRUE
    /\ index' = index + 1
    /\ UNCHANGED <<file, pc, str, iLib, reslist>>

Keep ==
    /\ InLib
    /\ Near
    /\ ~AlreadyInList
    /\ oFuzzystruct' = [oFuzzystruct EXCEPT ![MaxDistanceAt] = Kept(sCheck, iDistance)]
    /\ iMaxDistance' = Farthest(oFuzzystruct')
    /\ Found' = TRUE
    /\ index' = index + 1
    /\ UNCHANGED <<file, pc, str, iLib, reslist>>

NextLib ==
    /\ pc = "walk"
    /\ iLib <= Libs
    /\ index > Len(file[iLib])
    /\ iLib' = iLib + 1
    /\ index' = 1
    /\ UNCHANGED <<file, pc, str, oFuzzystruct, iMaxDistance, reslist, Found>>

\* std::sort by distance and then by stardict_strcmp; slots without a word
\* are the farthest.
Before(a, b) ==
    \/ a.dist < b.dist
    \/ a.dist = b.dist /\ a.op = "word" /\ b.op = "word" /\ a.word < b.word

\* A slip: the words stay in the slots they were kept in.
Unsorted(slots) == slots

Sorted(slots) ==
    CHOOSE s \in { [j \in Slots |-> slots[p[j]]] :
                     p \in { f \in [Slots -> Slots] : \A i, j \in Slots :
                               f[i] = f[j] => i = j } } :
        \A i, j \in Slots : i < j => ~Before(s[j], s[i])

Return ==
    /\ pc = "walk"
    /\ iLib > Libs
    /\ reslist' = IF Found THEN Sorted(oFuzzystruct) ELSE oFuzzystruct
    /\ pc' = "idle"
    /\ UNCHANGED <<file, str, walk, Found>>

Step == Skip \/ SkipKnown \/ Keep \/ NextLib \/ Return

Next ==
    \/ \E q \in Queries : Call(q)
    \/ CallEmpty
    \/ Step

Spec == Init /\ [][Next]_vars

\* The walk waits for nothing.
FairSpec == Spec /\ WF_vars(Step)
-----------------------------------------------------------------------------
\* The words the walk has examined.
Examined ==
    UNION { { file[l][i] : i \in { n \in 1 .. Len(file[l]) : l < iLib \/ n < index } } :
            l \in 1 .. Smaller(iLib, Libs) }

Distances == Tabulated([x \in Beginnings \X Queries |-> Distance(x[1], x[2])])

\* "it will certainly be found": the slot that gives way is always one of the
\* farthest, because iMaxDistance is what the farthest slot has.
SlotToReplace == \E j \in Slots : /\ oFuzzystruct[j].dist = iMaxDistance
                                  /\ \A k \in Slots : oFuzzystruct[k].dist <= iMaxDistance

\* No word is kept twice, each is kept with its own distance, and no word the
\* walk has passed was nearer, by its letters and its length, than the
\* farthest one it still keeps, whatever order the words came in.
NearestKept ==
    LET kept == { j \in Slots : oFuzzystruct[j].op = "word" }
        dist(w) == Distances[<<Checked(w), str>>]
    IN pc = "walk" =>
       /\ \A j, k \in kept : oFuzzystruct[j].word = oFuzzystruct[k].word => j = k
       /\ \A j \in kept : /\ oFuzzystruct[j].word \in Examined
                          /\ oFuzzystruct[j].dist = dist(oFuzzystruct[j].word)
       /\ \A w \in Examined \ { oFuzzystruct[j].word : j \in kept } :
            OtherLength(w, iMaxDistance) \/ dist(w) >= Smaller(iMaxDistance, Len(str))

\* CalEditDistance, with its shortcuts, tells a distance below the limit
\* exactly, and never takes one that is not for one that is.
DistanceExact ==
    InLib =>
        LET d == Distances[<<Checked(sCheck), str>>]
        IN  /\ d \in Nat /\ iDistance \in Nat
            /\ IF d < iMaxDistance THEN iDistance = d ELSE iDistance >= iMaxDistance

\* The caller stops at the first slot without a word: before it come all the
\* words kept, the nearest first.
NearestFirst ==
    pc = "idle" /\ Found =>
        /\ \A j \in Slots : oFuzzystruct[j].op = "word" =>
             \E k \in Slots : /\ reslist[k] = oFuzzystruct[j]
                              /\ \A i \in 1 .. k : reslist[i].op = "word"
        /\ \A j, k \in Slots : j < k => reslist[j].dist <= reslist[k].dist

\* Every search ends.
Termination == pc = "walk" ~> pc = "idle"
==============================================================================
