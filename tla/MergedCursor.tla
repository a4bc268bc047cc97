---------------------------- MODULE MergedCursor ----------------------------
(***************************************************************************)
(* What the three cursor calls of class Libs promise together: a cursor    *)
(* that walks over the distinct words of all dictionaries in their order.  *)
(* The cursor stands between two words; passed is the set of words it has  *)
(* behind it, and ret the word the last call returned, as a set that is    *)
(* empty when the call returned nullptr.                                   *)
(***************************************************************************)
EXTENDS Integers

CONSTANT Words

VARIABLES
    all,        \* the words of all dictionaries
    passed,     \* those behind the cursor
    ret         \* what the last call returned: {} or {w}

vars == <<all, passed, ret>>

Least(S) == { w \in S : \A v \in S : w <= v }
Greatest(S) == { w \in S : \A v \in S : v <= w }

Init ==
    /\ all \in SUBSET Words
    /\ passed = {}
    /\ ret = {}

\* Move over the next word and return the one after it.
Pass(behind) ==
    /\ passed' = behind \cup Least(all \ behind)
    /\ ret' = Least(all \ passed')
    /\ UNCHANGED all

\* poGetNextWord(str): the next word after the first one that is not below str.
Seek(str) == Pass({ w \in all : w < str })

\* poGetNextWord(nullptr)
NextWord == Pass(passed)

\* poGetPreWord(): step back over the word before the cursor and return it.
PreWord ==
    /\ passed' = passed \ Greatest(passed)
    /\ ret' = Greatest(passed)
    /\ UNCHANGED all

Next ==
    \/ \E str \in Words : Seek(str)
    \/ NextWord
    \/ PreWord

Spec == Init /\ [][Next]_vars
=============================================================================
