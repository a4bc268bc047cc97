------------------------------- MODULE IdxFile -------------------------------
(***************************************************************************)
(* The sorted word list of one StarDict dictionary (its .idx file) and the *)
(* two orders the program searches it with.                                *)
(*                                                                         *)
(* A word is the integer rank the byte order of stardict_strcmp gives it   *)
(* (compare without case first, then with case).  strcasecmp is coarser:   *)
(* it compares the case class Fold[w] of a word, and agrees with           *)
(* stardict_strcmp on words of different classes, so Fold is monotone.     *)
(***************************************************************************)
EXTENDS Integers

CONSTANTS
    Words,      \* the words that occur in dictionaries and in queries
    Fold,       \* Fold[w]: rank of the case class of w
    MaxWc       \* bound: the largest wordcount of a dictionary

ASSUME WordsAssumption == Words \subseteq Int

ASSUME FoldAssumption ==
    /\ Fold \in [Words -> Int]
    /\ \A a, b \in Words : a <= b => Fold[a] <= Fold[b]

ASSUME MaxWcAssumption == MaxWc \in Nat \ {0}

\* "no such word, and none greater": the index after every word.
INVALID_INDEX == -100

Cmps == {"stardict_strcmp", "strcasecmp"}

\* cmp(a, b) is negative, zero or positive as Rank(cmp, a) is less than,
\* equal to or greater than Rank(cmp, b).
Rank(cmp, w) == IF cmp = "strcasecmp" THEN Fold[w] ELSE w

\* The word lists the program can be given.  DICTFILE_FORMAT asks for the
\* order of stardict_strcmp and lets several entries share a word;
\* Dict::load_ifofile refuses wordcount 0.
Sorted(f, n) == \A i, j \in 0 .. n - 1 : i <= j => f[i] <= f[j]
Files == UNION { { [wc |-> n, word |-> f] :
                     f \in { g \in [0 .. n - 1 -> Words] : Sorted(g, n) } } :
                 n \in 1 .. MaxWc }

\* What lookup() must tell its caller about str in the list f: an entry equal
\* to str under cmp if it says found, and otherwise the first entry greater
\* than str, or INVALID_INDEX when there is none.
LookupAnswer(f, cmp, str, found, idx) ==
    IF found
    THEN /\ idx \in 0 .. f.wc - 1
         /\ Rank(cmp, f.word[idx]) = Rank(cmp, str)
    ELSE IF idx = INVALID_INDEX
         THEN \A i \in 0 .. f.wc - 1 : Rank(cmp, f.word[i]) < Rank(cmp, str)
         ELSE /\ idx \in 0 .. f.wc - 1
              /\ Rank(cmp, f.word[idx]) > Rank(cmp, str)
              /\ \A i \in 0 .. idx - 1 : Rank(cmp, f.word[i]) < Rank(cmp, str)
==============================================================================
