--------------------------- MODULE MCFuzzySearch ---------------------------
EXTENDS FuzzySearch

\* Words of up to three letters out of three, and of four letters out of two,
\* each the number of its letters in base 4; -6 is an upper case form of 6.
Texts == UNION { [1 .. n -> 1 .. 3] : n \in 1 .. 3 } \cup [1 .. 4 -> 1 .. 2]
Number(t) == LET v[i \in 0 .. Len(t)] == IF i = 0 THEN 0 ELSE 4 * v[i - 1] + t[i]
             IN v[Len(t)]
MCWords == { Number(t) : t \in Texts } \cup {-6}
MCSpelling == [w \in MCWords |-> IF w = -6 THEN <<1, 2>>
                                 ELSE CHOOSE t \in Texts : Number(t) = w]

\* Every word on its own, and short lists of a few of them.
Few == {-6, 6, 9, 26, 41}
Lists(n) == { f \in [1 .. n -> Few] : \A i, j \in 1 .. n : i <= j => f[i] <= f[j] }
MCDictionaries ==
    { [l \in 1 .. 2 |-> <<w>>] : w \in MCWords }
    \cup { [l \in 1 .. 2 |-> IF l = 1 THEN f ELSE g] :
             f \in Lists(3), g \in Lists(1) \cup Lists(2) }
MCQueries == UNION { [1 .. n -> 1 .. 3] : n \in 1 .. 2 }
             \cup UNION { [1 .. n -> 1 .. 2] : n \in 3 .. 4 }
             \cup { <<1, 2, 3>>, <<2, 3, 1>> }
============================================================================
