---------------------------- MODULE EditDistance ----------------------------
(***************************************************************************)
(* EditDistance::CalEditDistance of distance.hpp: how many letters must be *)
(* inserted, deleted, replaced, or exchanged with their neighbour to make  *)
(* one word of another, when the number is below a limit.                  *)
(***************************************************************************)
EXTENDS Integers, Sequences

Smaller(a, b) == IF a < b THEN a ELSE b
Cost(a, b) == IF a = b THEN 0 ELSE 1

\* The lengths of the common beginning and of the common end of two words,
\* the beginning taken off first.
Common(s, t, At(_, _)) ==
    CHOOSE k \in 0 .. Smaller(Len(s), Len(t)) :
        /\ \A i \in 1 .. k : At(s, i) = At(t, i)
        /\ k < Smaller(Len(s), Len(t)) => At(s, k + 1) # At(t, k + 1)
Front(s, i) == s[i]
Back(s, i) == s[Len(s) + 1 - i]

\* What is left of s beside t without them.
Differing(s, t) ==
    LET k == Common(s, t, Front)
        cut(w) == SubSeq(w, k + 1, Len(w))
    IN SubSeq(cut(s), 1, Len(cut(s)) - Common(cut(s), cut(t), Back))

\* A slip: the letters before are not compared the other way round.
SwappedHalf(s, t, i, j) ==
    i >= 2 /\ j >= 2 /\ s[i - 1] = t[j]

\* The last two letters of both are the same, exchanged.
Swapped(s, t, i, j) ==
    i >= 2 /\ j >= 2 /\ s[i - 1] = t[j] /\ s[i] = t[j - 1]

\* A matrix with a place for the first i letters of s and the first j of t,
\* for every i and j, written row by row: place <<i, j>> of d holds what Value
\* says of those already written.
Table(s, t, Value(_, _, _)) ==
    LET n == Len(s) + 1
        size == n * (Len(t) + 1)
        upTo[k \in 0 .. size] ==
            IF k = 0 THEN <<>>
            ELSE LET d == upTo[k - 1]
                 IN Append(d, Value(d, (k - 1) % n, (k - 1) \div n))
        whole == upTo[size]
    IN [p \in (0 .. Len(s)) \X (0 .. Len(t)) |-> whole[p[2] * n + p[1] + 1]]

\* The matrix d of the program.
Matrix(s, t) ==
    LET Value(written, i, j) ==
          LET d(h, k) == written[k * (Len(s) + 1) + h + 1]
              step == Smaller(Smaller(d(i, j - 1), d(i - 1, j)) + 1,
                              d(i - 1, j - 1) + Cost(s[i], t[j]))
          IN IF i = 0 THEN j
             ELSE IF j = 0 THEN i
             ELSE IF Swapped(s, t, i, j) /\ step - d(i - 2, j - 2) = 2
             THEN step - 1
             ELSE step
    IN Table(s, t, Value)

\* s is not longer than t.  The diagonal that ends in the last corner is
\* followed until it reaches the limit.
AlongDiagonal(s, t, limit) ==
    LET d == Matrix(s, t)
        dif == Len(t) - Len(s)
        i == CHOOSE k \in 1 .. Len(s) :
               /\ k = Len(s) \/ d[<<k, dif + k>>] >= limit
               /\ \A h \in 1 .. k - 1 : d[<<h, dif + h>>] < limit
    IN d[<<i, dif + i>>]

CalEditDistance(u, v, limit) ==
    LET s == Differing(u, v)
        t == Differing(v, u)
        short == IF Len(t) < Len(s) THEN t ELSE s
        long == IF Len(t) < Len(s) THEN s ELSE t
    IN IF Len(short) = 0 THEN Len(long)
       ELSE IF Len(long) - Len(short) >= limit THEN Len(long) - Len(short)
       ELSE AlongDiagonal(short, long, limit)
-----------------------------------------------------------------------------
\* The distance by its definition: the fewest edits that make t of s, made
\* from left to right, with no letter edited twice.
Distance(s, t) ==
    LET Value(written, i, j) ==
          LET d(h, k) == written[k * (Len(s) + 1) + h + 1]
              edits ==
                  { d(i - 1, j) + 1 : x \in IF i > 0 THEN {1} ELSE {} }
                  \cup { d(i, j - 1) + 1 : x \in IF j > 0 THEN {1} ELSE {} }
                  \cup { d(i - 1, j - 1) + Cost(s[i], t[j]) :
                           x \in IF i > 0 /\ j > 0 THEN {1} ELSE {} }
                  \cup { d(i - 2, j - 2) + 1 :
                           x \in IF /\ i > 1 /\ j > 1
                                    /\ <<s[i], s[i - 1]>> = <<t[j - 1], t[j]>>
                                 THEN {1} ELSE {} }
          IN IF edits = {} THEN 0
             ELSE CHOOSE m \in edits : \A n \in edits : m <= n
    IN Table(s, t, Value)[<<Len(s), Len(t)>>]
=============================================================================
