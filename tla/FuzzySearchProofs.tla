-------------------------- MODULE FuzzySearchProofs --------------------------
(***************************************************************************)
(* For any dictionaries, queries and sizes: what LookupWithFuzzy keeps on  *)
(* its walk, and the order it returns it in; and for any two words and any *)
(* limit, that CalEditDistance tells a distance below the limit exactly.   *)
(***************************************************************************)
EXTENDS FuzzySearch, Sorting, FiniteSetTheorems

-----------------------------------------------------------------------------
(* The numbers of the matrix.                                               *)

\* What holds of a pair when of all pairs with a smaller sum holds of all.
LEMMA Square ==
    ASSUME NEW m \in Nat, NEW n \in Nat, NEW S,
           \A i \in 0 .. m, j \in 0 .. n :
               (\A h \in 0 .. i, k \in 0 .. j : h + k < i + j => <<h, k>> \in S)
               => <<i, j>> \in S
    PROVE  \A i \in 0 .. m, j \in 0 .. n : <<i, j>> \in S
<1> DEFINE T == { x \in Nat : \A i \in 0 .. m, j \in 0 .. n : i + j < x => <<i, j>> \in S }
<1>1. 0 \in T
  <2>1. \A i \in 0 .. m, j \in 0 .. n : ~(i + j < 0)
    OBVIOUS
  <2> QED BY <2>1
<1>2. ASSUME NEW x \in 0 .. m + n, x \in T PROVE x + 1 \in T
  <2>1. ASSUME NEW i \in 0 .. m, NEW j \in 0 .. n, i + j < x + 1 PROVE <<i, j>> \in S
    <3>1. ASSUME NEW h \in 0 .. i, NEW k \in 0 .. j, h + k < i + j PROVE <<h, k>> \in S
      <4>1. h \in 0 .. m /\ k \in 0 .. n /\ h + k < x
        BY <2>1, <3>1
      <4> QED BY <1>2, <4>1
    <3> QED BY <3>1
  <2>2. x + 1 \in Nat
    OBVIOUS
  <2> QED BY <2>1, <2>2
<1>3. \A i \in 0 .. m, j \in 0 .. n : i + j < m + n + 1
  OBVIOUS
<1>4. m + n + 1 \in Nat /\ 0 .. (m + n + 1) - 1 = 0 .. m + n
  OBVIOUS
<1> HIDE DEF T
<1>5. m + n + 1 \in T
  BY <1>1, <1>2, <1>4, UpTo
<1> QED BY <1>3, <1>5 DEF T

\* d[<<i, j>>] of the first i letters of s and the first j of t.
Entry(d, s, t, i, j) ==
    /\ d[<<i, j>>] <= d[<<i - 1, j>>] + 1
    /\ d[<<i, j>>] <= d[<<i, j - 1>>] + 1
    /\ d[<<i, j>>] <= d[<<i - 1, j - 1>>] + Cost(s[i], t[j])
    /\ Swapped(s, t, i, j) => d[<<i, j>>] <= d[<<i - 2, j - 2>>] + 1
    /\ \/ d[<<i, j>>] = d[<<i - 1, j>>] + 1
       \/ d[<<i, j>>] = d[<<i, j - 1>>] + 1
       \/ d[<<i, j>>] = d[<<i - 1, j - 1>>] + Cost(s[i], t[j])
       \/ Swapped(s, t, i, j) /\ d[<<i, j>>] = d[<<i - 2, j - 2>>] + 1
\* The matrix of the first m letters of s and the first n of t.
IsMatrix(d, s, t, m, n) ==
    /\ \A i \in 0 .. m, j \in 0 .. n : d[<<i, j>>] \in Nat
    /\ \A i \in 0 .. m : d[<<i, 0>>] = i
    /\ \A j \in 0 .. n : d[<<0, j>>] = j
    /\ \A i \in 1 .. m, j \in 1 .. n : Entry(d, s, t, i, j)

\* The letters of s and t up to i and j are those of u and v.
LEMMA OneMatrix ==
    ASSUME NEW m \in Nat, NEW n \in Nat, NEW s, NEW t, NEW u, NEW v, NEW d, NEW e,
           \A i \in 1 .. m : s[i] = u[i], \A j \in 1 .. n : t[j] = v[j],
           IsMatrix(d, s, t, m, n), IsMatrix(e, u, v, m, n)
    PROVE  d[<<m, n>>] = e[<<m, n>>]
<1> DEFINE S == { p \in (0 .. m) \X (0 .. n) : d[p] = e[p] }
<1>1. ASSUME NEW i \in 0 .. m, NEW j \in 0 .. n,
             \A h \in 0 .. i, k \in 0 .. j : h + k < i + j => <<h, k>> \in S
      PROVE  <<i, j>> \in S
  <2>a. \A h \in 0 .. i, k \in 0 .. j : h + k < i + j => d[<<h, k>>] = e[<<h, k>>]
    BY <1>1
  <2> HIDE DEF S
  <2>1. CASE i = 0 \/ j = 0
    <3>1. d[<<i, j>>] = e[<<i, j>>]
      BY <2>1 DEF IsMatrix
    <3> QED BY <3>1 DEF S
  <2>2. CASE i # 0 /\ j # 0
    <3>1. i \in 1 .. m /\ j \in 1 .. n /\ i - 1 \in 0 .. i /\ j - 1 \in 0 .. j /\ i \in 0 .. i /\ j \in 0 .. j
      BY <2>2
    <3>2. d[<<i - 1, j>>] = e[<<i - 1, j>>] /\ d[<<i, j - 1>>] = e[<<i, j - 1>>] /\ d[<<i - 1, j - 1>>] = e[<<i - 1, j - 1>>]
      BY <2>a, <3>1
    <3>3. s[i] = u[i] /\ t[j] = v[j] /\ Cost(s[i], t[j]) = Cost(u[i], v[j])
      BY <3>1 DEF Cost
    <3>4. Swapped(s, t, i, j) <=> Swapped(u, v, i, j)
      <4>1. i >= 2 /\ j >= 2 => i - 1 \in 1 .. m /\ j - 1 \in 1 .. n
        BY <3>1
      <4> QED BY <3>3, <4>1 DEF Swapped
    <3>5. Swapped(s, t, i, j) => d[<<i - 2, j - 2>>] = e[<<i - 2, j - 2>>] /\ d[<<i - 2, j - 2>>] \in Nat
      <4>1. i >= 2 /\ j >= 2 => /\ i - 2 \in 0 .. i /\ j - 2 \in 0 .. j /\ (i - 2) + (j - 2) < i + j
                                /\ i - 2 \in 0 .. m /\ j - 2 \in 0 .. n
        BY <3>1
      <4> QED BY <2>a, <4>1 DEF Swapped, IsMatrix
    <3>6. Entry(d, s, t, i, j) /\ Entry(e, u, v, i, j)
      BY <3>1 DEF IsMatrix
    <3>7. /\ d[<<i, j>>] \in Nat /\ e[<<i, j>>] \in Nat /\ d[<<i - 1, j>>] \in Nat /\ d[<<i, j - 1>>] \in Nat
          /\ d[<<i - 1, j - 1>>] \in Nat
      <4>1. i - 1 \in 0 .. m /\ j - 1 \in 0 .. n
        BY <3>1
      <4> QED BY <4>1 DEF IsMatrix
    <3>8. Cost(s[i], t[j]) \in Nat
      BY DEF Cost
    <3>9. d[<<i, j>>] = e[<<i, j>>]
      <4> DEFINE x == d[<<i, j>>]   y == e[<<i, j>>]  a == d[<<i - 1, j>>]  b == d[<<i, j - 1>>]
                 c == d[<<i - 1, j - 1>>] z == Cost(s[i], t[j]) f == d[<<i - 2, j - 2>>]
                 W == Swapped(s, t, i, j)
      <4>1. /\ x <= a + 1 /\ x <= b + 1 /\ x <= c + z /\ (W => x <= f + 1)
            /\ (x = a + 1 \/ x = b + 1 \/ x = c + z \/ (W /\ x = f + 1))
        BY <3>6 DEF Entry
      <4>2. /\ y <= a + 1 /\ y <= b + 1 /\ y <= c + z /\ (W => y <= f + 1)
            /\ (y = a + 1 \/ y = b + 1 \/ y = c + z \/ (W /\ y = f + 1))
        BY <3>2, <3>3, <3>4, <3>5, <3>6 DEF Entry
      <4>3. x \in Nat /\ y \in Nat /\ a \in Nat /\ b \in Nat /\ c \in Nat /\ z \in Nat /\ (W => f \in Nat)
        BY <3>5, <3>7, <3>8
      <4> HIDE DEF x, y, a, b, c, z, f, W
      <4>4. x = y
        BY ONLY <4>1, <4>2, <4>3
      <4> QED BY <4>4 DEF x, y
    <3> QED BY <3>9 DEF S
  <2> QED BY <2>1, <2>2
<1> HIDE DEF S
<1>2. \A i \in 0 .. m, j \in 0 .. n : <<i, j>> \in S
  BY <1>1, Square
<1>3. <<m, n>> \in S
  BY <1>2
<1> QED BY <1>3 DEF S

\* The other word first.
LEMMA Transposed ==
    ASSUME NEW m \in Nat, NEW n \in Nat, NEW s, NEW t, NEW d, NEW e,
           IsMatrix(d, s, t, m, n),
           \A i \in 0 .. m, j \in 0 .. n : e[<<j, i>>] = d[<<i, j>>]
    PROVE  IsMatrix(e, t, s, n, m)
<1>1. \A j \in 0 .. n, i \in 0 .. m : e[<<j, i>>] \in Nat
  BY DEF IsMatrix
<1>2. (\A j \in 0 .. n : e[<<j, 0>>] = j) /\ (\A i \in 0 .. m : e[<<0, i>>] = i)
  <2>1. 0 \in 0 .. m /\ 0 \in 0 .. n
    OBVIOUS
  <2> QED BY <2>1 DEF IsMatrix
<1>3. ASSUME NEW j \in 1 .. n, NEW i \in 1 .. m PROVE Entry(e, t, s, j, i)
  <2>1. Entry(d, s, t, i, j)
    BY DEF IsMatrix
  <2>2. /\ i \in 0 .. m /\ j \in 0 .. n /\ i - 1 \in 0 .. m /\ j - 1 \in 0 .. n
        /\ (i >= 2 => i - 2 \in 0 .. m) /\ (j >= 2 => j - 2 \in 0 .. n)
    OBVIOUS
  <2>3. e[<<j, i>>] = d[<<i, j>>] /\ e[<<j - 1, i>>] = d[<<i, j - 1>>] /\ e[<<j, i - 1>>] = d[<<i - 1, j>>] /\ e[<<j - 1, i - 1>>] = d[<<i - 1, j - 1>>]
    BY <2>2
  <2>4. Swapped(t, s, j, i) <=> Swapped(s, t, i, j)
    BY DEF Swapped
  <2>5. Swapped(s, t, i, j) => e[<<j - 2, i - 2>>] = d[<<i - 2, j - 2>>]
    BY <2>2 DEF Swapped
  <2>6. Cost(t[j], s[i]) = Cost(s[i], t[j])
    BY DEF Cost
  <2> QED BY <2>1, <2>3, <2>4, <2>5, <2>6 DEF Entry
<1> QED BY <1>1, <1>2, <1>3 DEF IsMatrix

\* Neighbours in the matrix.
NearlySame(d, i, j) ==
    /\ j > 0 => d[<<i, j - 1>>] <= d[<<i, j>>] + 1
    /\ i > 0 => d[<<i - 1, j>>] <= d[<<i, j>>] + 1
    /\ i > 0 /\ j > 0 => d[<<i - 1, j - 1>>] <= d[<<i, j>>] 

\* A number is at most one from those beside it and not below the one before it
\* on the diagonal.
LEMMA Neighbours ==
    ASSUME NEW m \in Nat, NEW n \in Nat, NEW s, NEW t, NEW d, IsMatrix(d, s, t, m, n)
    PROVE  \A i \in 0 .. m, j \in 0 .. n : NearlySame(d, i, j)
<1> DEFINE S == { p \in (0 .. m) \X (0 .. n) : NearlySame(d, p[1], p[2]) }
<1>1. ASSUME NEW i \in 0 .. m, NEW j \in 0 .. n,
             \A h \in 0 .. i, k \in 0 .. j : h + k < i + j => <<h, k>> \in S
      PROVE  <<i, j>> \in S
  <2>a. \A h \in 0 .. i, k \in 0 .. j : h + k < i + j => NearlySame(d, h, k)
    BY <1>1
  <2> HIDE DEF S
  <2>0. SUFFICES NearlySame(d, i, j)
    BY <2>0 DEF S
  <2>1. CASE i = 0 \/ j = 0
    <3>1. (i > 0 => i - 1 \in 0 .. m) /\ (j > 0 => j - 1 \in 0 .. n)
      OBVIOUS
    <3> QED BY <2>1, <3>1 DEF IsMatrix, NearlySame
  <2>2. CASE i # 0 /\ j # 0
    <3>1. /\ i \in 1 .. m /\ j \in 1 .. n /\ i - 1 \in 0 .. i /\ j - 1 \in 0 .. j /\ i \in 0 .. i /\ j \in 0 .. j
          /\ i - 1 \in 0 .. m /\ j - 1 \in 0 .. n
      BY <2>2
    <3>2. NearlySame(d, i - 1, j) /\ NearlySame(d, i, j - 1)
      BY <2>a, <3>1
    <3>3. Entry(d, s, t, i, j)
      BY <3>1 DEF IsMatrix
    <3>4. /\ d[<<i, j>>] \in Nat /\ d[<<i - 1, j>>] \in Nat /\ d[<<i, j - 1>>] \in Nat /\ d[<<i - 1, j - 1>>] \in Nat
      BY <3>1 DEF IsMatrix
    <3>5. Cost(s[i], t[j]) \in {0, 1}
      BY DEF Cost
    <3>6. d[<<i - 1, j - 1>>] <= d[<<i - 1, j>>] + 1 /\ d[<<i - 1, j - 1>>] <= d[<<i, j - 1>>] + 1
      BY <3>1, <3>2 DEF NearlySame
    <3>7. CASE Swapped(s, t, i, j) /\ d[<<i, j>>] = d[<<i - 2, j - 2>>] + 1
      <4>1. i - 2 \in 0 .. m /\ j - 2 \in 0 .. n /\ i - 1 \in 1 .. m /\ j - 1 \in 1 .. n
        BY <3>1, <3>7 DEF Swapped
      <4>2. Entry(d, s, t, i - 1, j - 1) /\ Entry(d, s, t, i, j - 1) /\ Entry(d, s, t, i - 1, j)
        BY <3>1, <4>1 DEF IsMatrix
      <4>3. Cost(s[i], t[j - 1]) = 0 /\ Cost(s[i - 1], t[j]) = 0 /\ Cost(s[i - 1], t[j - 1]) \in {0, 1}
        BY <3>7 DEF Swapped, Cost
      <4>4. (i - 1) - 1 = i - 2 /\ (j - 1) - 1 = j - 2
        BY <3>1
      <4>5. /\ d[<<i, j - 1>>] <= d[<<i - 1, j - 2>>] + 0 /\ d[<<i - 1, j>>] <= d[<<i - 2, j - 1>>] + 0
            /\ d[<<i - 1, j - 1>>] <= d[<<i - 2, j - 2>>] + 1
            /\ d[<<i - 1, j - 2>>] \in Nat /\ d[<<i - 2, j - 1>>] \in Nat /\ d[<<i - 2, j - 2>>] \in Nat
        <5>1. /\ d[<<i, j - 1>>] <= d[<<i - 1, j - 2>>] + 0 /\ d[<<i - 1, j>>] <= d[<<i - 2, j - 1>>] + 0
              /\ d[<<i - 1, j - 1>>] <= d[<<i - 2, j - 2>>] + Cost(s[i - 1], t[j - 1])
          BY <4>2, <4>3, <4>4 DEF Entry
        <5>2. d[<<i - 1, j - 2>>] \in Nat /\ d[<<i - 2, j - 1>>] \in Nat /\ d[<<i - 2, j - 2>>] \in Nat
          BY <3>1, <4>1 DEF IsMatrix
        <5> QED BY <3>4, <4>3, <5>1, <5>2
      <4>6. d[<<i - 1, j - 2>>] <= d[<<i - 2, j - 2>>] + 1 /\ d[<<i - 2, j - 1>>] <= d[<<i - 2, j - 2>>] + 1
        <5>1. CASE i - 2 = 0
          <6>1. d[<<i - 1, j - 2>>] <= d[<<i - 2, j - 2>>] + 1
            <7>1. j - 2 \in 1 .. n => Entry(d, s, t, i - 1, j - 2)
              BY <4>1 DEF IsMatrix
            <7>2. j - 2 \in 1 .. n => d[<<i - 1, j - 2>>] <= d[<<(i - 1) - 1, j - 2>>] + 1
              BY <7>1 DEF Entry
            <7>3. j - 2 = 0 => d[<<i - 1, j - 2>>] = i - 1 /\ d[<<i - 2, j - 2>>] = i - 2
              BY <3>1, <4>1 DEF IsMatrix
            <7> QED BY <4>1, <4>4, <7>2, <7>3
          <6>2. d[<<i - 2, j - 1>>] = j - 1 /\ d[<<i - 2, j - 2>>] = j - 2
            BY <3>1, <4>1, <5>1 DEF IsMatrix
          <6> QED BY <6>1, <6>2, <4>1
        <5>2. CASE j - 2 = 0
          <6>1. d[<<i - 2, j - 1>>] <= d[<<i - 2, j - 2>>] + 1
            <7>1. i - 2 \in 1 .. m => Entry(d, s, t, i - 2, j - 1)
              BY <4>1 DEF IsMatrix
            <7>2. i - 2 \in 1 .. m => d[<<i - 2, j - 1>>] <= d[<<i - 2, (j - 1) - 1>>] + 1
              BY <7>1 DEF Entry
            <7>3. i - 2 = 0 => d[<<i - 2, j - 1>>] = j - 1 /\ d[<<i - 2, j - 2>>] = j - 2
              BY <3>1, <4>1 DEF IsMatrix
            <7> QED BY <4>1, <4>4, <7>2, <7>3
          <6>2. d[<<i - 1, j - 2>>] = i - 1 /\ d[<<i - 2, j - 2>>] = i - 2
            BY <3>1, <4>1, <5>2 DEF IsMatrix
          <6> QED BY <6>1, <6>2, <4>1
        <5>3. CASE i - 2 # 0 /\ j - 2 # 0
          <6>1. i - 2 \in 1 .. m /\ j - 2 \in 1 .. n
            BY <4>1, <5>3
          <6>2. Entry(d, s, t, i - 1, j - 2) /\ Entry(d, s, t, i - 2, j - 1)
            BY <4>1, <6>1 DEF IsMatrix
          <6> QED BY <4>4, <6>2 DEF Entry
        <5> QED BY <5>1, <5>2, <5>3
      <4>7. /\ d[<<i, j - 1>>] <= d[<<i, j>>] + 1 /\ d[<<i - 1, j>>] <= d[<<i, j>>] + 1 /\ d[<<i - 1, j - 1>>] <= d[<<i, j>>]
        <5> DEFINE x == d[<<i, j>>]   a == d[<<i - 1, j>>]  b == d[<<i, j - 1>>]
                   c == d[<<i - 1, j - 1>>] f == d[<<i - 2, j - 2>>] g == d[<<i - 1, j - 2>>] h == d[<<i - 2, j - 1>>]
        <5>1. /\ x = f + 1 /\ b <= g /\ a <= h /\ c <= f + 1 /\ g <= f + 1 /\ h <= f + 1
              /\ x \in Nat /\ a \in Nat /\ b \in Nat /\ c \in Nat /\ f \in Nat /\ g \in Nat /\ h \in Nat
          BY <3>4, <3>7, <4>5, <4>6
        <5> HIDE DEF x, a, b, c, f, g, h
        <5>2. b <= x + 1 /\ a <= x + 1 /\ c <= x
          BY ONLY <5>1
        <5> QED BY <5>2 DEF x, a, b, c
      <4> QED BY <4>7 DEF NearlySame
    <3>8. CASE ~(Swapped(s, t, i, j) /\ d[<<i, j>>] = d[<<i - 2, j - 2>>] + 1)
      <4> DEFINE x == d[<<i, j>>]   a == d[<<i - 1, j>>]  b == d[<<i, j - 1>>]
                 c == d[<<i - 1, j - 1>>] z == Cost(s[i], t[j])
      <4>1. x = a + 1 \/ x = b + 1 \/ x = c + z
        BY <3>3, <3>8 DEF Entry
      <4>2. a <= c + 1 /\ b <= c + 1
        <5>1. CASE i - 1 = 0
          <6>1. a = j /\ c = j - 1
            BY <3>1, <5>1 DEF IsMatrix
          <6>2. b <= c + 1
            <7>1. j - 1 \in 1 .. n => Entry(d, s, t, i, j - 1)
              BY <3>1 DEF IsMatrix
            <7>2. j - 1 = 0 => b = i /\ c = i - 1
              BY <3>1 DEF IsMatrix
            <7>3. j - 1 \in 1 .. n => b <= c + 1
              BY <7>1 DEF Entry
            <7> QED BY <3>1, <7>2, <7>3
          <6> QED BY <6>1, <6>2, <3>1
        <5>2. CASE j - 1 = 0
          <6>1. b = i /\ c = i - 1
            BY <3>1, <5>2 DEF IsMatrix
          <6>2. a <= c + 1
            <7>1. i - 1 \in 1 .. m => Entry(d, s, t, i - 1, j)
              BY <3>1 DEF IsMatrix
            <7>2. i - 1 = 0 => a = j /\ c = j - 1
              BY <3>1 DEF IsMatrix
            <7>3. i - 1 \in 1 .. m => a <= c + 1
              BY <7>1 DEF Entry
            <7> QED BY <3>1, <7>2, <7>3
          <6> QED BY <6>1, <6>2, <3>1
        <5>3. CASE i - 1 # 0 /\ j - 1 # 0
          <6>1. i - 1 \in 1 .. m /\ j - 1 \in 1 .. n
            BY <3>1, <5>3
          <6>2. Entry(d, s, t, i - 1, j) /\ Entry(d, s, t, i, j - 1)
            BY <3>1, <6>1 DEF IsMatrix
          <6> QED BY <6>2 DEF Entry
        <5> QED BY <5>1, <5>2, <5>3
      <4>3. x \in Nat /\ a \in Nat /\ b \in Nat /\ c \in Nat /\ z \in {0, 1} /\ c <= a + 1 /\ c <= b + 1
        BY <3>4, <3>5, <3>6
      <4> HIDE DEF x, a, b, c, z
      <4>4. b <= x + 1 /\ a <= x + 1 /\ c <= x
        BY ONLY <4>1, <4>2, <4>3
      <4> QED BY <4>4 DEF NearlySame, x, a, b, c
    <3> QED BY <3>7, <3>8
  <2> QED BY <2>1, <2>2
<1> HIDE DEF S
<1>2. \A i \in 0 .. m, j \in 0 .. n : <<i, j>> \in S
  BY <1>1, Square
<1> QED BY <1>2 DEF S

\* Along a diagonal the numbers do not fall.
LEMMA Diagonal ==
    ASSUME NEW m \in Nat, NEW n \in Nat, NEW s, NEW t, NEW d, IsMatrix(d, s, t, m, n),
           NEW k \in Nat, k <= m, k <= n
    PROVE  d[<<m - k, n - k>>] <= d[<<m, n>>]
<1> DEFINE S == { x \in Nat : x <= k => d[<<m - x, n - x>>] <= d[<<m, n>>] }
<1>1. 0 \in S
  <2>1. d[<<m, n>>] \in Nat /\ m - 0 = m /\ n - 0 = n
    BY DEF IsMatrix
  <2> QED BY <2>1
<1>2. ASSUME NEW x \in 0 .. k - 1, x \in S PROVE x + 1 \in S
  <2> DEFINE i == m - x
             j == n - x
  <2>1. i \in 1 .. m /\ j \in 1 .. n /\ i - 1 = m - (x + 1) /\ j - 1 = n - (x + 1)
        /\ i \in 0 .. m /\ j \in 0 .. n /\ i - 1 \in 0 .. m /\ j - 1 \in 0 .. n /\ x + 1 \in Nat /\ x <= k
        /\ i > 0 /\ j > 0
    OBVIOUS
  <2>2. d[<<i, j>>] <= d[<<m, n>>]
    BY <1>2, <2>1
  <2> HIDE DEF i, j
  <2>3. NearlySame(d, i, j)
    BY <2>1, Neighbours
  <2>4. d[<<i - 1, j - 1>>] <= d[<<i, j>>]
    BY <2>1, <2>3 DEF NearlySame
  <2>5. d[<<i - 1, j - 1>>] \in Nat /\ d[<<i, j>>] \in Nat /\ d[<<m, n>>] \in Nat
    BY <2>1 DEF IsMatrix
  <2>6. d[<<i - 1, j - 1>>] <= d[<<m, n>>]
    BY <2>2, <2>4, <2>5
  <2> QED BY <2>1, <2>6
<1> HIDE DEF S
<1>3. k \in S
  BY <1>1, <1>2, UpTo
<1> QED BY <1>3 DEF S

\* Letters that both words end in cost nothing.
EndAlike(s, t, m, n, k) == \A h \in 0 .. k - 1 : s[m - h] = t[n - h]

\* Letters that both words end in cost nothing, in the matrix.
LEMMA SameEnd ==
    ASSUME NEW m \in Nat, NEW n \in Nat, NEW s, NEW t, NEW d, IsMatrix(d, s, t, m, n),
           NEW k \in Nat, k <= m, k <= n, EndAlike(s, t, m, n, k)
    PROVE  d[<<m - k, n - k>>] = d[<<m, n>>]
<1> DEFINE S == { x \in Nat : x <= k => d[<<m - x, n - x>>] = d[<<m, n>>] }
<1>1. 0 \in S
  <2>1. m - 0 = m /\ n - 0 = n
    OBVIOUS
  <2> QED BY <2>1
<1>2. ASSUME NEW x \in 0 .. k - 1, x \in S PROVE x + 1 \in S
  <2> DEFINE i == m - x
             j == n - x
  <2>1. i \in 1 .. m /\ j \in 1 .. n /\ i - 1 = m - (x + 1) /\ j - 1 = n - (x + 1)
        /\ i \in 0 .. m /\ j \in 0 .. n /\ i - 1 \in 0 .. m /\ j - 1 \in 0 .. n /\ x + 1 \in Nat /\ x <= k
        /\ i > 0 /\ j > 0
    OBVIOUS
  <2>2. d[<<i, j>>] = d[<<m, n>>] /\ s[i] = t[j]
    BY <1>2, <2>1 DEF EndAlike
  <2> HIDE DEF i, j
  <2>3. NearlySame(d, i, j) /\ Entry(d, s, t, i, j)
    BY <2>1, Neighbours DEF IsMatrix
  <2>4. d[<<i - 1, j - 1>>] <= d[<<i, j>>] /\ d[<<i, j>>] <= d[<<i - 1, j - 1>>] + 0
    BY <2>1, <2>2, <2>3 DEF NearlySame, Entry, Cost
  <2>5. d[<<i - 1, j - 1>>] \in Nat /\ d[<<i, j>>] \in Nat
    BY <2>1 DEF IsMatrix
  <2>6. d[<<i - 1, j - 1>>] = d[<<m, n>>]
    BY <2>2, <2>4, <2>5
  <2> QED BY <2>1, <2>6
<1> HIDE DEF S
<1>3. k \in S
  BY <1>1, <1>2, UpTo
<1> QED BY <1>3 DEF S

\* Behind a first letter that both begin with, s and t are u and v.
BehindFirst(s, u, m) == \A i \in 1 .. m : u[i + 1] = s[i]

\* A first letter that both begin with costs nothing.
LEMMA SameLetter ==
    ASSUME NEW m \in Nat, NEW n \in Nat, NEW s, NEW t, NEW u, NEW v, NEW d, NEW e,
           IsMatrix(d, s, t, m, n), IsMatrix(e, u, v, m + 1, n + 1),
           u[1] = v[1], BehindFirst(s, u, m), BehindFirst(t, v, n)
    PROVE  e[<<m + 1, n + 1>>] = d[<<m, n>>]
<1> DEFINE S == { p \in (0 .. m) \X (0 .. n) : e[<<p[1] + 1, p[2] + 1>>] = d[<<p[1], p[2]>>] }
<1>1. ASSUME NEW i \in 0 .. m, NEW j \in 0 .. n,
             \A h \in 0 .. i, k \in 0 .. j : h + k < i + j => <<h, k>> \in S
      PROVE  <<i, j>> \in S
  <2>a. \A h \in 0 .. i, k \in 0 .. j : h + k < i + j => e[<<h + 1, k + 1>>] = d[<<h, k>>]
    BY <1>1
  <2> HIDE DEF S
  <2>0. SUFFICES e[<<i + 1, j + 1>>] = d[<<i, j>>]
    BY <2>0 DEF S
  <2>1. /\ i + 1 \in 1 .. m + 1 /\ j + 1 \in 1 .. n + 1 /\ (i + 1) - 1 = i /\ (j + 1) - 1 = j
        /\ (i + 1) - 2 = i - 1 /\ (j + 1) - 2 = j - 1
        /\ i + 1 \in 0 .. m + 1 /\ j + 1 \in 0 .. n + 1 /\ i \in 0 .. m + 1 /\ j \in 0 .. n + 1
        /\ 1 \in 1 .. m + 1 /\ 1 \in 1 .. n + 1 /\ 1 \in 0 .. m + 1 /\ 1 \in 0 .. n + 1
        /\ 0 \in 0 .. m + 1 /\ 0 \in 0 .. n + 1 /\ 0 \in 0 .. m /\ 0 \in 0 .. n
    OBVIOUS
  <2>2. Entry(e, u, v, i + 1, j + 1)
    BY <2>1 DEF IsMatrix
  <2>3. /\ e[<<i + 1, j + 1>>] \in Nat /\ e[<<i, j + 1>>] \in Nat /\ e[<<i + 1, j>>] \in Nat
        /\ e[<<i, j>>] \in Nat /\ d[<<i, j>>] \in Nat
    BY <2>1 DEF IsMatrix
  <2>4. Cost(u[i + 1], v[j + 1]) \in {0, 1}
    BY DEF Cost
  <2>5. CASE i = 0
    <3>1. e[<<0, j + 1>>] = j + 1 /\ e[<<0, j>>] = j /\ d[<<0, j>>] = j
      BY <2>1 DEF IsMatrix
    <3>2. j = 0 => e[<<1, j>>] = 1 /\ Cost(u[i + 1], v[j + 1]) = 0
      BY <2>1, <2>5 DEF IsMatrix, Cost
    <3>3. j # 0 => e[<<1, j>>] = j - 1
      <4>1. j # 0 => j - 1 \in 0 .. j /\ j - 1 \in 0 .. n /\ (j - 1) + 1 = j /\ 0 + (j - 1) < i + j /\ 0 + 1 = 1 /\ 0 \in 0 .. i
        BY <2>5
      <4>2. j # 0 => e[<<0 + 1, (j - 1) + 1>>] = d[<<0, j - 1>>]
        BY <2>a, <4>1
      <4>3. j # 0 => d[<<0, j - 1>>] = j - 1
        BY <4>1 DEF IsMatrix
      <4> QED BY <4>1, <4>2, <4>3
    <3>4. ~Swapped(u, v, i + 1, j + 1)
      BY <2>5 DEF Swapped
    <3>5. /\ e[<<1, j + 1>>] <= e[<<1, j>>] + 1
          /\ e[<<1, j + 1>>] <= e[<<0, j>>] + Cost(u[i + 1], v[j + 1])
          /\ \/ e[<<1, j + 1>>] = e[<<0, j + 1>>] + 1
             \/ e[<<1, j + 1>>] = e[<<1, j>>] + 1
             \/ e[<<1, j + 1>>] = e[<<0, j>>] + Cost(u[i + 1], v[j + 1])
      BY <2>1, <2>2, <2>5, <3>4 DEF Entry
    <3>6. e[<<1, j + 1>>] = j
      BY <2>3, <2>4, <2>5, <3>1, <3>2, <3>3, <3>5
    <3> QED BY <2>5, <3>1, <3>6
  <2>6. CASE i # 0 /\ j = 0
    <3>1. e[<<i + 1, 0>>] = i + 1 /\ e[<<i, 0>>] = i /\ d[<<i, 0>>] = i
      BY <2>1 DEF IsMatrix
    <3>3. e[<<i, 1>>] = i - 1
      <4>1. i - 1 \in 0 .. i /\ i - 1 \in 0 .. m /\ (i - 1) + 1 = i /\ (i - 1) + 0 < i + j /\ 0 + 1 = 1 /\ 0 \in 0 .. j
        BY <2>6
      <4>2. e[<<(i - 1) + 1, 0 + 1>>] = d[<<i - 1, 0>>]
        BY <2>a, <4>1
      <4>3. d[<<i - 1, 0>>] = i - 1
        BY <4>1 DEF IsMatrix
      <4> QED BY <4>1, <4>2, <4>3
    <3>4. ~Swapped(u, v, i + 1, j + 1)
      BY <2>6 DEF Swapped
    <3>5. /\ e[<<i + 1, 1>>] <= e[<<i, 1>>] + 1
          /\ \/ e[<<i + 1, 1>>] = e[<<i, 1>>] + 1
             \/ e[<<i + 1, 1>>] = e[<<i + 1, 0>>] + 1
             \/ e[<<i + 1, 1>>] = e[<<i, 0>>] + Cost(u[i + 1], v[j + 1])
      BY <2>1, <2>2, <2>6, <3>4 DEF Entry
    <3>6. e[<<i + 1, 1>>] = i
      BY <2>3, <2>4, <2>6, <3>1, <3>3, <3>5
    <3> QED BY <2>6, <3>1, <3>6
  <2>7. CASE i # 0 /\ j # 0
    <3>1. /\ i \in 1 .. m /\ j \in 1 .. n /\ i - 1 \in 0 .. i /\ j - 1 \in 0 .. j /\ i \in 0 .. i /\ j \in 0 .. j
          /\ (i - 1) + 1 = i /\ (j - 1) + 1 = j
      BY <2>7
    <3>2. e[<<i, j + 1>>] = d[<<i - 1, j>>] /\ e[<<i + 1, j>>] = d[<<i, j - 1>>] /\ e[<<i, j>>] = d[<<i - 1, j - 1>>]
      <4>1. (i - 1) + j < i + j /\ i + (j - 1) < i + j /\ (i - 1) + (j - 1) < i + j
        OBVIOUS
      <4>2. /\ e[<<(i - 1) + 1, j + 1>>] = d[<<i - 1, j>>]
            /\ e[<<i + 1, (j - 1) + 1>>] = d[<<i, j - 1>>]
            /\ e[<<(i - 1) + 1, (j - 1) + 1>>] = d[<<i - 1, j - 1>>]
        BY <2>a, <3>1, <4>1
      <4> QED BY <3>1, <4>2
    <3>3. Entry(d, s, t, i, j)
      BY <3>1 DEF IsMatrix
    <3>4. Cost(u[i + 1], v[j + 1]) = Cost(s[i], t[j])
      BY <3>1 DEF Cost, BehindFirst
    <3>5. CASE i >= 2 /\ j >= 2
      <4>1. /\ i - 1 \in 1 .. m /\ j - 1 \in 1 .. n /\ i - 2 \in 0 .. i /\ j - 2 \in 0 .. j
            /\ (i - 2) + (j - 2) < i + j /\ (i - 2) + 1 = i - 1 /\ (j - 2) + 1 = j - 1
            /\ i - 2 \in 0 .. m /\ j - 2 \in 0 .. n
        BY <3>5
      <4>2. Swapped(u, v, i + 1, j + 1) <=> Swapped(s, t, i, j)
        <5>1. u[i] = s[i - 1] /\ v[j] = t[j - 1] /\ u[i + 1] = s[i] /\ v[j + 1] = t[j]
          BY <3>1, <4>1 DEF BehindFirst
        <5> QED BY <2>1, <3>5, <5>1 DEF Swapped
      <4>3. e[<<i - 1, j - 1>>] = d[<<i - 2, j - 2>>] /\ d[<<i - 2, j - 2>>] \in Nat
        <5>1. e[<<(i - 2) + 1, (j - 2) + 1>>] = d[<<i - 2, j - 2>>]
          BY <2>a, <4>1
        <5> QED BY <4>1, <5>1 DEF IsMatrix
      <4> DEFINE x == e[<<i + 1, j + 1>>]
                 y == d[<<i, j>>]
                 a == d[<<i - 1, j>>]
                 b == d[<<i, j - 1>>]
                 c == d[<<i - 1, j - 1>>]
                 z == Cost(s[i], t[j])
                 f == d[<<i - 2, j - 2>>]
                 W == Swapped(s, t, i, j)
      <4>4. /\ x <= a + 1 /\ x <= b + 1 /\ x <= c + z /\ (W => x <= f + 1)
            /\ (x = a + 1 \/ x = b + 1 \/ x = c + z \/ (W /\ x = f + 1))
        BY <2>1, <2>2, <3>2, <3>4, <4>2, <4>3 DEF Entry
      <4>5. /\ y <= a + 1 /\ y <= b + 1 /\ y <= c + z /\ (W => y <= f + 1)
            /\ (y = a + 1 \/ y = b + 1 \/ y = c + z \/ (W /\ y = f + 1))
        BY <3>3 DEF Entry
      <4>6. x \in Nat /\ y \in Nat /\ a \in Nat /\ b \in Nat /\ c \in Nat /\ z \in {0, 1} /\ f \in Nat
        BY <2>3, <2>4, <3>2, <3>4, <4>3
      <4> HIDE DEF x, y, a, b, c, z, f, W
      <4>7. x = y
        BY ONLY <4>4, <4>5, <4>6
      <4> QED BY <4>7 DEF x, y
    <3>6. CASE ~(i >= 2 /\ j >= 2)
      <4> DEFINE x == e[<<i + 1, j + 1>>]
                 y == d[<<i, j>>]
                 a == d[<<i - 1, j>>]
                 b == d[<<i, j - 1>>]
                 c == d[<<i - 1, j - 1>>]
                 z == Cost(s[i], t[j])
                 f == e[<<i - 1, j - 1>>]
                 W == Swapped(u, v, i + 1, j + 1)
      <4>0. x \in Nat /\ y \in Nat /\ a \in Nat /\ b \in Nat /\ c \in Nat /\ z \in {0, 1}
        BY <2>3, <2>4, <3>2, <3>4
      <4>1. ~Swapped(s, t, i, j)
        BY <3>6 DEF Swapped
      <4>2. /\ x <= a + 1 /\ x <= b + 1 /\ x <= c + z
            /\ (x = a + 1 \/ x = b + 1 \/ x = c + z \/ (W /\ x = f + 1))
        BY <2>1, <2>2, <3>2, <3>4 DEF Entry
      <4>3. /\ y <= a + 1 /\ y <= b + 1 /\ y <= c + z
            /\ (y = a + 1 \/ y = b + 1 \/ y = c + z)
        BY <3>3, <4>1 DEF Entry
      <4>4. W => f \in Nat /\ (a < f \/ b < f \/ c + z < f + 1)
        <5> SUFFICES ASSUME W PROVE f \in Nat /\ (a < f \/ b < f \/ c + z < f + 1)
          OBVIOUS
        <5>1. u[i] = v[j + 1] /\ u[i + 1] = v[j]
          BY <2>1 DEF Swapped
        <5>2. CASE i = 1 /\ j = 1
          <6>1. s[1] = t[1] /\ z = 0
            BY <3>1, <5>1, <5>2 DEF BehindFirst, Cost
          <6>2. c = 0 /\ f = 0
            BY <2>1, <5>2 DEF IsMatrix
          <6> QED BY <6>1, <6>2
        <5>3. CASE i = 1 /\ j # 1
          <6>1. j - 1 \in 1 .. n /\ (j - 1) - 1 = j - 2 /\ j - 1 \in 0 .. n + 1 /\ j - 2 \in 0 .. n /\ (j - 1) + 1 = j
            BY <3>1, <5>3
          <6>2. s[1] = t[j - 1]
            BY <3>1, <5>1, <5>3, <6>1 DEF BehindFirst
          <6>3. Entry(d, s, t, 1, j - 1)
            BY <3>1, <5>3, <6>1 DEF IsMatrix
          <6>4. b <= d[<<0, j - 2>>] + 0
            BY <5>3, <6>1, <6>2, <6>3 DEF Entry, Cost
          <6>5. d[<<0, j - 2>>] = j - 2 /\ f = j - 1
            BY <2>1, <5>3, <6>1 DEF IsMatrix
          <6> QED BY <4>0, <6>1, <6>4, <6>5
        <5>4. CASE i # 1
          <6>0. j = 1
            BY <3>1, <3>6, <5>4
          <6>1. i - 1 \in 1 .. m /\ (i - 1) - 1 = i - 2 /\ i - 1 \in 0 .. m + 1 /\ i - 2 \in 0 .. m /\ (i - 1) + 1 = i
            BY <3>1, <5>4
          <6>2. s[i - 1] = t[1]
            BY <3>1, <5>1, <6>0, <6>1 DEF BehindFirst
          <6>3. Entry(d, s, t, i - 1, 1)
            BY <3>1, <6>0, <6>1 DEF IsMatrix
          <6>4. a <= d[<<i - 2, 0>>] + 0
            BY <6>0, <6>1, <6>2, <6>3 DEF Entry, Cost
          <6>5. d[<<i - 2, 0>>] = i - 2 /\ f = i - 1
            BY <2>1, <6>0, <6>1 DEF IsMatrix
          <6> QED BY <4>0, <6>1, <6>4, <6>5
        <5> QED BY <5>2, <5>3, <5>4
      <4> HIDE DEF x, y, a, b, c, z, f, W
      <4>7. x = y
        BY ONLY <4>0, <4>2, <4>3, <4>4
      <4> QED BY <4>7 DEF x, y
    <3> QED BY <3>5, <3>6
  <2> QED BY <2>5, <2>6, <2>7
<1> HIDE DEF S
<1>2. \A i \in 0 .. m, j \in 0 .. n : <<i, j>> \in S
  BY <1>1, Square
<1>3. <<m, n>> \in S
  BY <1>2
<1> QED BY <1>3 DEF S

-----------------------------------------------------------------------------
(* The matrix, written place after place.                                   *)

\* U[k] is what the first k places hold when g gives the number of a place
\* from those before it.
Written(U, g, size) ==
    /\ U \in [0 .. size -> Seq(Nat)]
    /\ U[0] = <<>>
    /\ \A k \in 1 .. size : U[k] = Append(U[k - 1], g[<<U[k - 1], k>>])
\* The numbers g gives are natural numbers.
Gives(g, size) ==
    \A k \in 1 .. size, w \in Seq(Nat) : Len(w) = k - 1 => g[<<w, k>>] \in Nat

\* After k places k places are written.
LEMMA WrittenLen ==
    ASSUME NEW size \in Nat, NEW g, NEW U, Written(U, g, size), NEW k \in 0 .. size
    PROVE  Len(U[k]) = k
<1> DEFINE S == { x \in Nat : x <= size => Len(U[x]) = x }
<1>1. 0 \in S
  BY DEF Written
<1>2. ASSUME NEW x \in 0 .. size - 1, x \in S PROVE x + 1 \in S
  <2>1. x + 1 \in 1 .. size /\ (x + 1) - 1 = x /\ x \in 0 .. size /\ x + 1 \in 0 .. size /\ x + 1 \in Nat
    OBVIOUS
  <2>2. U[x + 1] = Append(U[x], g[<<U[x], x + 1>>]) /\ U[x] \in Seq(Nat) /\ U[x + 1] \in Seq(Nat)
    BY <2>1 DEF Written
  <2>3. Len(U[x]) = x
    BY <1>2, <2>1
  <2>4. Len(U[x + 1]) = x + 1
    BY <2>2, <2>3
  <2> QED BY <2>1, <2>4
<1> HIDE DEF S
<1>3. size \in S /\ k \in Nat
  BY <1>1, <1>2, UpTo
<1>4. \A x \in 0 .. k - 1 : x \in S => x + 1 \in S
  BY <1>2
<1>5. k \in S
  BY <1>1, <1>3, <1>4, UpTo
<1> QED BY <1>3, <1>5 DEF S

\* What g gives can be written, place after place.
LEMMA WrittenExists ==
    ASSUME NEW size \in Nat, NEW g, Gives(g, size)
    PROVE  \E U : Written(U, g, size)
<1> DEFINE S == { k \in Nat : k <= size => \E U : Written(U, g, k) }
<1>1. 0 \in S
  <2> DEFINE e == [k \in 0 .. 0 |-> <<>>]
  <2>1. e \in [0 .. 0 -> Seq(Nat)] /\ e[0] = <<>>
    OBVIOUS
  <2>2. Written(e, g, 0)
    BY <2>1 DEF Written
  <2> QED BY <2>2
<1>2. ASSUME NEW k \in 0 .. size - 1, k \in S PROVE k + 1 \in S
  <2>0. k \in Nat /\ k + 1 \in Nat /\ k <= size /\ k \in 0 .. k /\ k + 1 \in 1 .. size /\ (k + 1) - 1 = k
    OBVIOUS
  <2>1. PICK U : Written(U, g, k)
    BY <1>2, <2>0
  <2>a. Len(U[k]) = k
    BY ONLY <2>0, <2>1, WrittenLen
  <2>2. U[k] \in Seq(Nat) /\ Len(U[k]) = k
    BY <2>0, <2>1, <2>a DEF Written
  <2>3. g[<<U[k], k + 1>>] \in Nat
    BY <2>0, <2>2 DEF Gives
  <2> DEFINE h == [x \in 0 .. k + 1 |-> IF x = k + 1 THEN Append(U[k], g[<<U[k], k + 1>>]) ELSE U[x]]
  <2>4. h \in [0 .. k + 1 -> Seq(Nat)]
    BY <2>1, <2>2, <2>3 DEF Written
  <2>5. h[k + 1] = Append(U[k], g[<<U[k], k + 1>>]) /\ \A x \in 0 .. k : h[x] = U[x]
    <3>1. k + 1 \in 0 .. k + 1 /\ \A x \in 0 .. k : x \in 0 .. k + 1 /\ x # k + 1
      OBVIOUS
    <3> HIDE DEF S
    <3> QED BY <3>1
  <2>6. h[0] = <<>> /\ \A x \in 1 .. k + 1 : h[x] = Append(h[x - 1], g[<<h[x - 1], x>>])
    <3> HIDE DEF h
    <3>1. \A x \in 1 .. k + 1 : x - 1 \in 0 .. k /\ (x = k + 1 => x - 1 = k)
                              /\ (x # k + 1 => x \in 1 .. k /\ x \in 0 .. k)
      OBVIOUS
    <3>2. 0 \in 0 .. k
      OBVIOUS
    <3> QED BY <2>1, <2>5, <3>1, <3>2 DEF Written
  <2> HIDE DEF h
  <2>7. Written(h, g, k + 1)
    BY <2>4, <2>6 DEF Written
  <2> QED BY <2>0, <2>7
<1> HIDE DEF S
<1>3. size \in S
  BY <1>1, <1>2, UpTo
<1> QED BY <1>3 DEF S

\* A place keeps its number.
LEMMA WrittenStays ==
    ASSUME NEW size \in Nat, NEW g, NEW U, Written(U, g, size),
           NEW k \in 0 .. size, NEW p \in 1 .. k
    PROVE  U[size][p] = U[k][p]
<1> DEFINE S == { x \in Nat : k + x <= size => U[k + x][p] = U[k][p] }
<1>1. 0 \in S
  OBVIOUS
<1>2. ASSUME NEW x \in 0 .. (size - k) - 1, x \in S PROVE x + 1 \in S
  <2> DEFINE y == k + x
  <2>1. y + 1 \in 1 .. size /\ (y + 1) - 1 = y /\ y \in 0 .. size /\ x + 1 \in Nat /\ k + (x + 1) = y + 1
        /\ p \in 1 .. y /\ k + x <= size
    OBVIOUS
  <2>2. U[y][p] = U[k][p]
    BY <1>2, <2>1
  <2> HIDE DEF y
  <2>3. U[y + 1] = Append(U[y], g[<<U[y], y + 1>>]) /\ U[y] \in Seq(Nat)
    BY <2>1 DEF Written
  <2>4. Len(U[y]) = y
    BY <2>1, WrittenLen
  <2>5. U[y + 1][p] = U[y][p]
    BY <2>1, <2>3, <2>4
  <2>6. U[k + (x + 1)][p] = U[k][p]
    BY <2>1, <2>2, <2>5
  <2> HIDE DEF S
  <2> QED BY <2>1, <2>6 DEF S
<1> HIDE DEF S
<1>3. size - k \in Nat /\ k + (size - k) = size
  OBVIOUS
<1>4. size - k \in S
  BY <1>1, <1>2, <1>3, UpTo
<1> QED BY <1>3, <1>4 DEF S

\* The number a place gets, where the places before hold what they keep.
HoldsAt(W, g, k) ==
    \E w \in Seq(Nat) : /\ Len(w) = k - 1 /\ \A p \in 1 .. k - 1 : w[p] = W[p]
                        /\ W[k] = g[<<w, k>>]

\* The number a place gets, where the places before hold what they keep.
LEMMA WrittenIs ==
    ASSUME NEW size \in Nat, NEW g, NEW U, Written(U, g, size), NEW k \in 1 .. size
    PROVE  HoldsAt(U[size], g, k)
<1>1. k \in 0 .. size /\ k - 1 \in 0 .. size /\ k \in 1 .. k
  OBVIOUS
<1>a. Len(U[k - 1]) = k - 1
  BY <1>1, WrittenLen
<1>2. U[k - 1] \in Seq(Nat) /\ Len(U[k - 1]) = k - 1 /\ U[k] = Append(U[k - 1], g[<<U[k - 1], k>>])
  BY <1>1, <1>a DEF Written
<1>3. U[k][k] = g[<<U[k - 1], k>>]
  BY <1>2
<1>4. U[size][k] = U[k][k]
  BY <1>1, WrittenStays
<1>5. \A p \in 1 .. k - 1 : U[size][p] = U[k - 1][p]
  BY <1>1, WrittenStays
<1> QED BY <1>2, <1>3, <1>4, <1>5 DEF HoldsAt

-----------------------------------------------------------------------------
(* Row by row.                                                              *)

\* Place k of rows of n.
LEMMA RowOf ==
    ASSUME NEW n \in Nat \ {0}, NEW i \in 0 .. n - 1, NEW j \in Nat
    PROVE  (j * n + i) % n = i /\ (j * n + i) \div n = j
<1> DEFINE a == j * n + i
           q == a \div n
           r == a % n
<1>1. a \in Nat /\ j * n \in Nat
  OBVIOUS
<1>2. q \in Int /\ r \in 0 .. n - 1 /\ a = n * q + r
  BY <1>1
<1>3. j * n = n * j
  OBVIOUS
<1>4. n * q + r = n * j + i
  BY <1>2, <1>3
<1> HIDE DEF a, q, r
<1>5. n * (q - j) = i - r
  BY <1>2, <1>4
<1>6. ASSUME q - j >= 1 PROVE FALSE
  <2>1. n * (q - j) >= n
    BY <1>2, <1>6
  <2> QED BY <1>2, <1>5, <2>1
<1>7. ASSUME q - j <= -1 PROVE FALSE
  <2>1. n * (q - j) <= -n
    BY <1>2, <1>7
  <2> QED BY <1>2, <1>5, <2>1
<1>8. q = j
  BY <1>2, <1>6, <1>7
<1>9. r = i
  BY <1>2, <1>5, <1>8
<1> QED BY <1>8, <1>9 DEF q, r, a

\* Where a place is written, and that the places <<i - 1, j>> and so on are
\* written before it.
IsPlaceOf(p, m, n, i, j) ==
    /\ p \in 1 .. (m + 1) * (n + 1)
    /\ (p - 1) % (m + 1) = i
    /\ (p - 1) \div (m + 1) = j

\* Where the number of i, j is written.
LEMMA PlaceFacts ==
    ASSUME NEW m \in Nat, NEW n \in Nat, NEW i \in 0 .. m, NEW j \in 0 .. n
    PROVE  IsPlaceOf(j * (m + 1) + i + 1, m, n, i, j)
<1> DEFINE c == j * (m + 1)
           p == c + i + 1
<1>1. c \in Nat /\ c <= n * (m + 1)
  <2>1. (n - j) * (m + 1) \in Nat
    OBVIOUS
  <2>2. (n - j) * (m + 1) = n * (m + 1) - j * (m + 1)
    OBVIOUS
  <2>3. j * (m + 1) \in Nat /\ n * (m + 1) \in Nat
    OBVIOUS
  <2> QED BY <2>1, <2>2, <2>3
<1>2. (m + 1) * (n + 1) = n * (m + 1) + (m + 1) /\ n * (m + 1) \in Nat
  OBVIOUS
<1>3. p \in 1 .. (m + 1) * (n + 1) /\ p - 1 = c + i
  <2> DEFINE q == n * (m + 1)
  <2> HIDE DEF c, q
  <2>1. c + i + 1 \in 1 .. q + (m + 1) /\ (c + i + 1) - 1 = c + i
    BY <1>1, <1>2 DEF q
  <2> QED BY <1>2, <2>1 DEF q
<1>4. (c + i) % (m + 1) = i /\ (c + i) \div (m + 1) = j
  BY RowOf, m + 1 \in Nat \ {0}, i \in 0 .. (m + 1) - 1
<1> QED BY <1>3, <1>4 DEF IsPlaceOf

\* A pair of an earlier row, or earlier in the same, is written before.
LEMMA BeforeFacts ==
    ASSUME NEW m \in Nat, NEW h \in 0 .. m, NEW k \in Nat, NEW i \in 0 .. m, NEW j \in Nat,
           k < j \/ (k = j /\ h < i)
    PROVE  k * (m + 1) + h + 1 \in 1 .. (j * (m + 1) + i + 1) - 1
<1>1. k * (m + 1) \in Nat /\ j * (m + 1) \in Nat
  OBVIOUS
<1>2. CASE k < j
  <2>1. (j - k) * (m + 1) >= m + 1
    BY <1>2
  <2>2. (j - k) * (m + 1) = j * (m + 1) - k * (m + 1)
    OBVIOUS
  <2> DEFINE a == k * (m + 1)
             b == j * (m + 1)
  <2>3. a \in Nat /\ b \in Nat /\ b - a >= m + 1
    BY <1>1, <2>1, <2>2
  <2> HIDE DEF a, b
  <2>4. a + h + 1 \in 1 .. (b + i + 1) - 1
    BY ONLY m \in Nat, h \in 0 .. m, i \in 0 .. m, <2>3
  <2> QED BY <2>4 DEF a, b
<1>3. CASE k = j /\ h < i
  <2> DEFINE b == j * (m + 1)
  <2>1. b \in Nat
    BY <1>1
  <2> HIDE DEF b
  <2>2. b + h + 1 \in 1 .. (b + i + 1) - 1
    BY ONLY m \in Nat, h \in 0 .. m, i \in 0 .. m, <2>1, <1>3
  <2> QED BY <1>3, <2>2 DEF b
<1> QED BY <1>2, <1>3

\* And every place is one of them.
LEMMA PlaceOf ==
    ASSUME NEW m \in Nat, NEW n \in Nat, NEW p \in 1 .. (m + 1) * (n + 1)
    PROVE  /\ (p - 1) % (m + 1) \in 0 .. m
           /\ (p - 1) \div (m + 1) \in 0 .. n
           /\ p = ((p - 1) \div (m + 1)) * (m + 1) + ((p - 1) % (m + 1)) + 1
<1> DEFINE c == m + 1
           a == p - 1
           q == a \div c
           r == a % c
<1>1. c \in Nat \ {0} /\ (m + 1) * (n + 1) \in Nat
  OBVIOUS
<1>2. a \in Nat /\ a < (m + 1) * (n + 1)
  BY <1>1
<1> HIDE DEF a, c
<1>3. q \in Int /\ r \in 0 .. c - 1 /\ a = c * q + r
  BY <1>1, <1>2
<1> HIDE DEF q, r
<1>4. ASSUME q <= -1 PROVE FALSE
  <2>1. c * q <= -c
    BY <1>1, <1>3, <1>4
  <2>2. c * q \in Int
    BY <1>1, <1>3
  <2> QED BY <1>1, <1>2, <1>3, <2>1, <2>2
<1>5. ASSUME q >= n + 1 PROVE FALSE
  <2>1. c * q >= c * (n + 1)
    BY <1>1, <1>3, <1>5
  <2>2. c * q \in Int /\ c * (n + 1) \in Int
    BY <1>1, <1>3
  <2>3. a < c * (n + 1)
    BY <1>2 DEF c
  <2> QED BY <1>1, <1>2, <1>3, <2>1, <2>2, <2>3
<1>6. q \in 0 .. n /\ r \in 0 .. m
  <2>1. r \in 0 .. m
    BY <1>3 DEF c
  <2>2. q \in 0 .. n
    BY <1>3, <1>4, <1>5
  <2> QED BY <2>1, <2>2
<1>7. p = q * c + r + 1
  <2>1. c * q = q * c /\ c * q \in Int
    BY <1>1, <1>3
  <2>2. p = a + 1
    BY DEF a
  <2> QED BY <1>3, <2>1, <2>2
<1> QED BY <1>6, <1>7 DEF q, r, a, c

\* Whatever follows the places written so far as U does is U.
LEMMA FollowsWritten ==
    ASSUME NEW size \in Nat, NEW U, NEW c, c[0] = U[0],
           \A k \in 1 .. size : c[k - 1] = U[k - 1] => c[k] = U[k]
    PROVE  c[size] = U[size]
<1> DEFINE S == { x \in Nat : x <= size => c[x] = U[x] }
<1>1. 0 \in S
  OBVIOUS
<1>2. ASSUME NEW x \in 0 .. size - 1, x \in S PROVE x + 1 \in S
  <2>1. x + 1 \in 1 .. size /\ (x + 1) - 1 = x /\ x <= size /\ x + 1 \in Nat
    OBVIOUS
  <2>2. c[x] = U[x]
    BY <1>2, <2>1
  <2>3. c[x + 1] = U[x + 1]
    BY <2>1, <2>2
  <2> QED BY <2>1, <2>3
<1> HIDE DEF S
<1>3. size \in S
  BY <1>1, <1>2, UpTo
<1> QED BY <1>3 DEF S

\* The number d[i, j] from those before it.
CodeCell(s, t, written, i, j) ==
    LET d(h, k) == written[k * (Len(s) + 1) + h + 1]
        step == Smaller(Smaller(d(i, j - 1), d(i - 1, j)) + 1,
                        d(i - 1, j - 1) + Cost(s[i], t[j]))
    IN IF i = 0 THEN j
       ELSE IF j = 0 THEN i
       ELSE IF Swapped(s, t, i, j) /\ step - d(i - 2, j - 2) = 2
       THEN step - 1
       ELSE step

\* The number of place k is the one the program writes there.
GivesCode(g, s, t) ==
    \A k \in 1 .. (Len(s) + 1) * (Len(t) + 1), w \in Seq(Nat) :
        g[<<w, k>>] = CodeCell(s, t, w, (k - 1) % (Len(s) + 1), (k - 1) \div (Len(s) + 1))
\* The places of w are the matrix d, row by row.
RowsOf(d, w, s, t) ==
    \A i \in 0 .. Len(s), j \in 0 .. Len(t) : d[<<i, j>>] = w[j * (Len(s) + 1) + i + 1]

\* The matrix of the program is what is written so.
LEMMA MatrixWritten ==
    ASSUME NEW s \in Seq(Int), NEW t \in Seq(Int), NEW g, NEW U,
           Written(U, g, (Len(s) + 1) * (Len(t) + 1)), GivesCode(g, s, t)
    PROVE  RowsOf(Matrix(s, t), U[(Len(s) + 1) * (Len(t) + 1)], s, t)
<1> DEFINE m == Len(s)
           size == (m + 1) * (Len(t) + 1)
           Is(h) == h = [k \in 0 .. size |->
                          IF k = 0 THEN <<>>
                          ELSE Append(h[k - 1], CodeCell(s, t, h[k - 1], (k - 1) % (m + 1), (k - 1) \div (m + 1)))]
           c == CHOOSE h : Is(h)
<1>1. Matrix(s, t) = [p \in (0 .. Len(s)) \X (0 .. Len(t)) |-> c[size][p[2] * (m + 1) + p[1] + 1]]
  BY DEF Matrix, Table, CodeCell
<1>2. size \in Nat
  <2>1. m \in Nat /\ Len(t) + 1 \in Nat
    OBVIOUS
  <2>2. \A a, b \in Nat : (a + 1) * b \in Nat
    BY ONLY TRUE
  <2> QED BY ONLY <2>1, <2>2
<1> HIDE DEF size
<1>3. Is(U)
  <2>1. U \in [0 .. size -> Seq(Nat)] /\ U[0] = <<>>
    BY DEF Written, size
  <2>2. ASSUME NEW k \in 0 .. size, k # 0
        PROVE  U[k] = Append(U[k - 1], CodeCell(s, t, U[k - 1], (k - 1) % (m + 1), (k - 1) \div (m + 1)))
    <3>1. k \in 1 .. size /\ k - 1 \in 0 .. size
      BY <1>2, <2>2
    <3>2. U[k - 1] \in Seq(Nat)
      BY <2>1, <3>1
    <3>3. U[k] = Append(U[k - 1], g[<<U[k - 1], k>>])
      BY <3>1 DEF Written, size
    <3> QED BY <3>1, <3>2, <3>3 DEF size, GivesCode
  <2> HIDE DEF m
  <2> QED BY <2>1, <2>2
<1>4. Is(c)
  <2> HIDE DEF Is
  <2> QED BY <1>3
<1>5. c[0] = U[0]
  <2>1. 0 \in 0 .. size
    BY <1>2
  <2> HIDE DEF c, m
  <2>2. c[0] = <<>>
    BY <1>4, <2>1
  <2> QED BY <2>2 DEF Written, size
<1>6. ASSUME NEW k \in 1 .. size, c[k - 1] = U[k - 1] PROVE c[k] = U[k]
  <2>1. k \in 0 .. size /\ k # 0
    BY <1>2
  <2> HIDE DEF c, m
  <2>2. c[k] = Append(c[k - 1], CodeCell(s, t, c[k - 1], (k - 1) % (m + 1), (k - 1) \div (m + 1)))
    BY <1>4, <2>1
  <2>3. U[k] = Append(U[k - 1], CodeCell(s, t, U[k - 1], (k - 1) % (m + 1), (k - 1) \div (m + 1)))
    BY <1>3, <2>1
  <2> QED BY <1>6, <2>2, <2>3
<1>7. c[size] = U[size]
  <2> HIDE DEF c
  <2> QED BY <1>2, <1>5, <1>6, FollowsWritten
<1> HIDE DEF c, Is
<1> QED BY <1>1, <1>7 DEF size, m, RowsOf

\* The same of a matrix d.
CodeOf(d, s, t, i, j) ==
    LET step == Smaller(Smaller(d[<<i, j - 1>>], d[<<i - 1, j>>]) + 1,
                        d[<<i - 1, j - 1>>] + Cost(s[i], t[j]))
    IN IF i = 0 THEN j
       ELSE IF j = 0 THEN i
       ELSE IF Swapped(s, t, i, j) /\ step - d[<<i - 2, j - 2>>] = 2
       THEN step - 1
       ELSE step

\* The pairs written before i, j.
Earlier(h, k, i, j) == k < j \/ (k = j /\ h < i)

\* Both say the same when the places before i, j hold d.
LEMMA CellsAre ==
    ASSUME NEW s \in Seq(Int), NEW t, NEW i \in 0 .. Len(s), NEW j \in Nat, NEW w, NEW d,
           \A h \in 0 .. Len(s), k \in 0 .. j :
               Earlier(h, k, i, j) => w[k * (Len(s) + 1) + h + 1] = d[<<h, k>>]
    PROVE  CodeCell(s, t, w, i, j) = CodeOf(d, s, t, i, j)
<1>1. CASE i = 0 \/ j = 0
  BY <1>1 DEF CodeCell, CodeOf
<1>2. CASE i # 0 /\ j # 0
  <2> DEFINE W(h, k) == w[k * (Len(s) + 1) + h + 1]
  <2>1. W(i, j - 1) = d[<<i, j - 1>>] /\ W(i - 1, j) = d[<<i - 1, j>>] /\ W(i - 1, j - 1) = d[<<i - 1, j - 1>>]
    <3>1. /\ i - 1 \in 0 .. Len(s) /\ j - 1 \in 0 .. j /\ j \in 0 .. j
          /\ Earlier(i, j - 1, i, j) /\ Earlier(i - 1, j, i, j) /\ Earlier(i - 1, j - 1, i, j)
      BY <1>2 DEF Earlier
    <3> QED BY <3>1
  <2>2. i >= 2 /\ j >= 2 => W(i - 2, j - 2) = d[<<i - 2, j - 2>>]
    <3>1. i >= 2 /\ j >= 2 => i - 2 \in 0 .. Len(s) /\ j - 2 \in 0 .. j /\ Earlier(i - 2, j - 2, i, j)
      BY DEF Earlier
    <3> QED BY <3>1
  <2>3. CodeCell(s, t, w, i, j) =
          LET step == Smaller(Smaller(W(i, j - 1), W(i - 1, j)) + 1, W(i - 1, j - 1) + Cost(s[i], t[j]))
          IN IF Swapped(s, t, i, j) /\ step - W(i - 2, j - 2) = 2 THEN step - 1 ELSE step
    BY <1>2 DEF CodeCell
  <2> HIDE DEF W
  <2>4. Swapped(s, t, i, j) => i >= 2 /\ j >= 2
    BY DEF Swapped
  <2> QED BY <1>2, <2>1, <2>2, <2>3, <2>4 DEF CodeOf
<1> QED BY <1>1, <1>2

\* The number of i, j is a natural number when those before it are.
LEMMA CodeIsNat ==
    ASSUME NEW s, NEW t, NEW i \in Nat, NEW j \in Nat, NEW d,
           \A h \in 0 .. i, k \in 0 .. j : Earlier(h, k, i, j) => d[<<h, k>>] \in Nat
    PROVE  CodeOf(d, s, t, i, j) \in Nat
<1>1. CASE i = 0 \/ j = 0
  BY <1>1 DEF CodeOf
<1>2. CASE i # 0 /\ j # 0
  <2>1. d[<<i, j - 1>>] \in Nat /\ d[<<i - 1, j>>] \in Nat /\ d[<<i - 1, j - 1>>] \in Nat
    <3>1. /\ i - 1 \in 0 .. i /\ j - 1 \in 0 .. j /\ j \in 0 .. j /\ i \in 0 .. i
          /\ Earlier(i, j - 1, i, j) /\ Earlier(i - 1, j, i, j) /\ Earlier(i - 1, j - 1, i, j)
      BY <1>2 DEF Earlier
    <3> QED BY <3>1
  <2>2. Swapped(s, t, i, j) => d[<<i - 2, j - 2>>] \in Nat
    <3>1. i >= 2 /\ j >= 2 => i - 2 \in 0 .. i /\ j - 2 \in 0 .. j /\ Earlier(i - 2, j - 2, i, j)
      BY DEF Earlier
    <3> QED BY <3>1 DEF Swapped
  <2>3. Cost(s[i], t[j]) \in Nat
    BY DEF Cost
  <2> QED BY <1>2, <2>1, <2>2, <2>3 DEF CodeOf, Smaller
<1> QED BY <1>1, <1>2

\* Where every number is the one the program writes, it is the one of the

\* fewest edits: an exchange saves at most one of two letters.
LEMMA CodeIsEntry ==
    ASSUME NEW m \in Nat, NEW n \in Nat, NEW s, NEW t, NEW d,
           \A i \in 0 .. m, j \in 0 .. n : d[<<i, j>>] \in Nat /\ d[<<i, j>>] = CodeOf(d, s, t, i, j)
    PROVE  IsMatrix(d, s, t, m, n)
<1>1. ASSUME NEW i \in 0 .. m PROVE d[<<i, 0>>] = i
  <2>1. 0 \in 0 .. n
    OBVIOUS
  <2>2. d[<<i, 0>>] = CodeOf(d, s, t, i, 0)
    BY <2>1
  <2> QED BY <2>2 DEF CodeOf
<1>2. ASSUME NEW j \in 0 .. n PROVE d[<<0, j>>] = j
  <2>1. 0 \in 0 .. m
    OBVIOUS
  <2>2. d[<<0, j>>] = CodeOf(d, s, t, 0, j)
    BY <2>1
  <2> QED BY <2>2 DEF CodeOf
<1>3. ASSUME NEW i \in 1 .. m, NEW j \in 1 .. n PROVE Entry(d, s, t, i, j)
  <2> DEFINE x == d[<<i, j>>]
             a == d[<<i - 1, j>>]
             b == d[<<i, j - 1>>]
             c == d[<<i - 1, j - 1>>]
             z == Cost(s[i], t[j])
             f == d[<<i - 2, j - 2>>]
             W == Swapped(s, t, i, j)
             step == Smaller(Smaller(b, a) + 1, c + z)
  <2>1. x \in Nat /\ a \in Nat /\ b \in Nat /\ c \in Nat /\ z \in {0, 1}
    <3>1. i - 1 \in 0 .. m /\ j - 1 \in 0 .. n /\ i \in 0 .. m /\ j \in 0 .. n
      OBVIOUS
    <3> QED BY <3>1 DEF Cost
  <2>2. x = IF W /\ step - f = 2 THEN step - 1 ELSE step
    <3>1. i \in 0 .. m /\ j \in 0 .. n /\ i # 0 /\ j # 0
      OBVIOUS
    <3> QED BY <3>1 DEF CodeOf
  <2>3. W => f \in Nat /\ c <= f + 1
    <3> SUFFICES ASSUME W PROVE f \in Nat /\ c <= f + 1
      OBVIOUS
    <3>1. /\ i - 1 \in 1 .. m /\ j - 1 \in 1 .. n /\ i - 2 \in 0 .. m /\ j - 2 \in 0 .. n
          /\ i - 1 \in 0 .. m /\ j - 1 \in 0 .. n
          /\ (i - 1) - 1 = i - 2 /\ (j - 1) - 1 = j - 2 /\ i - 1 # 0 /\ j - 1 # 0
          /\ (i - 1) - 2 = i - 3 /\ (j - 1) - 2 = j - 3
      BY DEF Swapped
    <3>2. /\ c \in Nat /\ f \in Nat /\ d[<<i - 2, j - 1>>] \in Nat /\ d[<<i - 1, j - 2>>] \in Nat
          /\ c = CodeOf(d, s, t, i - 1, j - 1)
      BY <3>1
    <3> DEFINE y == Smaller(Smaller(d[<<i - 1, j - 2>>], d[<<i - 2, j - 1>>]) + 1, f + Cost(s[i - 1], t[j - 1]))
    <3>3. c = y \/ c = y - 1
      BY <3>1, <3>2 DEF CodeOf
    <3>4. y \in Int /\ y <= f + Cost(s[i - 1], t[j - 1])
      <4>1. Cost(s[i - 1], t[j - 1]) \in Nat
        BY DEF Cost
      <4> QED BY <3>2, <4>1 DEF Smaller
    <3>5. y <= f + 1
      BY <3>2, <3>4 DEF Cost
    <3> HIDE DEF y, c, f
    <3> QED BY <3>2, <3>3, <3>4, <3>5
  <2>4. step \in Nat /\ step <= a + 1 /\ step <= b + 1 /\ step <= c + z /\ (step = a + 1 \/ step = b + 1 \/ step = c + z)
    <3> HIDE DEF a, b, c, z
    <3> QED BY <2>1 DEF Smaller
  <2> HIDE DEF x, a, b, c, z, f, W, step
  <2>5. /\ x <= a + 1 /\ x <= b + 1 /\ x <= c + z /\ (W => x <= f + 1)
        /\ (x = a + 1 \/ x = b + 1 \/ x = c + z \/ (W /\ x = f + 1))
    BY ONLY <2>1, <2>2, <2>3, <2>4
  <2> QED BY <2>5 DEF Entry, x, a, b, c, z, f, W
<1> QED BY <1>1, <1>2, <1>3 DEF IsMatrix

\* The matrix of the program holds the fewest edits of all beginnings.
LEMMA MatrixIs ==
    ASSUME NEW s \in Seq(Int), NEW t \in Seq(Int)
    PROVE  IsMatrix(Matrix(s, t), s, t, Len(s), Len(t))
<1> DEFINE m == Len(s)
           n == Len(t)
           size == (m + 1) * (n + 1)
           V(w, k) == CodeCell(s, t, w, (k - 1) % (m + 1), (k - 1) \div (m + 1))
           g == [x \in Seq(Nat) \X (1 .. size) |-> V(x[1], x[2])]
<1>1. m \in Nat /\ n \in Nat /\ size \in Nat
  OBVIOUS
<1>2. \A k \in 1 .. size, w \in Seq(Nat) : g[<<w, k>>] = V(w, k)
  OBVIOUS
<1> HIDE DEF g
<1>3. ASSUME NEW k \in 1 .. size, NEW w \in Seq(Nat), Len(w) = k - 1 PROVE V(w, k) \in Nat
  <2> DEFINE i == (k - 1) % (m + 1)
             j == (k - 1) \div (m + 1)
             d == [p \in (0 .. m) \X (0 .. j) |-> w[p[2] * (m + 1) + p[1] + 1]]
  <2> HIDE DEF m, n
  <2>1. i \in 0 .. m /\ j \in 0 .. n /\ k = j * (m + 1) + i + 1
    BY <1>1, PlaceOf
  <2>2. ASSUME NEW h \in 0 .. m, NEW l \in 0 .. j, Earlier(h, l, i, j)
        PROVE  w[l * (m + 1) + h + 1] = d[<<h, l>>] /\ d[<<h, l>>] \in Nat
    <3>1. l * (m + 1) + h + 1 \in 1 .. k - 1
      <4> HIDE DEF i, j
      <4>1. l \in Nat /\ j \in Nat /\ (l < j \/ (l = j /\ h < i))
        BY <2>1, <2>2 DEF Earlier
      <4>2. l * (m + 1) + h + 1 \in 1 .. (j * (m + 1) + i + 1) - 1
        BY <1>1, <2>1, <4>1, BeforeFacts
      <4> QED BY <2>1, <4>2
    <3>2. d[<<h, l>>] = w[l * (m + 1) + h + 1]
      OBVIOUS
    <3> HIDE DEF d
    <3> QED BY <1>3, <3>1, <3>2
  <2> HIDE DEF d, i, j
  <2>3. CodeCell(s, t, w, i, j) = CodeOf(d, s, t, i, j)
    BY <2>1, <2>2, CellsAre DEF m
  <2>4. CodeOf(d, s, t, i, j) \in Nat
    <3>1. \A h \in 0 .. i, l \in 0 .. j : Earlier(h, l, i, j) => d[<<h, l>>] \in Nat
      BY <1>1, <2>1, <2>2
    <3> QED BY <1>1, <2>1, <3>1, CodeIsNat
  <2> QED BY <2>3, <2>4 DEF i, j
<1>4. Gives(g, size)
  BY <1>2, <1>3 DEF Gives
<1>5. PICK U : Written(U, g, size)
  BY <1>1, <1>4, WrittenExists
<1> DEFINE W == U[size]
           d == Matrix(s, t)
<1>6. \A i \in 0 .. m, j \in 0 .. n : d[<<i, j>>] = W[j * (m + 1) + i + 1]
  <2>1. GivesCode(g, s, t)
    BY <1>2 DEF GivesCode
  <2>2. RowsOf(Matrix(s, t), U[(Len(s) + 1) * (Len(t) + 1)], s, t)
    BY ONLY s \in Seq(Int), t \in Seq(Int), <1>5, <2>1, MatrixWritten
  <2> QED BY <2>2 DEF RowsOf
<1> HIDE DEF d, W
<1>7. W \in Seq(Nat) /\ Len(W) = size
  <2>1. size \in 0 .. size
    BY <1>1
  <2> HIDE DEF size, m, n
  <2>2. Len(U[size]) = size
    BY <1>1, <1>5, <2>1, WrittenLen
  <2> QED BY <1>5, <2>1, <2>2 DEF W, Written
<1>8. ASSUME NEW i \in 0 .. m, NEW j \in 0 .. n
      PROVE  d[<<i, j>>] \in Nat /\ d[<<i, j>>] = CodeOf(d, s, t, i, j)
  <2> DEFINE k == j * (m + 1) + i + 1
  <2> HIDE DEF m, n
  <2>a. IsPlaceOf(k, m, n, i, j)
    <3> HIDE DEF size
    <3> QED BY ONLY <1>1, i \in 0 .. m, j \in 0 .. n, PlaceFacts DEF k
  <2>1. k \in 1 .. size /\ (k - 1) % (m + 1) = i /\ (k - 1) \div (m + 1) = j
    BY <2>a DEF IsPlaceOf
  <2> HIDE DEF k, size
  <2>2. PICK w \in Seq(Nat) : /\ Len(w) = k - 1 /\ \A p \in 1 .. k - 1 : w[p] = W[p]
                              /\ W[k] = g[<<w, k>>]
    <3>1. HoldsAt(U[size], g, k)
      BY ONLY <1>1, <1>5, <2>1, WrittenIs
    <3> QED BY <3>1 DEF HoldsAt, W
  <2>3. W[k] = CodeCell(s, t, w, i, j)
    BY <1>2, <2>1, <2>2
  <2>4. ASSUME NEW h \in 0 .. m, NEW l \in 0 .. j, Earlier(h, l, i, j)
        PROVE  w[l * (m + 1) + h + 1] = d[<<h, l>>]
    <3>1. l \in Nat /\ j \in Nat /\ (l < j \/ (l = j /\ h < i)) /\ l \in 0 .. n
      BY <1>1, <2>4 DEF Earlier
    <3>2. l * (m + 1) + h + 1 \in 1 .. k - 1
      BY <1>1, <3>1, BeforeFacts DEF k
    <3> QED BY <1>6, <2>2, <3>1, <3>2
  <2>5. CodeCell(s, t, w, i, j) = CodeOf(d, s, t, i, j)
    <3>1. j \in Nat
      BY <1>1
    <3> QED BY <2>4, <3>1, CellsAre DEF m
  <2>6. d[<<i, j>>] = W[k]
    BY <1>6 DEF k
  <2>7. W[k] \in Nat
    BY <1>1, <1>7, <2>1
  <2> QED BY <2>3, <2>5, <2>6, <2>7
<1> HIDE DEF m, n
<1>9. IsMatrix(d, s, t, m, n)
  BY <1>1, <1>8, CodeIsEntry
<1> QED BY <1>9 DEF d, m, n

\* The fewest edits, from those of shorter beginnings.
LeastCell(s, t, written, i, j) ==
    LET d(h, k) == written[k * (Len(s) + 1) + h + 1]
        edits ==
            { d(i - 1, j) + 1 : x \in IF i > 0 THEN {1} ELSE {} }
            \cup { d(i, j - 1) + 1 : x \in IF j > 0 THEN {1} ELSE {} }
            \cup { d(i - 1, j - 1) + Cost(s[i], t[j]) :
                     x \in IF i > 0 /\ j > 0 THEN {1} ELSE {} }
            \cup { d(i - 2, j - 2) + 1 :
                     x \in IF /\ i > 1 /\ j > 1
                              /\ <<s[i], s[i - 1]>> = <<t[j - 1], t[j]>>
                           THEN {1} ELSE {} }
    IN IF edits = {} THEN 0
       ELSE CHOOSE m \in edits : \A n \in edits : m <= n
\* The number of place k is the least of its edits.
GivesLeast(g, s, t) ==
    \A k \in 1 .. (Len(s) + 1) * (Len(t) + 1), w \in Seq(Nat) :
        g[<<w, k>>] = LeastCell(s, t, w, (k - 1) % (Len(s) + 1), (k - 1) \div (Len(s) + 1))

\* The distance is the last place of what is written so.
LEMMA DistanceWritten ==
    ASSUME NEW s \in Seq(Int), NEW t \in Seq(Int), NEW g, NEW U,
           Written(U, g, (Len(s) + 1) * (Len(t) + 1)), GivesLeast(g, s, t)
    PROVE  Distance(s, t) = U[(Len(s) + 1) * (Len(t) + 1)][Len(t) * (Len(s) + 1) + Len(s) + 1]
<1> DEFINE m == Len(s)
           size == (m + 1) * (Len(t) + 1)
           Is(h) == h = [k \in 0 .. size |->
                          IF k = 0 THEN <<>>
                          ELSE Append(h[k - 1], LeastCell(s, t, h[k - 1], (k - 1) % (m + 1), (k - 1) \div (m + 1)))]
           c == CHOOSE h : Is(h)
<1>1. Distance(s, t) = [p \in (0 .. Len(s)) \X (0 .. Len(t)) |-> c[size][p[2] * (m + 1) + p[1] + 1]][<<Len(s), Len(t)>>]
  BY DEF Distance, Table, LeastCell
<1>2. size \in Nat
  <2>1. m \in Nat /\ Len(t) + 1 \in Nat
    OBVIOUS
  <2>2. \A a, b \in Nat : (a + 1) * b \in Nat
    BY ONLY TRUE
  <2> QED BY ONLY <2>1, <2>2
<1> HIDE DEF size
<1>3. Is(U)
  <2>1. U \in [0 .. size -> Seq(Nat)] /\ U[0] = <<>>
    BY DEF Written, size
  <2>2. ASSUME NEW k \in 0 .. size, k # 0
        PROVE  U[k] = Append(U[k - 1], LeastCell(s, t, U[k - 1], (k - 1) % (m + 1), (k - 1) \div (m + 1)))
    <3>1. k \in 1 .. size /\ k - 1 \in 0 .. size
      BY <1>2, <2>2
    <3>2. U[k - 1] \in Seq(Nat)
      BY <2>1, <3>1
    <3>3. U[k] = Append(U[k - 1], g[<<U[k - 1], k>>])
      BY <3>1 DEF Written, size
    <3> QED BY <3>1, <3>2, <3>3 DEF size, GivesLeast
  <2> HIDE DEF m
  <2> QED BY <2>1, <2>2
<1>4. Is(c)
  <2> HIDE DEF Is
  <2> QED BY <1>3
<1>5. c[0] = U[0]
  <2>1. 0 \in 0 .. size
    BY <1>2
  <2> HIDE DEF c, m
  <2>2. c[0] = <<>>
    BY <1>4, <2>1
  <2> QED BY <2>2 DEF Written, size
<1>6. ASSUME NEW k \in 1 .. size, c[k - 1] = U[k - 1] PROVE c[k] = U[k]
  <2>1. k \in 0 .. size /\ k # 0
    BY <1>2
  <2> HIDE DEF c, m
  <2>2. c[k] = Append(c[k - 1], LeastCell(s, t, c[k - 1], (k - 1) % (m + 1), (k - 1) \div (m + 1)))
    BY <1>4, <2>1
  <2>3. U[k] = Append(U[k - 1], LeastCell(s, t, U[k - 1], (k - 1) % (m + 1), (k - 1) \div (m + 1)))
    BY <1>3, <2>1
  <2> QED BY <1>6, <2>2, <2>3
<1>7. c[size] = U[size]
  <2> HIDE DEF c
  <2> QED BY <1>2, <1>5, <1>6, FollowsWritten
<1> HIDE DEF c, Is
<1>8. <<Len(s), Len(t)>> \in (0 .. Len(s)) \X (0 .. Len(t))
  OBVIOUS
<1>9. Distance(s, t) = c[size][Len(t) * (m + 1) + Len(s) + 1]
  <2> HIDE DEF m, size
  <2> QED BY <1>1, <1>8
<1> QED BY <1>7, <1>9 DEF size, m


\* The edits of i, j in a matrix d, and the least of them.
Edits(d, s, t, i, j) ==
    { d[<<i - 1, j>>] + 1 : x \in IF i > 0 THEN {1} ELSE {} }
    \cup { d[<<i, j - 1>>] + 1 : x \in IF j > 0 THEN {1} ELSE {} }
    \cup { d[<<i - 1, j - 1>>] + Cost(s[i], t[j]) :
             x \in IF i > 0 /\ j > 0 THEN {1} ELSE {} }
    \cup { d[<<i - 2, j - 2>>] + 1 :
             x \in IF /\ i > 1 /\ j > 1
                      /\ <<s[i], s[i - 1]>> = <<t[j - 1], t[j]>>
                   THEN {1} ELSE {} }
LeastOf(d, s, t, i, j) ==
    IF Edits(d, s, t, i, j) = {} THEN 0
    ELSE CHOOSE m \in Edits(d, s, t, i, j) : \A n \in Edits(d, s, t, i, j) : m <= n

\* Both say the same when the places before i, j hold d.
LEMMA LeastCellsAre ==
    ASSUME NEW s \in Seq(Int), NEW t, NEW i \in 0 .. Len(s), NEW j \in Nat, NEW w, NEW d,
           \A h \in 0 .. Len(s), k \in 0 .. j :
               Earlier(h, k, i, j) => w[k * (Len(s) + 1) + h + 1] = d[<<h, k>>]
    PROVE  LeastCell(s, t, w, i, j) = LeastOf(d, s, t, i, j)
<1> DEFINE W(h, k) == w[k * (Len(s) + 1) + h + 1]
           A(x) == { x : y \in IF i > 0 THEN {1} ELSE {} }
           B(x) == { x : y \in IF j > 0 THEN {1} ELSE {} }
           C(x) == { x : y \in IF i > 0 /\ j > 0 THEN {1} ELSE {} }
           E(x) == { x : y \in IF /\ i > 1 /\ j > 1
                                  /\ <<s[i], s[i - 1]>> = <<t[j - 1], t[j]>>
                               THEN {1} ELSE {} }
           S == A(W(i - 1, j) + 1) \cup B(W(i, j - 1) + 1) \cup C(W(i - 1, j - 1) + Cost(s[i], t[j]))
                \cup E(W(i - 2, j - 2) + 1)
           T == A(d[<<i - 1, j>>] + 1) \cup B(d[<<i, j - 1>>] + 1) \cup C(d[<<i - 1, j - 1>>] + Cost(s[i], t[j]))
                \cup E(d[<<i - 2, j - 2>>] + 1)
<1>1. LeastCell(s, t, w, i, j) = IF S = {} THEN 0 ELSE CHOOSE m \in S : \A n \in S : m <= n
  BY DEF LeastCell
<1>2. LeastOf(d, s, t, i, j) = IF T = {} THEN 0 ELSE CHOOSE m \in T : \A n \in T : m <= n
  BY DEF LeastOf, Edits
<1>3. /\ i > 0 => W(i - 1, j) = d[<<i - 1, j>>]
      /\ j > 0 => W(i, j - 1) = d[<<i, j - 1>>]
      /\ i > 0 /\ j > 0 => W(i - 1, j - 1) = d[<<i - 1, j - 1>>]
      /\ i > 1 /\ j > 1 => W(i - 2, j - 2) = d[<<i - 2, j - 2>>]
  <2>1. /\ i > 0 => i - 1 \in 0 .. Len(s) /\ j \in 0 .. j /\ Earlier(i - 1, j, i, j)
        /\ j > 0 => i \in 0 .. Len(s) /\ j - 1 \in 0 .. j /\ Earlier(i, j - 1, i, j)
        /\ i > 0 /\ j > 0 => Earlier(i - 1, j - 1, i, j)
        /\ i > 1 /\ j > 1 => i - 2 \in 0 .. Len(s) /\ j - 2 \in 0 .. j /\ Earlier(i - 2, j - 2, i, j)
    BY DEF Earlier
  <2> QED BY <2>1
<1> HIDE DEF W
<1>4. /\ A(W(i - 1, j) + 1) = A(d[<<i - 1, j>>] + 1)
      /\ B(W(i, j - 1) + 1) = B(d[<<i, j - 1>>] + 1)
      /\ C(W(i - 1, j - 1) + Cost(s[i], t[j])) = C(d[<<i - 1, j - 1>>] + Cost(s[i], t[j]))
      /\ E(W(i - 2, j - 2) + 1) = E(d[<<i - 2, j - 2>>] + 1)
  BY <1>3
<1>5. S = T
  <2> HIDE DEF A, B, C, E
  <2> QED BY <1>4
<1> HIDE DEF S, T
<1> QED BY <1>1, <1>2, <1>5

\* A number that is the least of its edits is the one of them that is least.
LEMMA LeastIs ==
    ASSUME NEW s, NEW t, NEW i \in Nat, NEW j \in Nat, NEW d,
           \A h \in 0 .. i, k \in 0 .. j : Earlier(h, k, i, j) => d[<<h, k>>] \in Nat
    PROVE  /\ LeastOf(d, s, t, i, j) \in Nat
           /\ i = 0 /\ j = 0 => LeastOf(d, s, t, i, j) = 0
           /\ i > 0 \/ j > 0 =>
                 /\ LeastOf(d, s, t, i, j) \in Edits(d, s, t, i, j)
                 /\ \A e \in Edits(d, s, t, i, j) : LeastOf(d, s, t, i, j) <= e
<1> DEFINE T == Edits(d, s, t, i, j)
<1>1. T \subseteq Nat
  <2>1. /\ i > 0 => i - 1 \in 0 .. i /\ j \in 0 .. j /\ Earlier(i - 1, j, i, j)
        /\ j > 0 => i \in 0 .. i /\ j - 1 \in 0 .. j /\ Earlier(i, j - 1, i, j)
        /\ i > 0 /\ j > 0 => Earlier(i - 1, j - 1, i, j)
        /\ i > 1 /\ j > 1 => i - 2 \in 0 .. i /\ j - 2 \in 0 .. j /\ Earlier(i - 2, j - 2, i, j)
    BY DEF Earlier
  <2>2. /\ i > 0 => d[<<i - 1, j>>] \in Nat
        /\ j > 0 => d[<<i, j - 1>>] \in Nat
        /\ i > 0 /\ j > 0 => d[<<i - 1, j - 1>>] + Cost(s[i], t[j]) \in Nat
        /\ i > 1 /\ j > 1 => d[<<i - 2, j - 2>>] \in Nat
    BY <2>1 DEF Cost
  <2> QED BY <2>2 DEF Edits
<1>2. i = 0 /\ j = 0 => T = {}
  BY DEF Edits
<1>3. i > 0 \/ j > 0 => T # {}
  BY DEF Edits
<1>4. LeastOf(d, s, t, i, j) = IF T = {} THEN 0 ELSE CHOOSE m \in T : \A n \in T : m <= n
  BY DEF LeastOf
<1> HIDE DEF T
<1>5. T # {} => \E m \in T : \A n \in T : m <= n
  BY <1>1, Smallest
<1>6. T # {} => LeastOf(d, s, t, i, j) \in T /\ \A e \in T : LeastOf(d, s, t, i, j) <= e
  BY <1>4, <1>5
<1>7. (i = 0 /\ j = 0) \/ i > 0 \/ j > 0
  OBVIOUS
<1> QED BY <1>1, <1>2, <1>3, <1>4, <1>6, <1>7 DEF T

\* A matrix in which every number is the least of its edits.
LEMMA LeastIsEntry ==
    ASSUME NEW m \in Nat, NEW n \in Nat, NEW s, NEW t, NEW d,
           \A i \in 0 .. m, j \in 0 .. n : d[<<i, j>>] \in Nat /\ d[<<i, j>>] = LeastOf(d, s, t, i, j)
    PROVE  IsMatrix(d, s, t, m, n)
<1>1. ASSUME NEW i \in 0 .. m, NEW j \in 0 .. n
      PROVE  /\ i = 0 /\ j = 0 => d[<<i, j>>] = 0
             /\ i > 0 \/ j > 0 => /\ d[<<i, j>>] \in Edits(d, s, t, i, j)
                                  /\ \A e \in Edits(d, s, t, i, j) : d[<<i, j>>] <= e
  <2>1. \A h \in 0 .. i, k \in 0 .. j : h \in 0 .. m /\ k \in 0 .. n
    OBVIOUS
  <2>2. \A h \in 0 .. i, k \in 0 .. j : Earlier(h, k, i, j) => d[<<h, k>>] \in Nat
    BY <2>1
  <2>3. i \in Nat /\ j \in Nat /\ d[<<i, j>>] = LeastOf(d, s, t, i, j)
    OBVIOUS
  <2>4. i = 0 /\ j = 0 => d[<<i, j>>] = 0
    BY ONLY <2>2, <2>3, LeastIs
  <2>5. i > 0 \/ j > 0 => /\ d[<<i, j>>] \in Edits(d, s, t, i, j)
                         /\ \A e \in Edits(d, s, t, i, j) : d[<<i, j>>] <= e
    BY ONLY <2>2, <2>3, LeastIs
  <2> QED BY <2>4, <2>5
<1>2. ASSUME NEW i \in 0 .. m PROVE d[<<i, 0>>] = i
  <2> DEFINE S == { x \in Nat : x <= m => d[<<x, 0>>] = x }
  <2>1. 0 \in S
    BY <1>1
  <2>2. ASSUME NEW x \in 0 .. i - 1, x \in S PROVE x + 1 \in S
    <3>1. x + 1 \in 0 .. m /\ x + 1 > 0 /\ (x + 1) - 1 = x /\ x <= m /\ 0 \in 0 .. n /\ x + 1 \in Nat
      OBVIOUS
    <3>2. d[<<x + 1, 0>>] \in Edits(d, s, t, x + 1, 0)
      BY <1>1, <3>1
    <3>3. d[<<x + 1, 0>>] = d[<<x, 0>>] + 1
      BY <3>1, <3>2 DEF Edits
    <3> QED BY <2>2, <3>1, <3>3
  <2>3. i \in Nat
    OBVIOUS
  <2> HIDE DEF S
  <2>4. i \in S
    BY <2>1, <2>2, <2>3, UpTo
  <2> QED BY <2>4 DEF S
<1>3. ASSUME NEW j \in 0 .. n PROVE d[<<0, j>>] = j
  <2> DEFINE S == { x \in Nat : x <= n => d[<<0, x>>] = x }
  <2>1. 0 \in S
    BY <1>1
  <2>2. ASSUME NEW x \in 0 .. j - 1, x \in S PROVE x + 1 \in S
    <3>1. x + 1 \in 0 .. n /\ x + 1 > 0 /\ (x + 1) - 1 = x /\ x <= n /\ 0 \in 0 .. m /\ x + 1 \in Nat
      OBVIOUS
    <3>2. d[<<0, x + 1>>] \in Edits(d, s, t, 0, x + 1)
      BY <1>1, <3>1
    <3>3. d[<<0, x + 1>>] = d[<<0, x>>] + 1
      BY <3>1, <3>2 DEF Edits
    <3> QED BY <2>2, <3>1, <3>3
  <2>3. j \in Nat
    OBVIOUS
  <2> HIDE DEF S
  <2>4. j \in S
    BY <2>1, <2>2, <2>3, UpTo
  <2> QED BY <2>4 DEF S
<1>4. ASSUME NEW i \in 1 .. m, NEW j \in 1 .. n PROVE Entry(d, s, t, i, j)
  <2>1. i \in 0 .. m /\ j \in 0 .. n /\ i > 0 /\ j > 0
    OBVIOUS
  <2>2. d[<<i, j>>] \in Edits(d, s, t, i, j) /\ \A e \in Edits(d, s, t, i, j) : d[<<i, j>>] <= e
    BY <1>1, <2>1
  <2>3. Swapped(s, t, i, j) <=> i > 1 /\ j > 1 /\ <<s[i], s[i - 1]>> = <<t[j - 1], t[j]>>
    BY <2>1 DEF Swapped
  <2>4. \A e : e \in Edits(d, s, t, i, j) <=>
            \/ e = d[<<i - 1, j>>] + 1
            \/ e = d[<<i, j - 1>>] + 1
            \/ e = d[<<i - 1, j - 1>>] + Cost(s[i], t[j])
            \/ Swapped(s, t, i, j) /\ e = d[<<i - 2, j - 2>>] + 1
    BY <2>1, <2>3 DEF Edits
  <2> QED BY <2>2, <2>4 DEF Entry
<1> QED BY <1>2, <1>3, <1>4 DEF IsMatrix

\* The distance stands in the last corner of such a matrix.
LEMMA DistanceIs ==
    ASSUME NEW s \in Seq(Int), NEW t \in Seq(Int)
    PROVE  \E d : IsMatrix(d, s, t, Len(s), Len(t)) /\ Distance(s, t) = d[<<Len(s), Len(t)>>]
<1> DEFINE m == Len(s)
           n == Len(t)
           size == (m + 1) * (n + 1)
           V(w, k) == LeastCell(s, t, w, (k - 1) % (m + 1), (k - 1) \div (m + 1))
           g == [x \in Seq(Nat) \X (1 .. size) |-> V(x[1], x[2])]
<1>1. m \in Nat /\ n \in Nat /\ size \in Nat
  OBVIOUS
<1>2. \A k \in 1 .. size, w \in Seq(Nat) : g[<<w, k>>] = V(w, k)
  OBVIOUS
<1> HIDE DEF g
<1>3. ASSUME NEW k \in 1 .. size, NEW w \in Seq(Nat), Len(w) = k - 1 PROVE V(w, k) \in Nat
  <2> DEFINE i == (k - 1) % (m + 1)
             j == (k - 1) \div (m + 1)
             d == [p \in (0 .. m) \X (0 .. j) |-> w[p[2] * (m + 1) + p[1] + 1]]
  <2> HIDE DEF m, n
  <2>1. i \in 0 .. m /\ j \in 0 .. n /\ k = j * (m + 1) + i + 1
    BY <1>1, PlaceOf
  <2>2. ASSUME NEW h \in 0 .. m, NEW l \in 0 .. j, Earlier(h, l, i, j)
        PROVE  w[l * (m + 1) + h + 1] = d[<<h, l>>] /\ d[<<h, l>>] \in Nat
    <3>1. l * (m + 1) + h + 1 \in 1 .. k - 1
      <4> HIDE DEF i, j
      <4>1. l \in Nat /\ j \in Nat /\ (l < j \/ (l = j /\ h < i))
        BY <2>1, <2>2 DEF Earlier
      <4>2. l * (m + 1) + h + 1 \in 1 .. (j * (m + 1) + i + 1) - 1
        BY <1>1, <2>1, <4>1, BeforeFacts
      <4> QED BY <2>1, <4>2
    <3>2. d[<<h, l>>] = w[l * (m + 1) + h + 1]
      OBVIOUS
    <3> HIDE DEF d
    <3> QED BY <1>3, <3>1, <3>2
  <2> HIDE DEF d, i, j
  <2>3. LeastCell(s, t, w, i, j) = LeastOf(d, s, t, i, j)
    BY <2>1, <2>2, LeastCellsAre DEF m
  <2>4. LeastOf(d, s, t, i, j) \in Nat
    <3>1. \A h \in 0 .. i, l \in 0 .. j : Earlier(h, l, i, j) => d[<<h, l>>] \in Nat
      BY <1>1, <2>1, <2>2
    <3>2. i \in Nat /\ j \in Nat
      BY <1>1, <2>1
    <3> QED BY ONLY <3>1, <3>2, LeastIs
  <2> QED BY <2>3, <2>4 DEF i, j
<1>4. Gives(g, size)
  BY <1>2, <1>3 DEF Gives
<1>5. PICK U : Written(U, g, size)
  BY <1>1, <1>4, WrittenExists
<1> DEFINE W == U[size]
           d == [p \in (0 .. m) \X (0 .. n) |-> W[p[2] * (m + 1) + p[1] + 1]]
<1>6. \A i \in 0 .. m, j \in 0 .. n : d[<<i, j>>] = W[j * (m + 1) + i + 1]
  OBVIOUS
<1>b. Distance(s, t) = d[<<m, n>>]
  <2>1. GivesLeast(g, s, t)
    BY <1>2 DEF GivesLeast
  <2>2. Distance(s, t) = U[(Len(s) + 1) * (Len(t) + 1)][Len(t) * (Len(s) + 1) + Len(s) + 1]
    BY ONLY s \in Seq(Int), t \in Seq(Int), <1>5, <2>1, DistanceWritten
  <2>3. m \in 0 .. m /\ n \in 0 .. n
    OBVIOUS
  <2>4. d[<<m, n>>] = W[n * (m + 1) + m + 1]
    BY <1>6, <2>3
  <2> QED BY <2>2, <2>4
<1> HIDE DEF d, W
<1>7. W \in Seq(Nat) /\ Len(W) = size
  <2>1. size \in 0 .. size
    BY <1>1
  <2> HIDE DEF size, m, n
  <2>2. Len(U[size]) = size
    BY <1>1, <1>5, <2>1, WrittenLen
  <2> QED BY <1>5, <2>1, <2>2 DEF W, Written
<1>8. ASSUME NEW i \in 0 .. m, NEW j \in 0 .. n
      PROVE  d[<<i, j>>] \in Nat /\ d[<<i, j>>] = LeastOf(d, s, t, i, j)
  <2> DEFINE k == j * (m + 1) + i + 1
  <2> HIDE DEF m, n
  <2>a. IsPlaceOf(k, m, n, i, j)
    <3> HIDE DEF size
    <3> QED BY ONLY <1>1, i \in 0 .. m, j \in 0 .. n, PlaceFacts DEF k
  <2>1. k \in 1 .. size /\ (k - 1) % (m + 1) = i /\ (k - 1) \div (m + 1) = j
    BY <2>a DEF IsPlaceOf
  <2> HIDE DEF k, size
  <2>2. PICK w \in Seq(Nat) : /\ Len(w) = k - 1 /\ \A p \in 1 .. k - 1 : w[p] = W[p]
                              /\ W[k] = g[<<w, k>>]
    <3>1. HoldsAt(U[size], g, k)
      BY ONLY <1>1, <1>5, <2>1, WrittenIs
    <3> QED BY <3>1 DEF HoldsAt, W
  <2>3. W[k] = LeastCell(s, t, w, i, j)
    BY <1>2, <2>1, <2>2
  <2>4. ASSUME NEW h \in 0 .. m, NEW l \in 0 .. j, Earlier(h, l, i, j)
        PROVE  w[l * (m + 1) + h + 1] = d[<<h, l>>]
    <3>1. l \in Nat /\ j \in Nat /\ (l < j \/ (l = j /\ h < i)) /\ l \in 0 .. n
      BY <1>1, <2>4 DEF Earlier
    <3>2. l * (m + 1) + h + 1 \in 1 .. k - 1
      BY <1>1, <3>1, BeforeFacts DEF k
    <3> QED BY <1>6, <2>2, <3>1, <3>2
  <2>5. LeastCell(s, t, w, i, j) = LeastOf(d, s, t, i, j)
    <3>1. j \in Nat
      BY <1>1
    <3> QED BY <2>4, <3>1, LeastCellsAre DEF m
  <2>6. d[<<i, j>>] = W[k]
    BY <1>6 DEF k
  <2>7. W[k] \in Nat
    BY <1>1, <1>7, <2>1
  <2> QED BY <2>3, <2>5, <2>6, <2>7
<1> HIDE DEF m, n
<1>9. IsMatrix(d, s, t, m, n)
  BY <1>1, <1>8, LeastIsEntry
<1> QED BY <1>9, <1>b DEF m, n

-----------------------------------------------------------------------------
(* What CalEditDistance leaves out changes nothing.                         *)

\* The distance stands in the last corner of any such matrix.
LEMMA LastCorner ==
    ASSUME NEW s \in Seq(Int), NEW t \in Seq(Int), NEW d, IsMatrix(d, s, t, Len(s), Len(t))
    PROVE  Distance(s, t) = d[<<Len(s), Len(t)>>] /\ Distance(s, t) \in Nat
<1>1. PICK e : IsMatrix(e, s, t, Len(s), Len(t)) /\ Distance(s, t) = e[<<Len(s), Len(t)>>]
  BY DistanceIs
<1>2. Len(s) \in Nat /\ Len(t) \in Nat
  OBVIOUS
<1>3. e[<<Len(s), Len(t)>>] = d[<<Len(s), Len(t)>>]
  BY <1>1, <1>2, OneMatrix
<1>4. d[<<Len(s), Len(t)>>] \in Nat
  <2>1. Len(s) \in 0 .. Len(s) /\ Len(t) \in 0 .. Len(t)
    BY <1>2
  <2> QED BY <2>1 DEF IsMatrix
<1> QED BY <1>1, <1>3, <1>4

\* It takes as many edits to make s of t as t of s.
LEMMA DistanceBothWays ==
    ASSUME NEW s \in Seq(Int), NEW t \in Seq(Int)
    PROVE  Distance(t, s) = Distance(s, t)
<1>1. PICK d : IsMatrix(d, s, t, Len(s), Len(t)) /\ Distance(s, t) = d[<<Len(s), Len(t)>>]
  BY DistanceIs
<1> DEFINE m == Len(s)
           n == Len(t)
           e == [p \in (0 .. n) \X (0 .. m) |-> d[<<p[2], p[1]>>]]
<1>2. \A i \in 0 .. m, j \in 0 .. n : e[<<j, i>>] = d[<<i, j>>]
  OBVIOUS
<1>3. m \in Nat /\ n \in Nat /\ m \in 0 .. m /\ n \in 0 .. n
  OBVIOUS
<1> HIDE DEF e
<1>4. IsMatrix(e, t, s, n, m)
  BY <1>1, <1>2, <1>3, Transposed
<1>5. Distance(t, s) = e[<<n, m>>]
  BY <1>4, LastCorner
<1>6. e[<<n, m>>] = d[<<m, n>>]
  BY <1>2, <1>3
<1> QED BY <1>1, <1>5, <1>6

\* What is left of a word without its first letters.
LEMMA WithoutFirst ==
    ASSUME NEW s \in Seq(Int), NEW k \in 0 .. Len(s)
    PROVE  /\ SubSeq(s, k + 1, Len(s)) \in Seq(Int)
           /\ Len(SubSeq(s, k + 1, Len(s))) = Len(s) - k
           /\ \A i \in 1 .. Len(s) - k : SubSeq(s, k + 1, Len(s))[i] = s[i + k]
OBVIOUS

\* What is left of a word without its last letters.
LEMMA WithoutLast ==
    ASSUME NEW s \in Seq(Int), NEW k \in 0 .. Len(s)
    PROVE  /\ SubSeq(s, 1, Len(s) - k) \in Seq(Int)
           /\ Len(SubSeq(s, 1, Len(s) - k)) = Len(s) - k
           /\ \A i \in 1 .. Len(s) - k : SubSeq(s, 1, Len(s) - k)[i] = s[i]
OBVIOUS

\* s is what stands behind the first letter of u.
AllBehindFirst(s, u) ==
    s \in Seq(Int) /\ u \in Seq(Int) /\ Len(u) = Len(s) + 1 /\ BehindFirst(s, u, Len(s))

\* One letter that both begin with.
LEMMA OneFront ==
    ASSUME NEW s, NEW t, NEW u, NEW v, AllBehindFirst(s, u), AllBehindFirst(t, v), u[1] = v[1]
    PROVE  Distance(u, v) = Distance(s, t)
<1>0. /\ s \in Seq(Int) /\ t \in Seq(Int) /\ u \in Seq(Int) /\ v \in Seq(Int)
      /\ Len(u) = Len(s) + 1 /\ Len(v) = Len(t) + 1
      /\ BehindFirst(s, u, Len(s)) /\ BehindFirst(t, v, Len(t))
  BY DEF AllBehindFirst
<1>1. PICK d : IsMatrix(d, s, t, Len(s), Len(t)) /\ Distance(s, t) = d[<<Len(s), Len(t)>>]
  BY <1>0, DistanceIs
<1>2. PICK e : IsMatrix(e, u, v, Len(u), Len(v)) /\ Distance(u, v) = e[<<Len(u), Len(v)>>]
  BY <1>0, DistanceIs
<1>3. /\ Len(s) \in Nat /\ Len(t) \in Nat /\ Len(u) = Len(s) + 1 /\ Len(v) = Len(t) + 1
      /\ BehindFirst(s, u, Len(s)) /\ BehindFirst(t, v, Len(t))
  BY <1>0
<1>4. e[<<Len(s) + 1, Len(t) + 1>>] = d[<<Len(s), Len(t)>>]
  <2> DEFINE m == Len(s)
             n == Len(t)
  <2>1. /\ m \in Nat /\ n \in Nat /\ IsMatrix(d, s, t, m, n) /\ IsMatrix(e, u, v, m + 1, n + 1)
        /\ u[1] = v[1] /\ BehindFirst(s, u, m) /\ BehindFirst(t, v, n)
    BY <1>1, <1>2, <1>3
  <2> HIDE DEF m, n
  <2>2. e[<<m + 1, n + 1>>] = d[<<m, n>>]
    BY ONLY <2>1, SameLetter
  <2> QED BY <2>2 DEF m, n
<1> QED BY <1>1, <1>2, <1>3, <1>4

\* A beginning that both words have costs nothing.
LEMMA FrontCostsNothing ==
    ASSUME NEW s \in Seq(Int), NEW t \in Seq(Int),
           NEW k \in Nat, k <= Len(s), k <= Len(t), \A i \in 1 .. k : s[i] = t[i]
    PROVE  Distance(SubSeq(s, k + 1, Len(s)), SubSeq(t, k + 1, Len(t))) = Distance(s, t)
<1> DEFINE From(w, x) == SubSeq(w, x + 1, Len(w))
           S == { x \in Nat : x <= k => Distance(From(s, x), From(t, x)) = Distance(s, t) }
<1>1. 0 \in S
  <2>1. From(s, 0) = s /\ From(t, 0) = t
    OBVIOUS
  <2> HIDE DEF From
  <2> QED BY <2>1
<1>2. ASSUME NEW x \in 0 .. k - 1, x \in S PROVE x + 1 \in S
  <2>1. /\ x + 1 \in 1 .. k /\ x + 1 \in Nat /\ x <= k /\ x \in 0 .. Len(s) /\ x \in 0 .. Len(t)
        /\ x + 1 \in 0 .. Len(s) /\ x + 1 \in 0 .. Len(t)
        /\ 1 \in 1 .. Len(s) - x /\ 1 \in 1 .. Len(t) - x
    OBVIOUS
  <2>2. Distance(From(s, x), From(t, x)) = Distance(s, t)
    BY <1>2, <2>1
  <2>3. ASSUME NEW w \in {s, t}
        PROVE  /\ From(w, x) \in Seq(Int) /\ From(w, x + 1) \in Seq(Int)
               /\ Len(From(w, x)) = Len(From(w, x + 1)) + 1
               /\ From(w, x)[1] = w[x + 1]
               /\ \A i \in 1 .. Len(From(w, x + 1)) : From(w, x)[i + 1] = From(w, x + 1)[i]
    <3>1. w \in Seq(Int) /\ x \in 0 .. Len(w) /\ x + 1 \in 0 .. Len(w) /\ 1 \in 1 .. Len(w) - x
      BY <2>1
    <3>2. /\ From(w, x) \in Seq(Int) /\ Len(From(w, x)) = Len(w) - x
          /\ \A i \in 1 .. Len(w) - x : From(w, x)[i] = w[i + x]
      BY <3>1, WithoutFirst
    <3>3. /\ From(w, x + 1) \in Seq(Int) /\ Len(From(w, x + 1)) = Len(w) - (x + 1)
          /\ \A i \in 1 .. Len(w) - (x + 1) : From(w, x + 1)[i] = w[i + (x + 1)]
      BY <3>1, WithoutFirst
    <3>4. /\ Len(w) \in Nat /\ 1 + x = x + 1
          /\ \A i \in 1 .. Len(w) - (x + 1) : i + 1 \in 1 .. Len(w) - x /\ (i + 1) + x = i + (x + 1)
      BY <3>1
    <3> DEFINE a == From(w, x)
               b == From(w, x + 1)
    <3> HIDE DEF From
    <3>5. /\ a \in Seq(Int) /\ Len(a) = Len(w) - x
          /\ \A i \in 1 .. Len(w) - x : a[i] = w[i + x]
      BY <3>2
    <3>6. /\ b \in Seq(Int) /\ Len(b) = Len(w) - (x + 1)
          /\ \A i \in 1 .. Len(w) - (x + 1) : b[i] = w[i + (x + 1)]
      BY <3>3
    <3> HIDE DEF a, b
    <3>7. Len(a) = Len(b) + 1
      BY ONLY <3>4, <3>5, <3>6, x \in 0 .. k - 1, k \in Nat
    <3>8. a[1] = w[x + 1]
      BY ONLY <3>1, <3>4, <3>5
    <3>9. ASSUME NEW i \in 1 .. Len(b) PROVE a[i + 1] = b[i]
      <4>1. i \in 1 .. Len(w) - (x + 1)
        BY <3>6
      <4>2. i + 1 \in 1 .. Len(w) - x /\ (i + 1) + x = i + (x + 1)
        BY ONLY <3>4, <4>1
      <4> QED BY ONLY <3>5, <3>6, <4>1, <4>2
    <3> QED BY <3>5, <3>6, <3>7, <3>8, <3>9 DEF a, b
  <2> HIDE DEF From
  <2>4. From(s, x)[1] = From(t, x)[1]
    BY <2>1, <2>3
  <2>5. Distance(From(s, x), From(t, x)) = Distance(From(s, x + 1), From(t, x + 1))
    <3> DEFINE u == From(s, x)
               v == From(t, x)
               a == From(s, x + 1)
               b == From(t, x + 1)
    <3>1. AllBehindFirst(a, u)
      BY <2>3 DEF AllBehindFirst, BehindFirst
    <3>2. AllBehindFirst(b, v)
      BY <2>3 DEF AllBehindFirst, BehindFirst
    <3>3. u[1] = v[1]
      BY <2>4
    <3> HIDE DEF u, v, a, b
    <3>4. Distance(u, v) = Distance(a, b)
      BY ONLY <3>1, <3>2, <3>3, OneFront
    <3> QED BY <3>4 DEF u, v, a, b
  <2> QED BY <2>1, <2>2, <2>5
<1> HIDE DEF S
<1>3. k \in S
  BY <1>1, <1>2, UpTo
<1> QED BY <1>3 DEF S

\* The first h letters of u and s are the same.
Alike(u, s, h) == \A i \in 1 .. h : u[i] = s[i]

\* The matrix of beginnings is a part of the matrix.
LEMMA SmallerMatrix ==
    ASSUME NEW m \in Nat, NEW n \in Nat, NEW s, NEW t, NEW u, NEW v, NEW d, IsMatrix(d, s, t, m, n),
           NEW h \in 0 .. m, NEW l \in 0 .. n, Alike(u, s, h), Alike(v, t, l)
    PROVE  IsMatrix(d, u, v, h, l)
<1>1. ASSUME NEW i \in 1 .. h, NEW j \in 1 .. l PROVE Entry(d, u, v, i, j)
  <2>1. i \in 1 .. m /\ j \in 1 .. n /\ (i >= 2 => i - 1 \in 1 .. h) /\ (j >= 2 => j - 1 \in 1 .. l)
    OBVIOUS
  <2>2. Entry(d, s, t, i, j)
    BY <2>1 DEF IsMatrix
  <2>3. Cost(u[i], v[j]) = Cost(s[i], t[j]) /\ (Swapped(u, v, i, j) <=> Swapped(s, t, i, j))
    BY <2>1 DEF Cost, Swapped, Alike
  <2> QED BY <2>2, <2>3 DEF Entry
<1>2. (\A i \in 0 .. h : i \in 0 .. m) /\ (\A j \in 0 .. l : j \in 0 .. n)
  OBVIOUS
<1> QED BY <1>1, <1>2 DEF IsMatrix

\* An end that both words have costs nothing.
LEMMA BackCostsNothing ==
    ASSUME NEW s \in Seq(Int), NEW t \in Seq(Int),
           NEW k \in Nat, k <= Len(s), k <= Len(t), \A h \in 0 .. k - 1 : s[Len(s) - h] = t[Len(t) - h]
    PROVE  Distance(SubSeq(s, 1, Len(s) - k), SubSeq(t, 1, Len(t) - k)) = Distance(s, t)
<1> DEFINE m == Len(s)
           n == Len(t)
           u == SubSeq(s, 1, m - k)
           v == SubSeq(t, 1, n - k)
<1>1. PICK d : IsMatrix(d, s, t, m, n) /\ Distance(s, t) = d[<<m, n>>]
  BY DistanceIs
<1>2. m \in Nat /\ n \in Nat /\ k \in 0 .. m /\ k \in 0 .. n /\ m - k \in 0 .. m /\ n - k \in 0 .. n
  OBVIOUS
<1>3. u \in Seq(Int) /\ Len(u) = m - k /\ \A i \in 1 .. m - k : u[i] = s[i]
  BY <1>2, WithoutLast
<1>4. v \in Seq(Int) /\ Len(v) = n - k /\ \A i \in 1 .. n - k : v[i] = t[i]
  BY <1>2, WithoutLast
<1> HIDE DEF u, v, m, n
<1>5. IsMatrix(d, u, v, m - k, n - k)
  <2> DEFINE h == m - k
             l == n - k
  <2>1. h \in 0 .. m /\ l \in 0 .. n /\ Alike(u, s, h) /\ Alike(v, t, l)
    BY <1>2, <1>3, <1>4 DEF Alike
  <2> HIDE DEF h, l
  <2>2. IsMatrix(d, u, v, h, l)
    BY ONLY <1>1, <2>1, <1>2, SmallerMatrix
  <2> QED BY <2>2 DEF h, l
<1>6. Distance(u, v) = d[<<m - k, n - k>>]
  BY <1>3, <1>4, <1>5, LastCorner
<1>7. d[<<m - k, n - k>>] = d[<<m, n>>]
  <2>1. EndAlike(s, t, m, n, k)
    BY DEF m, n, EndAlike
  <2>2. k \in Nat /\ k <= m /\ k <= n
    BY <1>2
  <2>3. IsMatrix(d, s, t, m, n) /\ m \in Nat /\ n \in Nat
    BY <1>1, <1>2
  <2> QED BY ONLY <2>1, <2>2, <2>3, SameEnd
<1> QED BY <1>1, <1>6, <1>7 DEF u, v, m, n

\* The common beginning is one, and it is the same of t and s.
LEMMA CommonFront ==
    ASSUME NEW s \in Seq(Int), NEW t \in Seq(Int)
    PROVE  /\ Common(s, t, Front) \in Nat
           /\ Common(s, t, Front) <= Len(s) /\ Common(s, t, Front) <= Len(t)
           /\ \A i \in 1 .. Common(s, t, Front) : s[i] = t[i]
           /\ Common(t, s, Front) = Common(s, t, Front)
<1> DEFINE m == Smaller(Len(s), Len(t))
           Is(k) == /\ \A i \in 1 .. k : s[i] = t[i]
                    /\ k < m => s[k + 1] # t[k + 1]
           T == { k \in 0 .. m : k = m \/ s[k + 1] # t[k + 1] }
<1>1. m \in Nat /\ m <= Len(s) /\ m <= Len(t) /\ Smaller(Len(t), Len(s)) = m
  BY DEF Smaller
<1>2. Common(s, t, Front) = CHOOSE k \in 0 .. m : Is(k)
  BY DEF Common, Front
<1>3. Common(t, s, Front) = CHOOSE k \in 0 .. m : Is(k)
  <2>1. Common(t, s, Front) = CHOOSE k \in 0 .. Smaller(Len(t), Len(s)) :
                                  /\ \A i \in 1 .. k : t[i] = s[i]
                                  /\ k < Smaller(Len(t), Len(s)) => t[k + 1] # s[k + 1]
    BY DEF Common, Front
  <2>2. \A k : Is(k) <=> /\ \A i \in 1 .. k : t[i] = s[i]
                         /\ k < m => t[k + 1] # s[k + 1]
    OBVIOUS
  <2> HIDE DEF m, Is
  <2>3. Common(t, s, Front) = CHOOSE k \in 0 .. m :
                                  /\ \A i \in 1 .. k : t[i] = s[i]
                                  /\ k < m => t[k + 1] # s[k + 1]
    BY <1>1, <2>1
  <2> QED BY <2>2, <2>3
<1> HIDE DEF m
<1>4. T \subseteq Nat /\ m \in T
  BY <1>1
<1>5. PICK x \in T : \A y \in T : x <= y
  BY <1>4, Smallest
<1>6. x \in 0 .. m /\ Is(x)
  <2>1. x \in 0 .. m /\ (x < m => s[x + 1] # t[x + 1])
    BY <1>1
  <2>2. ASSUME NEW i \in 1 .. x PROVE s[i] = t[i]
    <3>1. i - 1 \in 0 .. m /\ i - 1 # m /\ (i - 1) + 1 = i /\ ~(x <= i - 1)
      BY <1>1, <2>1
    <3>2. i - 1 \notin T
      BY <1>5, <3>1
    <3> QED BY <3>1, <3>2
  <2> QED BY <2>1, <2>2
<1> DEFINE c == CHOOSE k \in 0 .. m : Is(k)
<1>7. c \in 0 .. m /\ Is(c)
  <2> HIDE DEF Is
  <2> QED BY <1>6
<1>8. Common(s, t, Front) = c /\ Common(t, s, Front) = c
  BY <1>2, <1>3
<1> HIDE DEF c
<1>9. c \in Nat /\ c <= Len(s) /\ c <= Len(t) /\ \A i \in 1 .. c : s[i] = t[i]
  BY <1>1, <1>7
<1> HIDE DEF Is
<1> QED BY <1>8, <1>9

\* The common end is one, and it is the same of t and s.
LEMMA CommonBack ==
    ASSUME NEW s \in Seq(Int), NEW t \in Seq(Int)
    PROVE  /\ Common(s, t, Back) \in Nat
           /\ Common(s, t, Back) <= Len(s) /\ Common(s, t, Back) <= Len(t)
           /\ EndAlike(s, t, Len(s), Len(t), Common(s, t, Back))
           /\ Common(t, s, Back) = Common(s, t, Back)
<1> DEFINE m == Smaller(Len(s), Len(t))
           Same(k) == s[Len(s) + 1 - k] = t[Len(t) + 1 - k]
           Is(k) == (\A i \in 1 .. k : Same(i)) /\ (k < m => ~Same(k + 1))
           T == { k \in 0 .. m : k = m \/ ~Same(k + 1) }
<1>1. m \in Nat /\ m <= Len(s) /\ m <= Len(t) /\ Smaller(Len(t), Len(s)) = m
  BY DEF Smaller
<1>2. Common(s, t, Back) = CHOOSE k \in 0 .. m : Is(k)
  BY DEF Common, Back
<1>3. Common(t, s, Back) = CHOOSE k \in 0 .. m : Is(k)
  <2> DEFINE Other(k) == t[Len(t) + 1 - k] = s[Len(s) + 1 - k]
  <2>1. Common(t, s, Back) = CHOOSE k \in 0 .. Smaller(Len(t), Len(s)) :
                                  /\ \A i \in 1 .. k : Other(i)
                                  /\ k < Smaller(Len(t), Len(s)) => ~Other(k + 1)
    BY DEF Common, Back
  <2>a. \A k : Same(k) <=> Other(k)
    OBVIOUS
  <2> HIDE DEF Same, Other, m
  <2>2. \A k : Is(k) <=> (\A i \in 1 .. k : Other(i)) /\ (k < m => ~Other(k + 1))
    BY <2>a
  <2> HIDE DEF Is
  <2>3. Common(t, s, Back) = CHOOSE k \in 0 .. m : (\A i \in 1 .. k : Other(i)) /\ (k < m => ~Other(k + 1))
    BY <1>1, <2>1
  <2> QED BY <2>2, <2>3
<1> HIDE DEF m, Same
<1>4. T \subseteq Nat /\ m \in T
  BY <1>1
<1>5. PICK x \in T : \A y \in T : x <= y
  BY <1>4, Smallest
<1>6. x \in 0 .. m /\ Is(x)
  <2>1. x \in 0 .. m /\ (x < m => ~Same(x + 1))
    BY <1>1
  <2>2. ASSUME NEW i \in 1 .. x PROVE Same(i)
    <3>1. i - 1 \in 0 .. m /\ i - 1 # m /\ (i - 1) + 1 = i /\ ~(x <= i - 1)
      BY <1>1, <2>1
    <3>2. i - 1 \notin T
      BY <1>5, <3>1
    <3> QED BY <3>1, <3>2
  <2> QED BY <2>1, <2>2
<1> DEFINE c == CHOOSE k \in 0 .. m : Is(k)
<1>7. c \in 0 .. m /\ Is(c)
  <2> HIDE DEF Is
  <2> QED BY <1>6
<1> HIDE DEF c
<1>8. EndAlike(s, t, Len(s), Len(t), c)
  <2>1. ASSUME NEW h \in 0 .. c - 1 PROVE s[Len(s) - h] = t[Len(t) - h]
    <3>1. h + 1 \in 1 .. c /\ Len(s) + 1 - (h + 1) = Len(s) - h /\ Len(t) + 1 - (h + 1) = Len(t) - h
      BY <1>1, <1>7
    <3>2. Same(h + 1)
      BY <1>7, <3>1
    <3> QED BY <3>1, <3>2 DEF Same
  <2> QED BY <2>1 DEF EndAlike
<1> HIDE DEF Is
<1> QED BY <1>1, <1>2, <1>3, <1>7, <1>8 DEF c

\* Taking off what two words have in common leaves their distance.
LEMMA DifferingKeeps ==
    ASSUME NEW u \in Seq(Int), NEW v \in Seq(Int)
    PROVE  /\ Differing(u, v) \in Seq(Int) /\ Differing(v, u) \in Seq(Int)
           /\ Distance(Differing(u, v), Differing(v, u)) = Distance(u, v)
<1> DEFINE k == Common(u, v, Front)
           a == SubSeq(u, k + 1, Len(u))
           b == SubSeq(v, k + 1, Len(v))
           l == Common(a, b, Back)
<1>1. /\ k \in Nat /\ k <= Len(u) /\ k <= Len(v) /\ (\A i \in 1 .. k : u[i] = v[i])
      /\ Common(v, u, Front) = k
  BY CommonFront
<1>a. Differing(u, v) = SubSeq(a, 1, Len(a) - l)
  BY DEF Differing
<1>b. Differing(v, u) = SubSeq(b, 1, Len(b) - Common(b, a, Back))
  BY <1>1 DEF Differing
<1> HIDE DEF k
<1>2. Distance(a, b) = Distance(u, v)
  BY ONLY <1>1, u \in Seq(Int), v \in Seq(Int), FrontCostsNothing
<1>3. a \in Seq(Int) /\ b \in Seq(Int)
  <2>1. k \in 0 .. Len(u) /\ k \in 0 .. Len(v)
    BY <1>1
  <2> QED BY <2>1, WithoutFirst
<1> HIDE DEF a, b
<1>4. /\ l \in Nat /\ l <= Len(a) /\ l <= Len(b) /\ EndAlike(a, b, Len(a), Len(b), l)
      /\ Common(b, a, Back) = l
  BY ONLY <1>3, CommonBack
<1> HIDE DEF l
<1>5. Distance(SubSeq(a, 1, Len(a) - l), SubSeq(b, 1, Len(b) - l)) = Distance(a, b)
  <2>1. \A h \in 0 .. l - 1 : a[Len(a) - h] = b[Len(b) - h]
    BY <1>4 DEF EndAlike
  <2> QED BY ONLY <1>3, <1>4, <2>1, BackCostsNothing
<1>6. SubSeq(a, 1, Len(a) - l) \in Seq(Int) /\ SubSeq(b, 1, Len(b) - l) \in Seq(Int)
  <2>1. l \in 0 .. Len(a) /\ l \in 0 .. Len(b)
    BY <1>3, <1>4
  <2> QED BY <1>3, <2>1, WithoutLast
<1> QED BY <1>a, <1>b, <1>2, <1>4, <1>5, <1>6

\* A distance is the difference of the lengths, at least.
LEMMA LengthsApart ==
    ASSUME NEW s \in Seq(Int), NEW t \in Seq(Int), Len(s) <= Len(t)
    PROVE  /\ Distance(s, t) \in Nat
           /\ Distance(s, t) >= Len(t) - Len(s)
           /\ Len(s) = 0 => Distance(s, t) = Len(t)
<1> DEFINE m == Len(s)
           n == Len(t)
<1>1. PICK d : IsMatrix(d, s, t, m, n) /\ Distance(s, t) = d[<<m, n>>]
  BY DistanceIs
<1>2. m \in Nat /\ n \in Nat /\ m <= n /\ m <= m /\ m - m = 0 /\ n - m \in 0 .. n /\ n \in 0 .. n /\ m \in 0 .. m
  OBVIOUS
<1> HIDE DEF m, n
<1>3. d[<<m - m, n - m>>] <= d[<<m, n>>]
  BY ONLY <1>1, <1>2, Diagonal
<1>4. d[<<0, n - m>>] = n - m /\ d[<<m, n>>] \in Nat /\ (m = 0 => d[<<m, n>>] = n)
  BY <1>1, <1>2 DEF IsMatrix
<1> QED BY <1>1, <1>2, <1>3, <1>4 DEF m, n

\* Below the limit a and d are the same number, and at the limit both are.
TellsBelow(a, d, limit) ==
    /\ d \in Nat /\ a \in Nat
    /\ IF d < limit THEN a = d ELSE a >= limit

\* Following the diagonal until it reaches the limit.
LEMMA AlongDiagonalTells ==
    ASSUME NEW s \in Seq(Int), NEW t \in Seq(Int), NEW limit \in Nat,
           Len(s) <= Len(t), Len(s) # 0
    PROVE  TellsBelow(AlongDiagonal(s, t, limit), Distance(s, t), limit)
<1> DEFINE m == Len(s)
           n == Len(t)
           d == Matrix(s, t)
           dif == n - m
           Stop(k) == k = m \/ d[<<k, dif + k>>] >= limit
           T == { k \in 1 .. m : Stop(k) }
           Is(k) == Stop(k) /\ \A h \in 1 .. k - 1 : d[<<h, dif + h>>] < limit
           c == CHOOSE k \in 1 .. m : Is(k)
<1>1. m \in Nat /\ n \in Nat /\ dif \in Nat /\ m \in 1 .. m /\ m + dif = n /\ dif + m = n
  OBVIOUS
<1>2. IsMatrix(d, s, t, m, n)
  BY MatrixIs
<1>3. AlongDiagonal(s, t, limit) = d[<<c, dif + c>>]
  BY DEF AlongDiagonal
<1>4. Distance(s, t) = d[<<m, n>>] /\ Distance(s, t) \in Nat
  BY <1>2, LastCorner
<1> HIDE DEF m, n, d, dif
<1>5. \A k \in 1 .. m : d[<<k, dif + k>>] \in Nat
  <2>1. \A k \in 1 .. m : k \in 0 .. m /\ dif + k \in 0 .. n
    BY <1>1
  <2> QED BY <1>2, <2>1 DEF IsMatrix
<1>6. c \in 1 .. m /\ Is(c)
  <2>1. T \subseteq Nat /\ m \in T
    BY <1>1
  <2>2. PICK x \in T : \A y \in T : x <= y
    BY <2>1, Smallest
  <2>3. ASSUME NEW h \in 1 .. x - 1 PROVE d[<<h, dif + h>>] < limit
    <3>1. x \in 1 .. m /\ h \in 1 .. m /\ ~(x <= h)
      BY <1>1
    <3>2. h \notin T
      BY <2>2, <3>1
    <3>3. ~(d[<<h, dif + h>>] >= limit)
      BY <3>1, <3>2
    <3> QED BY <1>5, <3>1, <3>3
  <2>4. x \in 1 .. m /\ Is(x)
    BY <2>3
  <2> HIDE DEF Is
  <2> QED BY <2>4
<1> HIDE DEF c
<1>7. d[<<c, dif + c>>] \in Nat
  BY <1>5, <1>6
<1>8. d[<<c, dif + c>>] <= d[<<m, n>>]
  <2> DEFINE k == m - c
  <2>1. k \in Nat /\ k <= m /\ k <= n /\ m - k = c /\ n - k = dif + c
    BY <1>1, <1>6
  <2> HIDE DEF k
  <2>2. d[<<m - k, n - k>>] <= d[<<m, n>>]
    BY ONLY <1>1, <1>2, <2>1, Diagonal
  <2> QED BY <2>1, <2>2
<1>9. c = m => d[<<c, dif + c>>] = d[<<m, n>>]
  BY <1>1
<1>10. c = m \/ d[<<c, dif + c>>] >= limit
  BY <1>6
<1> QED BY <1>3, <1>4, <1>7, <1>8, <1>9, <1>10 DEF TellsBelow

\* CalEditDistance, with the letters it leaves out, its look at the lengths and

\* the diagonal it stops on, tells every distance below the limit exactly.
LEMMA CalEditDistanceTells ==
    ASSUME NEW u \in Seq(Int), NEW v \in Seq(Int), NEW limit \in Nat
    PROVE  TellsBelow(CalEditDistance(u, v, limit), Distance(u, v), limit)
<1> DEFINE s == Differing(u, v)
           t == Differing(v, u)
           a == IF Len(t) < Len(s) THEN t ELSE s
           b == IF Len(t) < Len(s) THEN s ELSE t
<1>1. s \in Seq(Int) /\ t \in Seq(Int) /\ Distance(s, t) = Distance(u, v)
  BY DifferingKeeps
<1>2. CalEditDistance(u, v, limit) =
        IF Len(a) = 0 THEN Len(b)
        ELSE IF Len(b) - Len(a) >= limit THEN Len(b) - Len(a)
        ELSE AlongDiagonal(a, b, limit)
  BY DEF CalEditDistance
<1> HIDE DEF s, t
<1>3. a \in Seq(Int) /\ b \in Seq(Int) /\ Len(a) <= Len(b) /\ Len(a) \in Nat /\ Len(b) \in Nat
  BY <1>1
<1>4. Distance(a, b) = Distance(u, v)
  <2>1. Distance(t, s) = Distance(s, t)
    BY <1>1, DistanceBothWays
  <2> QED BY <1>1, <2>1
<1> HIDE DEF a, b
<1>5. /\ Distance(a, b) \in Nat
      /\ Distance(a, b) >= Len(b) - Len(a)
      /\ Len(a) = 0 => Distance(a, b) = Len(b)
  BY ONLY <1>3, LengthsApart
<1>6. CASE Len(a) = 0 \/ Len(b) - Len(a) >= limit
  BY <1>2, <1>3, <1>4, <1>5, <1>6 DEF TellsBelow
<1>7. CASE ~(Len(a) = 0 \/ Len(b) - Len(a) >= limit)
  <2>1. TellsBelow(AlongDiagonal(a, b, limit), Distance(a, b), limit)
    BY ONLY <1>3, <1>7, limit \in Nat, AlongDiagonalTells
  <2> QED BY <1>2, <1>4, <1>7, <2>1
<1> QED BY <1>6, <1>7
-----------------------------------------------------------------------------
(* The walk.                                                                *)

\* What a slot may hold.
Slot == {Empty} \cup { Kept(w, d) : w \in Words, d \in 0 .. iMaxFuzzyDistance - 1 }

Types ==
    /\ file \in Dictionaries
    /\ pc \in {"idle", "walk"}
    /\ pc = "walk" => str \in Queries
    /\ oFuzzystruct \in [Slots -> Slot]
    /\ iMaxDistance \in 0 .. iMaxFuzzyDistance
    /\ iLib \in 1 .. Libs + 1
    /\ index \in Nat \ {0}

\* The slots with a word, and how far the word of each is.
KeptSlots == { j \in Slots : oFuzzystruct[j].op = "word" }
DistanceOf(w) == Distances[<<Checked(w), str>>]

\* The three things NearestKept says of a walk, and that what the walk has
\* examined it has measured.
KeptOnce == \A j, k \in KeptSlots : oFuzzystruct[j].word = oFuzzystruct[k].word => j = k
KeptExactly == \A j \in KeptSlots : /\ oFuzzystruct[j].word \in Examined
                                    /\ oFuzzystruct[j].dist = DistanceOf(oFuzzystruct[j].word)
NoneNearer ==
    \A w \in Examined : \/ \E j \in KeptSlots : oFuzzystruct[j].word = w
                        \/ OtherLength(w, iMaxDistance)
                        \/ DistanceOf(w) >= Smaller(iMaxDistance, Len(str))
Measured == \A w \in Examined : w \in Words /\ DistanceOf(w) \in Nat

FuzzyInv ==
    /\ Types
    /\ SlotToReplace
    /\ pc = "walk" => KeptOnce /\ KeptExactly /\ NoneNearer /\ Measured
    /\ NearestFirst
-----------------------------------------------------------------------------
(* Slots. *)

\* The distance of a slot; only an empty one has the greatest.
LEMMA SlotFacts ==
    ASSUME NEW v \in Slot
    PROVE  /\ v.dist \in 0 .. iMaxFuzzyDistance
           /\ v.op = "word" => /\ v.dist < iMaxFuzzyDistance /\ v.word \in Words
                               /\ v.word \in Int
           /\ v.op \in {"word", "null"}
           /\ v.op = "null" => v.dist = iMaxFuzzyDistance
BY SizesAssumption, WordsAssumption DEF Slot, Empty, Kept

\* Some slot is the farthest.
LEMMA FarthestIs ==
    ASSUME NEW s \in [Slots -> Slot]
    PROVE  /\ \E j \in Slots : s[j].dist = Farthest(s)
           /\ \A j \in Slots : s[j].dist <= Farthest(s)
<1> DEFINE R == { x \in Slots \X Slots : s[x[1]].dist > s[x[2]].dist }
           n == reslist_size
<1>1. n \in Nat /\ n # 0 /\ Slots = 1 .. n
  BY SizesAssumption DEF Slots
<1>2. \A j \in Slots : s[j] \in Slot /\ s[j].dist \in Int
  BY SlotFacts
<1>3. \A i, j \in Slots : <<i, j>> \in R <=> s[i].dist > s[j].dist
  OBVIOUS
<1> HIDE DEF R, n
<1>4. \A i \in 1 .. n : <<i, i>> \notin R
  BY <1>1, <1>2, <1>3
<1>5. \A i, j, k \in 1 .. n : <<i, j>> \in R /\ <<j, k>> \in R => <<i, k>> \in R
  BY <1>1, <1>2, <1>3
<1>6. PICK f \in 1 .. n : \A i \in 1 .. n : <<i, f>> \notin R
  BY <1>1, <1>4, <1>5, FirstOfAll
<1>a. f \in Slots
  BY <1>1, <1>6
<1>b. ASSUME NEW i \in Slots PROVE s[i].dist <= s[f].dist
  <2>1. ~(s[i].dist > s[f].dist)
    BY <1>1, <1>3, <1>6, <1>a
  <2> QED
    BY <1>2, <1>a, <2>1
<1>7. f \in Slots /\ \A i \in Slots : s[i].dist <= s[f].dist
  BY <1>a, <1>b
<1>8. \E d \in { s[j].dist : j \in Slots } : \A j \in Slots : s[j].dist <= d
  BY <1>7
<1>9. /\ Farthest(s) \in { s[j].dist : j \in Slots }
      /\ \A j \in Slots : s[j].dist <= Farthest(s)
  BY <1>8 DEF Farthest
<1> QED
  BY <1>9

\* The slot that gives way is one of the farthest.
LEMMA ReplacedSlot ==
    ASSUME oFuzzystruct \in [Slots -> Slot], SlotToReplace
    PROVE  MaxDistanceAt \in Slots /\ oFuzzystruct[MaxDistanceAt].dist = iMaxDistance
<1> DEFINE far == { j \in Slots : oFuzzystruct[j].dist = iMaxDistance }
           R == { x \in Slots \X Slots : x[1] \in far /\ (x[2] \notin far \/ x[1] > x[2]) }
           n == reslist_size
<1>1. n \in Nat /\ n # 0 /\ Slots = 1 .. n
  BY SizesAssumption DEF Slots
<1>2. \A i, j \in Slots : <<i, j>> \in R <=> i \in far /\ (j \notin far \/ i > j)
  OBVIOUS
<1>3. far # {} /\ far \subseteq Slots
  BY DEF SlotToReplace
<1> HIDE DEF R, far, n
<1>4. \A i \in 1 .. n : <<i, i>> \notin R
  BY <1>1, <1>2
<1>5. \A i, j, k \in 1 .. n : <<i, j>> \in R /\ <<j, k>> \in R => <<i, k>> \in R
  BY <1>1, <1>2
<1>6. PICK f \in 1 .. n : \A i \in 1 .. n : <<i, f>> \notin R
  BY <1>1, <1>4, <1>5, FirstOfAll
<1>7. f \in far
  BY <1>1, <1>2, <1>3, <1>6
<1>8. ASSUME NEW k \in far PROVE k <= f
  <2>1. k \in Slots /\ f \in Slots /\ <<k, f>> \notin R
    BY <1>1, <1>3, <1>6
  <2>2. ~(k > f)
    BY <1>2, <2>1
  <2> QED
    BY <1>1, <2>1, <2>2
<1>9. MaxDistanceAt \in far
  BY <1>3, <1>7, <1>8 DEF MaxDistanceAt, far
<1> QED
  BY <1>9 DEF far

\* Before is an order.
LEMMA BeforeIsOrder ==
    ASSUME NEW a \in Slot, NEW b \in Slot, NEW c \in Slot
    PROVE  ~Before(a, a) /\ (Before(a, b) /\ Before(b, c) => Before(a, c))
<1>1. /\ a.dist \in Int /\ b.dist \in Int /\ c.dist \in Int
      /\ a.op = "word" => a.word \in Int
      /\ b.op = "word" => b.word \in Int
      /\ c.op = "word" => c.word \in Int
  <2>1. \A v \in Slot : v.dist \in Int /\ (v.op = "word" => v.word \in Int)
    BY SlotFacts
  <2> QED
    BY <2>1
<1>2. ~Before(a, a)
  BY <1>1 DEF Before
<1>3. ASSUME Before(a, b), Before(b, c) PROVE Before(a, c)
  <2>1. CASE a.dist < b.dist
    BY <1>1, <1>3, <2>1 DEF Before
  <2>2. CASE ~(a.dist < b.dist)
    <3>1. /\ a.dist = b.dist /\ a.op = "word" /\ b.op = "word"
          /\ a.word < b.word
      BY <1>3, <2>2 DEF Before
    <3>2. CASE b.dist < c.dist
      BY <3>1, <3>2 DEF Before
    <3>3. CASE ~(b.dist < c.dist)
      <4>1. b.dist = c.dist /\ c.op = "word" /\ b.word < c.word
        BY <1>3, <3>3 DEF Before
      <4>2. a.word < c.word
        BY <1>1, <3>1, <4>1
      <4> QED
        BY <3>1, <4>1, <4>2 DEF Before
    <3> QED
      BY <3>2, <3>3
  <2> QED
    BY <2>1, <2>2
<1> QED
  BY <1>2, <1>3

\* Sorting lines the slots up.
LEMMA SortedIs ==
    ASSUME NEW s \in [Slots -> Slot]
    PROVE  \E p \in [Slots -> Slots] :
              /\ \A i, j \in Slots : p[i] = p[j] => i = j
              /\ Sorted(s) = [j \in Slots |-> s[p[j]]]
              /\ \A i, j \in Slots : i < j => ~Before(Sorted(s)[j], Sorted(s)[i])
<1> DEFINE R == { x \in Slots \X Slots : Before(s[x[1]], s[x[2]]) }
           n == reslist_size
           Perms == { f \in [Slots -> Slots] : \A i, j \in Slots : f[i] = f[j] => i = j }
           Ways == { [j \in Slots |-> s[p[j]]] : p \in Perms }
<1>1. n \in Nat /\ Slots = 1 .. n
  BY SizesAssumption DEF Slots
<1>2. \A j \in Slots : s[j] \in Slot
  OBVIOUS
<1>3. \A i, j \in Slots : <<i, j>> \in R <=> Before(s[i], s[j])
  OBVIOUS
<1> HIDE DEF R, n
<1>4. \A i \in 1 .. n : <<i, i>> \notin R
  BY <1>1, <1>2, <1>3, BeforeIsOrder
<1>5. ASSUME NEW i \in 1 .. n, NEW j \in 1 .. n, NEW k \in 1 .. n,
             <<i, j>> \in R, <<j, k>> \in R
      PROVE  <<i, k>> \in R
  <2>1. i \in Slots /\ j \in Slots /\ k \in Slots
    BY <1>1
  <2>2. Before(s[i], s[j]) /\ Before(s[j], s[k])
    BY <1>3, <1>5, <2>1
  <2>3. Before(s[i], s[k])
    BY <1>2, <2>1, <2>2, BeforeIsOrder
  <2> QED
    BY <1>3, <2>1, <2>3
<1>6. PICK p \in [1 .. n -> 1 .. n] :
         /\ \A i, j \in 1 .. n : p[i] = p[j] => i = j
         /\ \A i, j \in 1 .. n : i < j => <<p[j], p[i]>> \notin R
  BY <1>1, <1>4, <1>5, Sortable
<1>7. p \in Perms
  BY <1>1, <1>6
<1>8. \A i, j \in Slots : i < j => ~Before(s[p[j]], s[p[i]])
  <2>1. \A i \in Slots : p[i] \in Slots
    BY <1>1
  <2> QED
    BY <1>1, <1>3, <1>6, <2>1
<1>9. \E w \in Ways : \A i, j \in Slots : i < j => ~Before(w[j], w[i])
  <2> DEFINE w == [j \in Slots |-> s[p[j]]]
  <2>1. w \in Ways
    BY <1>7
  <2>2. \A i, j \in Slots : i < j => ~Before(w[j], w[i])
    BY <1>8
  <2> QED
    BY <2>1, <2>2
<1>10. /\ Sorted(s) \in Ways
       /\ \A i, j \in Slots : i < j => ~Before(Sorted(s)[j], Sorted(s)[i])
  BY <1>9 DEF Sorted
<1> QED
  BY <1>10

\* The words come first, the nearest one before the others.
LEMMA SortedFirst ==
    ASSUME NEW s \in [Slots -> Slot]
    PROVE  /\ \A j \in Slots : s[j].op = "word" =>
                 \E k \in Slots : /\ Sorted(s)[k] = s[j]
                                  /\ \A i \in 1 .. k : Sorted(s)[i].op = "word"
           /\ \A j, k \in Slots : j < k => Sorted(s)[j].dist <= Sorted(s)[k].dist
<1>1. PICK p \in [Slots -> Slots] :
         /\ \A i, j \in Slots : p[i] = p[j] => i = j
         /\ Sorted(s) = [j \in Slots |-> s[p[j]]]
         /\ \A i, j \in Slots : i < j => ~Before(Sorted(s)[j], Sorted(s)[i])
  BY SortedIs
<1> DEFINE r == Sorted(s)
<1>2. \A j \in Slots : p[j] \in Slots /\ r[j] = s[p[j]] /\ r[j] \in Slot
  BY <1>1
<1>3. \A i, j \in Slots : i < j => ~Before(r[j], r[i])
  BY <1>1
<1>4. \A j \in Slots : \E k \in Slots : p[k] = j
  <2>1. p \in Injection(Slots, Slots)
    BY <1>1 DEF Injection, IsInjective
  <2>2. IsFiniteSet(Slots)
    BY FS_Interval, SizesAssumption DEF Slots
  <2>3. p \in Surjection(Slots, Slots)
    BY <2>1, <2>2, FS_Injection
  <2> QED
    BY <2>3 DEF Surjection
<1> HIDE DEF r
<1>5. \A j \in Slots : /\ r[j].dist \in Int
                      /\ (r[j].op = "word" => r[j].dist < iMaxFuzzyDistance)
                      /\ (r[j].op # "word" => r[j].dist = iMaxFuzzyDistance)
  BY <1>2, SlotFacts
<1>6. ASSUME NEW j \in Slots, s[j].op = "word"
      PROVE  \E k \in Slots : r[k] = s[j] /\ \A i \in 1 .. k : r[i].op = "word"
  <2>1. PICK k \in Slots : p[k] = j
    BY <1>4
  <2>2. r[k] = s[j] /\ r[k].op = "word"
    BY <1>2, <1>6, <2>1
  <2>3. ASSUME NEW i \in 1 .. k PROVE r[i].op = "word"
    <3>1. i \in Slots /\ (i = k \/ i < k)
      BY SizesAssumption DEF Slots
    <3>2. CASE i = k
      BY <2>2, <3>2
    <3>3. CASE i < k
      <4>1. ~(r[k].dist < r[i].dist)
        BY <1>3, <3>1, <3>3 DEF Before
      <4>2. /\ r[k].dist \in Int /\ r[k].dist < iMaxFuzzyDistance
            /\ r[i].dist \in Int /\ (r[i].op # "word" => r[i].dist = iMaxFuzzyDistance)
        BY <1>5, <2>2, <3>1
      <4> QED
        BY <4>1, <4>2, SizesAssumption
    <3> QED
      BY <3>1, <3>2, <3>3
  <2> QED
    BY <2>2, <2>3
<1>7. ASSUME NEW j \in Slots, NEW k \in Slots, j < k
      PROVE  r[j].dist <= r[k].dist
  <2>1. ~(r[k].dist < r[j].dist)
    BY <1>3, <1>7 DEF Before
  <2>2. r[j].dist \in Int /\ r[k].dist \in Int
    BY <1>5
  <2> QED
    BY <2>1, <2>2
<1> QED
  BY <1>6, <1>7 DEF r
-----------------------------------------------------------------------------
(* The walk. *)

\* The word the walk is at.
LEMMA Here ==
    ASSUME Types, InLib
    PROVE  /\ pc = "walk" /\ str \in Queries /\ Len(str) \in Nat
           /\ iLib \in 1 .. Libs /\ index \in 1 .. Len(file[iLib])
           /\ sCheck \in Words
<1>1. /\ pc = "walk" /\ str \in Queries
      /\ iLib \in 1 .. Libs /\ file \in [1 .. Libs -> Seq(Words) \ {<<>>}]
      /\ index \in Nat \ {0} /\ index <= Len(file[iLib])
  BY DictionariesAssumption DEF Types, InLib
<1>2. Len(str) \in Nat
  BY <1>1, QueriesAssumption
<1>3. file[iLib] \in Seq(Words)
  BY <1>1
<1>4. index \in 1 .. Len(file[iLib])
  BY <1>1, <1>3
<1>5. file[iLib][index] \in Words
  BY <1>3, <1>4
<1> QED
  BY <1>1, <1>2, <1>4, <1>5 DEF sCheck

\* Having examined it.
LEMMA WalksOn ==
    ASSUME Types, InLib, index' = index + 1, UNCHANGED <<file, iLib>>
    PROVE  Examined' = Examined \cup {sCheck}
<1>1. /\ iLib \in 1 .. Libs /\ index \in 1 .. Len(file[iLib])
      /\ Smaller(iLib, Libs) = iLib
      /\ \A l \in 1 .. iLib : Len(file[l]) \in Nat
  <2>1. iLib \in 1 .. Libs /\ index \in 1 .. Len(file[iLib]) /\ Libs \in Nat
    BY Here, DictionariesAssumption
  <2>2. file \in [1 .. Libs -> Seq(Words) \ {<<>>}]
    BY DictionariesAssumption DEF Types
  <2>3. Smaller(iLib, Libs) = iLib
    BY <2>1 DEF Smaller
  <2>4. ASSUME NEW l \in 1 .. iLib PROVE Len(file[l]) \in Nat
    <3>1. l \in 1 .. Libs
      BY <2>1
    <3>2. file[l] \in Seq(Words)
      BY <2>2, <3>1
    <3> QED
      BY <3>2
  <2> QED
    BY <2>1, <2>3, <2>4
<1>2. \A w : w \in Examined <=> \E l \in 1 .. iLib : \E i \in 1 .. Len(file[l]) :
                                   (l < iLib \/ i < index) /\ w = file[l][i]
  BY <1>1 DEF Examined
<1>3. \A w : w \in Examined' <=> \E l \in 1 .. iLib : \E i \in 1 .. Len(file[l]) :
                                   (l < iLib \/ i < index + 1) /\ w = file[l][i]
  BY <1>1 DEF Examined, Smaller
<1>4. ASSUME NEW w, w \in Examined PROVE w \in Examined'
  <2>1. PICK l \in 1 .. iLib : \E i \in 1 .. Len(file[l]) : (l < iLib \/ i < index) /\ w = file[l][i]
    BY <1>2, <1>4
  <2>1a. PICK i \in 1 .. Len(file[l]) : (l < iLib \/ i < index) /\ w = file[l][i]
    BY <2>1
  <2>2. l < iLib \/ i < index + 1
    BY <1>1, <2>1a
  <2> QED
    BY <1>3, <2>1a, <2>2
<1>5. sCheck \in Examined'
  <2>1. iLib \in 1 .. iLib /\ index < index + 1
    BY <1>1
  <2> QED
    BY <1>1, <1>3, <2>1 DEF sCheck
<1>6. ASSUME NEW w, w \in Examined', w \notin Examined PROVE w = sCheck
  <2>1. PICK l \in 1 .. iLib : \E i \in 1 .. Len(file[l]) : (l < iLib \/ i < index + 1) /\ w = file[l][i]
    BY <1>3, <1>6
  <2>1a. PICK i \in 1 .. Len(file[l]) : (l < iLib \/ i < index + 1) /\ w = file[l][i]
    BY <2>1
  <2>2. ~(l < iLib) /\ ~(i < index)
    BY <1>2, <1>6, <2>1a
  <2>3. l = iLib /\ i = index
    BY <1>1, <2>1a, <2>2
  <2> QED
    BY <2>1a, <2>3 DEF sCheck
<1> QED
  BY <1>4, <1>5, <1>6

\* The next dictionary has nothing examined yet.
LEMMA NextLibExamines ==
    ASSUME Types, NextLib
    PROVE  Examined' = Examined
<1>1. /\ iLib \in 1 .. Libs /\ Libs \in Nat /\ index \in Nat \ {0}
      /\ iLib' = iLib + 1 /\ index' = 1 /\ file' = file /\ index > Len(file[iLib])
      /\ Smaller(iLib, Libs) = iLib
      /\ file \in [1 .. Libs -> Seq(Words) \ {<<>>}]
  BY DictionariesAssumption DEF Types, NextLib, Smaller
<1>2. \A l \in 1 .. Libs : Len(file[l]) \in Nat
  <2>1. \A l \in 1 .. Libs : file[l] \in Seq(Words)
    BY <1>1
  <2> QED
    BY <2>1
<1>3. /\ Smaller(iLib + 1, Libs) \in 1 .. Libs
      /\ Smaller(iLib + 1, Libs) \in {iLib, iLib + 1}
  BY <1>1 DEF Smaller
<1> DEFINE top == Smaller(iLib + 1, Libs)
<1>4. \A w : w \in Examined <=> \E l \in 1 .. iLib : \E i \in 1 .. Len(file[l]) :
                                   (l < iLib \/ i < index) /\ w = file[l][i]
  BY <1>1 DEF Examined
<1>5. \A w : w \in Examined' <=> \E l \in 1 .. top : \E i \in 1 .. Len(file[l]) :
                                   (l < iLib + 1 \/ i < 1) /\ w = file[l][i]
  BY <1>1 DEF Examined, Smaller
<1>3a. top \in 1 .. Libs /\ top \in {iLib, iLib + 1}
  BY <1>3
<1> HIDE DEF top
<1>6. ASSUME NEW w, w \in Examined PROVE w \in Examined'
  <2>1. PICK l \in 1 .. iLib : \E i \in 1 .. Len(file[l]) : w = file[l][i]
    BY <1>4, <1>6
  <2>1a. PICK i \in 1 .. Len(file[l]) : w = file[l][i]
    BY <2>1
  <2>2. l \in 1 .. top /\ l < iLib + 1
    BY <1>1, <1>3a
  <2> QED
    BY <1>5, <2>1a, <2>2
<1>7. ASSUME NEW w, w \in Examined' PROVE w \in Examined
  <2>1. PICK l \in 1 .. top : \E i \in 1 .. Len(file[l]) : (l < iLib + 1 \/ i < 1) /\ w = file[l][i]
    BY <1>5, <1>7
  <2>1a. PICK i \in 1 .. Len(file[l]) : (l < iLib + 1 \/ i < 1) /\ w = file[l][i]
    BY <2>1
  <2>2. l \in 1 .. iLib /\ l \in 1 .. Libs
    BY <1>1, <1>2, <1>3a, <2>1a
  <2>3. l < iLib \/ i < index
    BY <1>1, <1>2, <2>1a, <2>2
  <2> QED
    BY <1>4, <2>1a, <2>2, <2>3
<1> QED
  BY <1>6, <1>7

\* Below the limit the distance is told exactly.
LEMMA Measures ==
    ASSUME DistanceExact, InLib, iMaxDistance \in Int
    PROVE  /\ DistanceOf(sCheck) \in Nat /\ iDistance \in Nat
           /\ iDistance < iMaxDistance => iDistance = DistanceOf(sCheck)
           /\ ~(iDistance < iMaxDistance) => DistanceOf(sCheck) >= iMaxDistance
<1> DEFINE d == DistanceOf(sCheck)
<1>1. /\ d \in Nat /\ iDistance \in Nat
      /\ IF d < iMaxDistance THEN iDistance = d ELSE iDistance >= iMaxDistance
  BY DEF DistanceExact, DistanceOf
<1> HIDE DEF d
<1>2. /\ iDistance < iMaxDistance => iDistance = d
      /\ ~(iDistance < iMaxDistance) => d >= iMaxDistance
  BY <1>1
<1> QED
  BY <1>1, <1>2 DEF d

\* NearestKept in its parts.
LEMMA NearestKeptIs ==
    NearestKept <=> (pc = "walk" => KeptOnce /\ KeptExactly /\ NoneNearer)
BY DEF NearestKept, KeptOnce, KeptExactly, NoneNearer, KeptSlots, DistanceOf

\* A word that is not taken is not nearer, or it is there already.
LEMMA PassedOver ==
    ASSUME FuzzyInv, InLib, DistanceExact, ~Near \/ AlreadyInList, index' = index + 1,
           UNCHANGED <<file, pc, str, oFuzzystruct, iMaxDistance, iLib, reslist>>
    PROVE  FuzzyInv'
<1>1. /\ pc = "walk" /\ Len(str) \in Nat /\ sCheck \in Words /\ iMaxDistance \in Nat
      /\ KeptOnce /\ KeptExactly /\ NoneNearer /\ Measured
  BY Here DEF FuzzyInv, Types
<1>2. Examined' = Examined \cup {sCheck}
  BY WalksOn DEF FuzzyInv
<1>3. /\ DistanceOf(sCheck) \in Nat /\ iDistance \in Nat
      /\ iDistance < iMaxDistance => iDistance = DistanceOf(sCheck)
      /\ ~(iDistance < iMaxDistance) => DistanceOf(sCheck) >= iMaxDistance
  BY <1>1, Measures
<1>4. /\ \A w : DistanceOf(w)' = DistanceOf(w)
      /\ \A w, n : OtherLength(w, n)' = OtherLength(w, n)
      /\ KeptSlots' = KeptSlots
      /\ str' = str /\ oFuzzystruct' = oFuzzystruct /\ iMaxDistance' = iMaxDistance
  BY DEF DistanceOf, Checked, OtherLength, KeptSlots
<1>5. Types'
  BY DEF FuzzyInv, Types
<1>6. KeptOnce'
  BY <1>1, <1>4 DEF KeptOnce
<1>7. KeptExactly'
  BY <1>1, <1>2, <1>4 DEF KeptExactly
<1>8. Measured'
  BY <1>1, <1>2, <1>3, <1>4 DEF Measured
<1>9. \/ \E j \in KeptSlots : oFuzzystruct[j].word = sCheck
      \/ OtherLength(sCheck, iMaxDistance)
      \/ DistanceOf(sCheck) >= Smaller(iMaxDistance, Len(str))
  <2>1. CASE AlreadyInList
    BY <2>1 DEF AlreadyInList, KeptSlots
  <2>2. CASE ~Near /\ ~OtherLength(sCheck, iMaxDistance)
    <3>1. ~(iDistance < iMaxDistance) \/ ~(iDistance < Len(str))
      BY <2>2 DEF Near
    <3> DEFINE d == DistanceOf(sCheck)
    <3>2. d \in Nat /\ (d >= iMaxDistance \/ d >= Len(str))
      BY <1>1, <1>3, <3>1
    <3>3. d >= Smaller(iMaxDistance, Len(str))
      BY <1>1, <3>2 DEF Smaller
    <3> QED
      BY <3>3
  <2> QED
    BY <2>1, <2>2
<1>10. NoneNearer'
  <2>1. ASSUME NEW w \in Examined'
        PROVE  \/ \E j \in KeptSlots : oFuzzystruct[j].word = w
               \/ OtherLength(w, iMaxDistance)
               \/ DistanceOf(w) >= Smaller(iMaxDistance, Len(str))
    <3>1. CASE w = sCheck
      BY <1>9, <3>1
    <3>2. CASE w \in Examined
      BY <1>1, <3>2 DEF NoneNearer
    <3> QED
      BY <1>2, <3>1, <3>2
  <2> QED
    BY <1>4, <2>1 DEF NoneNearer, OtherLength
<1>11. SlotToReplace'
  BY <1>4 DEF FuzzyInv, SlotToReplace
<1>12. NearestFirst'
  BY <1>1 DEF NearestFirst
<1> QED
  BY <1>5, <1>6, <1>7, <1>8, <1>10, <1>11, <1>12 DEF FuzzyInv

\* A word is taken in the place of one of the farthest.
LEMMA TakenIn ==
    ASSUME FuzzyInv, DistanceExact, Keep
    PROVE  FuzzyInv'
<1> DEFINE m == MaxDistanceAt
           new == Kept(sCheck, iDistance)
           limit == Farthest(oFuzzystruct')
<1>1. /\ InLib /\ pc = "walk" /\ pc' = "walk" /\ Near /\ ~AlreadyInList
      /\ oFuzzystruct \in [Slots -> Slot] /\ iMaxDistance \in 0 .. iMaxFuzzyDistance
      /\ oFuzzystruct' = [oFuzzystruct EXCEPT ![m] = new]
      /\ iMaxDistance' = limit
      /\ index' = index + 1 /\ UNCHANGED <<file, pc, str, iLib, reslist>>
      /\ KeptOnce /\ KeptExactly /\ NoneNearer /\ Measured
      /\ SlotToReplace /\ Types /\ iMaxDistance \in Int
  BY SizesAssumption DEF FuzzyInv, Types, Keep, InLib
<1>2. sCheck \in Words /\ Len(str) \in Nat
  BY <1>1, Here
<1>3. Examined' = Examined \cup {sCheck}
  BY <1>1, WalksOn
<1>4. /\ iDistance \in Nat /\ iDistance = DistanceOf(sCheck)
      /\ iDistance < iMaxDistance /\ iDistance \in 0 .. iMaxFuzzyDistance - 1
  <2>1. iDistance < iMaxDistance
    BY <1>1 DEF Near
  <2>2. iDistance \in Nat /\ iDistance = DistanceOf(sCheck)
    BY <1>1, <2>1, Measures
  <2> QED
    BY <1>1, <2>1, <2>2, SizesAssumption
<1>5. /\ new \in Slot /\ new.op = "word" /\ new.word = sCheck /\ new.dist = iDistance
  BY <1>2, <1>4 DEF Slot, Kept
<1>6. m \in Slots /\ oFuzzystruct[m].dist = iMaxDistance
  BY <1>1, ReplacedSlot
<1> HIDE DEF m, new
<1>7. /\ oFuzzystruct' \in [Slots -> Slot]
      /\ \A j \in Slots : oFuzzystruct'[j] = IF j = m THEN new ELSE oFuzzystruct[j]
  BY <1>1, <1>5, <1>6
<1>8. /\ \E j \in Slots : oFuzzystruct'[j].dist = limit
      /\ \A j \in Slots : oFuzzystruct'[j].dist <= limit
  <2> DEFINE s == oFuzzystruct'
  <2>1. s \in [Slots -> Slot]
    BY <1>7
  <2> HIDE DEF s
  <2>2. /\ \E j \in Slots : s[j].dist = Farthest(s)
        /\ \A j \in Slots : s[j].dist <= Farthest(s)
    BY <2>1, FarthestIs
  <2> QED
    BY <2>2 DEF s
<1> HIDE DEF limit
<1>9. SlotToReplace'
  BY <1>1, <1>8 DEF SlotToReplace, Slots
<1>10. limit \in 0 .. iMaxFuzzyDistance /\ limit <= iMaxDistance
  <2>1. PICK j \in Slots : oFuzzystruct'[j].dist = limit
    BY <1>8
  <2>2. oFuzzystruct'[j].dist \in 0 .. iMaxFuzzyDistance
    <3>1. oFuzzystruct'[j] \in Slot
      BY <1>7
    <3> QED
      BY <3>1, SlotFacts
  <2>3. \A k \in Slots : oFuzzystruct[k].dist <= iMaxDistance
    BY <1>1 DEF SlotToReplace
  <2>4. oFuzzystruct'[j].dist <= iMaxDistance
    BY <1>4, <1>5, <1>7, <2>3, <1>1
  <2> QED
    BY <2>1, <2>2, <2>4
<1>11. /\ \A w : DistanceOf(w)' = DistanceOf(w)
       /\ \A w, n : OtherLength(w, n)' = OtherLength(w, n)
  BY <1>1 DEF DistanceOf, Checked, OtherLength
<1>12. /\ KeptSlots' = KeptSlots \cup {m}
       /\ KeptSlots \subseteq Slots
       /\ \A j \in KeptSlots : oFuzzystruct[j].word # sCheck
  <2>1. KeptSlots' = { j \in Slots : oFuzzystruct'[j].op = "word" }
    BY DEF KeptSlots, Slots
  <2>2. \A j : j \in KeptSlots' <=> j \in KeptSlots \/ j = m
    BY <2>1, <1>5, <1>6, <1>7 DEF KeptSlots
  <2>3. \A j \in KeptSlots : j \in Slots /\ oFuzzystruct[j].word # sCheck
    BY <1>1 DEF KeptSlots, AlreadyInList
  <2> QED
    BY <2>2, <2>3
<1>13. /\ oFuzzystruct'[m].word = sCheck /\ oFuzzystruct'[m].dist = DistanceOf(sCheck)
       /\ \A j \in KeptSlots : j # m => oFuzzystruct'[j] = oFuzzystruct[j]
  BY <1>4, <1>5, <1>6, <1>7, <1>12
<1>14. Types'
  BY <1>1, <1>7, <1>10, <1>2 DEF Types, Slots, Slot, Empty, Kept
<1>15. KeptOnce'
  <2>1. ASSUME NEW j \in KeptSlots', NEW k \in KeptSlots',
               oFuzzystruct'[j].word = oFuzzystruct'[k].word
        PROVE  j = k
    BY <2>1, <1>1, <1>12, <1>13 DEF KeptOnce
  <2> QED
    BY <2>1 DEF KeptOnce
<1>16. KeptExactly'
  <2>1. ASSUME NEW j \in KeptSlots'
        PROVE  /\ oFuzzystruct'[j].word \in Examined'
               /\ oFuzzystruct'[j].dist = DistanceOf(oFuzzystruct'[j].word)
    BY <1>1, <1>3, <1>12, <1>13 DEF KeptExactly
  <2>2. \A j \in KeptSlots' : DistanceOf(oFuzzystruct[j].word)' = DistanceOf(oFuzzystruct'[j].word)
    BY <1>1 DEF DistanceOf, Checked
  <2> QED
    BY <2>1, <2>2 DEF KeptExactly
<1>17. Measured'
  BY <1>1, <1>2, <1>3, <1>4, <1>11 DEF Measured
<1>18. NoneNearer'
  <2>1. ASSUME NEW w \in Examined', \A j \in KeptSlots' : oFuzzystruct'[j].word # w,
               ~OtherLength(w, limit)
        PROVE  DistanceOf(w) >= Smaller(limit, Len(str))
    <3>1. w \in Examined /\ w # sCheck
      BY <1>3, <1>12, <1>13, <2>1
    <3> DEFINE d == DistanceOf(w)
    <3>2. w \in Words /\ d \in Nat
      BY <1>1, <3>1 DEF Measured
    <3>3. CASE \E j \in KeptSlots : oFuzzystruct[j].word = w
      <4>1. m \in KeptSlots /\ oFuzzystruct[m].word = w
        BY <1>12, <1>13, <2>1, <3>3
      <4>2. d = iMaxDistance
        BY <1>1, <1>6, <4>1 DEF KeptExactly
      <4> HIDE DEF d
      <4>3. d >= Smaller(limit, Len(str))
        BY <1>1, <1>2, <1>10, <3>2, <4>2 DEF Smaller
      <4> QED
        BY <4>3 DEF d
    <3>4. CASE ~(\E j \in KeptSlots : oFuzzystruct[j].word = w)
      <4>1. OtherLength(w, iMaxDistance) \/ d >= Smaller(iMaxDistance, Len(str))
        BY <1>1, <3>1, <3>4 DEF NoneNearer
      <4>2. ~OtherLength(w, iMaxDistance)
        <5>1. Len(Spelling[w]) \in Nat
          <6>1. Spelling[w] \in Seq(Int)
            BY <3>2, WordsAssumption
          <6> QED
            BY <6>1
        <5> QED
          BY <1>1, <1>2, <1>10, <2>1, <5>1 DEF OtherLength
      <4> HIDE DEF d
      <4>3. d >= Smaller(limit, Len(str))
        BY <1>1, <1>2, <1>10, <3>2, <4>1, <4>2 DEF Smaller
      <4> QED
        BY <4>3 DEF d
    <3> QED
      BY <3>3, <3>4
  <2>2. \A w \in Examined' : \/ \E j \in KeptSlots' : oFuzzystruct'[j].word = w
                             \/ OtherLength(w, limit)
                             \/ DistanceOf(w) >= Smaller(limit, Len(str))
    BY <2>1
  <2>3. /\ iMaxDistance' = limit /\ str' = str
        /\ \A w : DistanceOf(w)' = DistanceOf(w)
        /\ \A w : OtherLength(w, iMaxDistance)' <=> OtherLength(w, limit)
    BY <1>1, <1>11 DEF OtherLength
  <2> QED
    BY <2>2, <2>3 DEF NoneNearer
<1>19. NearestFirst'
  BY <1>1 DEF NearestFirst
<1> QED
  BY <1>9, <1>14, <1>15, <1>16, <1>17, <1>18, <1>19 DEF FuzzyInv
-----------------------------------------------------------------------------
(* The search. *)

\* Slots without a word, as a search begins.
LEMMA EmptySlots ==
    ASSUME NEW s, s = [j \in Slots |-> Empty]
    PROVE  /\ s \in [Slots -> Slot]
           /\ \A j \in Slots : s[j].op = "null" /\ s[j].dist = iMaxFuzzyDistance
           /\ 1 \in Slots
BY SizesAssumption DEF Slot, Empty, Slots

LEMMA FuzzyInitInv == Init => FuzzyInv
<1> SUFFICES ASSUME Init PROVE FuzzyInv
  OBVIOUS
<1>1. /\ oFuzzystruct \in [Slots -> Slot] /\ 1 \in Slots
      /\ \A j \in Slots : oFuzzystruct[j].dist = iMaxFuzzyDistance
  BY EmptySlots DEF Init
<1>2. Types
  BY <1>1, DictionariesAssumption, SizesAssumption DEF Init, Types
<1>3. SlotToReplace
  BY <1>1, SizesAssumption DEF Init, SlotToReplace
<1>4. pc = "idle" /\ Found = FALSE
  BY DEF Init
<1> QED
  BY <1>2, <1>3, <1>4 DEF FuzzyInv, NearestFirst

LEMMA CallInv ==
    ASSUME FuzzyInv, NEW q \in Queries, Call(q)
    PROVE  FuzzyInv'
<1>1. /\ oFuzzystruct' \in [Slots -> Slot] /\ 1 \in Slots
      /\ \A j \in Slots : /\ oFuzzystruct'[j].dist = iMaxFuzzyDistance
                          /\ oFuzzystruct'[j].op = "null"
  BY EmptySlots DEF Call
<1>2. Types'
  BY <1>1, DictionariesAssumption, SizesAssumption DEF Call, FuzzyInv, Types, Slots, Slot, Empty, Kept
<1>3. SlotToReplace'
  BY <1>1, SizesAssumption DEF Call, SlotToReplace, Slots
<1>4. KeptSlots' = {}
  BY <1>1 DEF KeptSlots, Slots
<1>5. Examined' = {}
  <2>1. /\ iLib' = 1 /\ index' = 1 /\ file' = file /\ Libs \in Nat \ {0}
        /\ file \in [1 .. Libs -> Seq(Words) \ {<<>>}]
    BY DictionariesAssumption DEF Call, FuzzyInv, Types
  <2>2. Smaller(1, Libs) = 1
    BY <2>1 DEF Smaller
  <2>3. \A w : w \in Examined' <=> \E l \in 1 .. 1 : \E i \in 1 .. Len(file[l]) :
                                     (l < 1 \/ i < 1) /\ w = file[l][i]
    BY <2>1, <2>2 DEF Examined, Smaller
  <2>4. file[1] \in Seq(Words)
    BY <2>1
  <2>5. Len(file[1]) \in Nat
    BY <2>4
  <2>6. \A l \in 1 .. 1 : l = 1
    OBVIOUS
  <2> QED
    BY <2>3, <2>5, <2>6
<1>6. KeptOnce' /\ KeptExactly' /\ NoneNearer' /\ Measured'
  BY <1>4, <1>5 DEF KeptOnce, KeptExactly, NoneNearer, Measured
<1>7. NearestFirst'
  BY DEF Call, NearestFirst
<1> QED
  BY <1>2, <1>3, <1>6, <1>7 DEF FuzzyInv

\* The walk goes on in the next dictionary.
LEMMA NextLibInv ==
    ASSUME FuzzyInv, NextLib
    PROVE  FuzzyInv'
<1>1. Examined' = Examined
  BY NextLibExamines DEF FuzzyInv
<1>2. Types'
  BY DictionariesAssumption DEF FuzzyInv, Types, NextLib, Slots, Slot, Empty, Kept
<1>3. /\ \A w : DistanceOf(w)' = DistanceOf(w)
      /\ \A w, n : OtherLength(w, n)' = OtherLength(w, n)
      /\ KeptSlots' = KeptSlots
      /\ str' = str /\ oFuzzystruct' = oFuzzystruct /\ iMaxDistance' = iMaxDistance
      /\ pc = "walk" /\ pc' = "walk"
  BY DEF NextLib, DistanceOf, Checked, OtherLength, KeptSlots
<1>4. KeptOnce /\ KeptExactly /\ NoneNearer /\ Measured /\ SlotToReplace
  BY <1>3 DEF FuzzyInv
<1>5. KeptOnce' /\ KeptExactly'
  BY <1>1, <1>3, <1>4 DEF KeptOnce, KeptExactly
<1>6. Measured'
  BY <1>1, <1>3, <1>4 DEF Measured
<1>7. NoneNearer'
  BY <1>1, <1>3, <1>4 DEF NoneNearer, OtherLength
<1>8. SlotToReplace'
  BY <1>3, <1>4 DEF SlotToReplace
<1>9. NearestFirst'
  BY <1>3 DEF NearestFirst
<1> QED
  BY <1>2, <1>5, <1>6, <1>7, <1>8, <1>9 DEF FuzzyInv

\* The answer is given.
LEMMA ReturnInv ==
    ASSUME FuzzyInv, Return
    PROVE  FuzzyInv'
<1>1. /\ pc' = "idle" /\ UNCHANGED <<file, str, walk, Found>>
      /\ oFuzzystruct \in [Slots -> Slot] /\ oFuzzystruct' = oFuzzystruct
      /\ reslist' = IF Found THEN Sorted(oFuzzystruct) ELSE oFuzzystruct
      /\ SlotToReplace /\ Types
  BY DEF FuzzyInv, Types, Return, walk
<1>2. Types' /\ SlotToReplace'
  BY <1>1 DEF Types, SlotToReplace, walk
<1>3. NearestFirst'
  <2> SUFFICES ASSUME Found' PROVE NearestFirst'
    BY DEF NearestFirst
  <2>1. reslist' = Sorted(oFuzzystruct)
    BY <1>1
  <2>2. /\ \A j \in Slots : oFuzzystruct[j].op = "word" =>
              \E k \in Slots : /\ Sorted(oFuzzystruct)[k] = oFuzzystruct[j]
                               /\ \A i \in 1 .. k : Sorted(oFuzzystruct)[i].op = "word"
        /\ \A j, k \in Slots : j < k => Sorted(oFuzzystruct)[j].dist <= Sorted(oFuzzystruct)[k].dist
    BY <1>1, SortedFirst
  <2> QED
    BY <1>1, <2>1, <2>2 DEF NearestFirst
<1> QED
  BY <1>1, <1>2, <1>3 DEF FuzzyInv

\* Nothing that the invariant speaks of has changed.
LEMMA FuzzyStutter ==
    ASSUME FuzzyInv, UNCHANGED vars
    PROVE  FuzzyInv'
<1>1. /\ \A w : DistanceOf(w)' = DistanceOf(w)
      /\ \A w, n : OtherLength(w, n)' = OtherLength(w, n)
      /\ KeptSlots' = KeptSlots /\ Examined' = Examined
      /\ str' = str /\ oFuzzystruct' = oFuzzystruct /\ iMaxDistance' = iMaxDistance
      /\ pc' = pc
  BY DEF vars, walk, DistanceOf, Checked, OtherLength, KeptSlots, Examined
<1>2. Types' /\ SlotToReplace' /\ NearestFirst'
  BY DEF FuzzyInv, vars, walk, Types, SlotToReplace, NearestFirst
<1>3. ASSUME pc' = "walk" PROVE KeptOnce' /\ KeptExactly' /\ NoneNearer' /\ Measured'
  <2>1. KeptOnce /\ KeptExactly /\ NoneNearer /\ Measured
    BY <1>1, <1>3 DEF FuzzyInv
  <2>2. KeptOnce' /\ KeptExactly'
    BY <1>1, <2>1 DEF KeptOnce, KeptExactly
  <2>3. Measured'
    BY <1>1, <2>1 DEF Measured
  <2>4. NoneNearer'
    BY <1>1, <2>1 DEF NoneNearer, OtherLength
  <2> QED
    BY <2>2, <2>3, <2>4
<1> QED
  BY <1>2, <1>3 DEF FuzzyInv

LEMMA FuzzyNextInv ==
    ASSUME FuzzyInv, DistanceExact, [Next]_vars
    PROVE  FuzzyInv'
<1>1. CASE \E q \in Queries : Call(q)
  BY <1>1, CallInv
<1>2. CASE CallEmpty
  <2>1. Types' /\ SlotToReplace'
    BY <1>2 DEF FuzzyInv, CallEmpty, walk, Types, SlotToReplace
  <2>2. pc' = "idle" /\ NearestFirst'
    BY <1>2 DEF CallEmpty, NearestFirst
  <2> QED
    BY <2>1, <2>2 DEF FuzzyInv
<1>3. CASE Skip
  BY <1>3, PassedOver DEF Skip
<1>4. CASE SkipKnown
  <2>1. \/ Found' = TRUE
        \/ Found' = Found
    BY <1>4 DEF SkipKnown
  <2> QED
    BY <1>4, PassedOver DEF SkipKnown
<1>5. CASE Keep
  BY <1>5, TakenIn
<1>6. CASE NextLib
  BY <1>6, NextLibInv
<1>7. CASE Return
  BY <1>7, ReturnInv
<1>8. CASE UNCHANGED vars
  BY <1>8, FuzzyStutter
<1> QED
  BY <1>1, <1>2, <1>3, <1>4, <1>5, <1>6, <1>7, <1>8 DEF Next, Step

\* The tables hold what they tabulate.
LEMMA TabulatedIs ==
    ASSUME NEW f
    PROVE  Tabulated(f) = f
BY DEF Tabulated

\* What is compared is a beginning of a word of the dictionaries, and a query.
LEMMA ExactDistance ==
    ASSUME FuzzyInv
    PROVE  DistanceExact
<1> SUFFICES ASSUME InLib PROVE DistanceExact
  BY DEF DistanceExact
<1> DEFINE c == Checked(sCheck)
           x == <<c, str, iMaxDistance>>
           y == <<c, str>>
<1>1. /\ file \in [1 .. Libs -> Seq(Words) \ {<<>>}] /\ str \in Queries
      /\ iMaxDistance \in 0 .. iMaxFuzzyDistance /\ iLib \in 1 .. Libs /\ index \in 1 .. Len(file[iLib])
  BY DictionariesAssumption, SizesAssumption DEF FuzzyInv, Types, InLib
<1>2. sCheck \in Words
  <2>1. file[iLib] \in Seq(Words)
    BY <1>1
  <2> QED BY <1>1, <2>1 DEF sCheck
<1>3. str \in Seq(Int) /\ Spelling[sCheck] \in Seq(Int)
  BY <1>1, <1>2, QueriesAssumption, WordsAssumption
<1>4. Smaller(Len(Spelling[sCheck]), Len(str)) \in 0 .. Len(Spelling[sCheck])
  BY <1>3 DEF Smaller
<1>5. c \in Beginnings
  BY <1>2, <1>4 DEF Beginnings, Checked
<1>6. c \in Seq(Int)
  BY <1>3, <1>4 DEF Checked
<1> HIDE DEF c
<1>7. x \in Beginnings \X Queries \X (0 .. iMaxFuzzyDistance) /\ y \in Beginnings \X Queries
  BY <1>1, <1>5
<1>8. iDistance = CalEditDistance(c, str, iMaxDistance)
  <2>1. EditDistances = [z \in Beginnings \X Queries \X (0 .. iMaxFuzzyDistance) |->
                            CalEditDistance(z[1], z[2], z[3])]
    BY TabulatedIs DEF EditDistances
  <2>2. EditDistances[x] = CalEditDistance(x[1], x[2], x[3])
    BY <1>7, <2>1
  <2> QED BY <2>2 DEF iDistance, c
<1>9. Distances[y] = Distance(c, str)
  <2>1. Distances = [z \in Beginnings \X Queries |-> Distance(z[1], z[2])]
    BY TabulatedIs DEF Distances
  <2>2. Distances[y] = Distance(y[1], y[2])
    BY <1>7, <2>1
  <2> QED BY <2>2
<1>10. TellsBelow(CalEditDistance(c, str, iMaxDistance), Distance(c, str), iMaxDistance)
  <2>1. iMaxDistance \in Nat
    BY <1>1, SizesAssumption
  <2> QED BY <1>3, <1>6, <2>1, CalEditDistanceTells
<1> QED BY <1>8, <1>9, <1>10 DEF DistanceExact, TellsBelow, c

\* FuzzyInv, the invariant behind the four below, holds on every walk of LookupWithFuzzy.
THEOREM FuzzyInvariance == Spec => []FuzzyInv
<1>1. FuzzyInv /\ [Next]_vars => FuzzyInv'
  BY ExactDistance, FuzzyNextInv
<1> QED
  BY <1>1, FuzzyInitInv, PTL DEF Spec

\* CalEditDistance, with its shortcuts (equal beginnings and ends left out, the
\* lengths compared first, the matrix left when its diagonal reaches the limit), tells a
\* distance below the limit exactly and takes no other for one below it.
THEOREM DistancesAreExact == Spec => []DistanceExact
<1> QED
  BY ExactDistance, FuzzyInvariance, PTL

\* "it will certainly be found": there always is a slot at iMaxDistance, and
\* no slot is farther.
THEOREM SlotIsFound == Spec => []SlotToReplace
<1>1. FuzzyInv => SlotToReplace
  BY DEF FuzzyInv
<1> QED
  BY <1>1, FuzzyInvariance, PTL

\* Whatever the order of the words in whatever dictionaries, no word the walk
\* has passed is nearer than the farthest one it keeps.
THEOREM NearestStay == Spec => []NearestKept
<1>1. FuzzyInv => NearestKept
  BY NearestKeptIs DEF FuzzyInv
<1> QED
  BY <1>1, FuzzyInvariance, PTL

\* The caller, who stops at the first slot without a word, has every word that
\* was kept, the nearest first.
THEOREM NearestComeFirst == Spec => []NearestFirst
<1>1. FuzzyInv => NearestFirst
  BY DEF FuzzyInv
<1> QED
  BY <1>1, FuzzyInvariance, PTL
=============================================================================
