------------------------------- MODULE Sorting -------------------------------
(***************************************************************************)
(* What the proofs of more than one module use: a set of numbers has a     *)
(* smallest one, things can be lined up by an order that is transitive and *)
(* puts nothing before itself, and sequences can be put together.          *)
(***************************************************************************)
EXTENDS Integers, Sequences, SequenceTheorems, WellFoundedInduction, TLAPS

\* A set of numbers that is not empty has a smallest one.
LEMMA Smallest ==
    ASSUME NEW T, T \subseteq Nat, T # {}
    PROVE  \E x \in T : \A y \in T : x <= y
<1> DEFINE R == OpToRel(<, Nat)
<1>1. IsWellFoundedOn(R, Nat)
  BY NatLessThanWellFounded
<1>2. \A x, y \in Nat : y < x => <<y, x>> \in R
  BY DEF OpToRel
<1> HIDE DEF R
<1>3. PICK x \in T : \A y \in T : ~(<<y, x>> \in R)
  BY <1>1, WFMin
<1>4. ASSUME NEW y \in T PROVE x <= y
  <2>1. x \in Nat /\ y \in Nat /\ ~(y < x)
    BY <1>2, <1>3
  <2> QED
    BY <2>1
<1> QED
  BY <1>4

\* What holds of 0, and of k + 1 when of k, holds up to n.
LEMMA UpTo ==
    ASSUME NEW n \in Nat, NEW S, 0 \in S, \A k \in 0 .. n - 1 : k \in S => k + 1 \in S
    PROVE  n \in S
<1> DEFINE T == { k \in 0 .. n : k \notin S }
<1> SUFFICES ASSUME T # {} PROVE FALSE
  OBVIOUS
<1>a. T \subseteq Nat
  OBVIOUS
<1>b. \A k \in 0 .. n : k \in T <=> k \notin S
  OBVIOUS
<1>c. T \subseteq 0 .. n
  OBVIOUS
<1> HIDE DEF T
<1>1. PICK x \in T : \A y \in T : x <= y
  BY <1>a, Smallest
<1>2. x \in 0 .. n /\ x \notin S /\ x # 0
  BY <1>b, <1>c
<1>3. x - 1 \in 0 .. n - 1 /\ x - 1 \in 0 .. n /\ (x - 1) + 1 = x /\ ~(x <= x - 1)
  BY <1>2
<1>4. x - 1 \in S
  BY <1>1, <1>3, <1>b
<1> QED
  BY <1>2, <1>3, <1>4

\* Of the things m .. n one comes before none of the others.
LEMMA FirstOf ==
    ASSUME NEW n \in Nat, NEW m \in 1 .. n, NEW R,
           \A i \in m .. n : <<i, i>> \notin R,
           \A i, j, k \in m .. n : <<i, j>> \in R /\ <<j, k>> \in R => <<i, k>> \in R
    PROVE  \E f \in m .. n : \A i \in m .. n : <<i, f>> \notin R
<1> DEFINE S == { k \in Nat : m + k <= n =>
                      \E f \in m .. m + k : \A i \in m .. m + k : <<i, f>> \notin R }
<1>1. 0 \in S
  <2>1. m + 0 = m
    OBVIOUS
  <2> QED
    BY <2>1
<1>2. ASSUME NEW k \in 0 .. n - m - 1, k \in S PROVE k + 1 \in S
  <2>1. PICK f \in m .. m + k : \A i \in m .. m + k : <<i, f>> \notin R
    BY <1>2
  <2> DEFINE g == m + (k + 1)
  <2>2. /\ g \in m .. n /\ f \in m .. n /\ f \in m .. g /\ g \in m .. g
        /\ \A i \in m .. g : i \in m .. n /\ (i = g \/ i \in m .. m + k)
    OBVIOUS
  <2>c. (\E h \in m .. g : \A i \in m .. g : <<i, h>> \notin R) => k + 1 \in S
    OBVIOUS
  <2> HIDE DEF g, S
  <2>3. CASE <<g, f>> \notin R
    <3>1. \A i \in m .. g : <<i, f>> \notin R
      BY <2>1, <2>2, <2>3
    <3> QED
      BY <2>2, <2>c, <3>1
  <2>4. CASE <<g, f>> \in R
    <3>1. ASSUME NEW i \in m .. g PROVE <<i, g>> \notin R
      <4>1. CASE i = g
        BY <2>2, <4>1
      <4>2. CASE i \in m .. m + k
        <5>1. <<i, f>> \notin R /\ i \in m .. n
          BY <2>1, <2>2, <4>2
        <5> QED
          BY <2>2, <2>4, <5>1
      <4> QED
        BY <2>2, <4>1, <4>2
    <3> QED
      BY <2>2, <2>c, <3>1
  <2> QED
    BY <2>3, <2>4
<1>3. n - m \in Nat /\ m + (n - m) = n
  OBVIOUS
<1> HIDE DEF S
<1>4. n - m \in S
  BY <1>1, <1>2, <1>3, UpTo
<1> QED
  BY <1>3, <1>4 DEF S

\* The same of 1 .. n.
LEMMA FirstOfAll ==
    ASSUME NEW n \in Nat, n # 0, NEW R,
           \A i \in 1 .. n : <<i, i>> \notin R,
           \A i, j, k \in 1 .. n : <<i, j>> \in R /\ <<j, k>> \in R => <<i, k>> \in R
    PROVE  \E f \in 1 .. n : \A i \in 1 .. n : <<i, f>> \notin R
<1> DEFINE m == 1
<1>1. m \in 1 .. n
  OBVIOUS
<1>2. \A i \in m .. n : <<i, i>> \notin R
  OBVIOUS
<1>a. \A i, j, k \in m .. n : <<i, j>> \in R /\ <<j, k>> \in R => <<i, k>> \in R
  OBVIOUS
<1>3. (\E f \in m .. n : \A i \in m .. n : <<i, f>> \notin R)
         => \E f \in 1 .. n : \A i \in 1 .. n : <<i, f>> \notin R
  OBVIOUS
<1> HIDE DEF m
<1>4. \E f \in m .. n : \A i \in m .. n : <<i, f>> \notin R
  BY ONLY n \in Nat, <1>1, <1>2, <1>a, FirstOf
<1> QED
  BY <1>3, <1>4

\* They can be lined up.
LEMMA Sortable ==
    ASSUME NEW n \in Nat, NEW R,
           \A i \in 1 .. n : <<i, i>> \notin R,
           \A i, j, k \in 1 .. n : <<i, j>> \in R /\ <<j, k>> \in R => <<i, k>> \in R
    PROVE  \E p \in [1 .. n -> 1 .. n] :
              /\ \A i, j \in 1 .. n : p[i] = p[j] => i = j
              /\ \A i, j \in 1 .. n : i < j => <<p[j], p[i]>> \notin R
<1> DEFINE Injective(p) == \A i, j \in 1 .. n : p[i] = p[j] => i = j
           LinedUp(p, k) == \A i, j \in 1 .. n : i < j /\ i <= k => <<p[j], p[i]>> \notin R
           S == { k \in Nat : \E p \in [1 .. n -> 1 .. n] : Injective(p) /\ LinedUp(p, k) }
<1>a. \A k \in Nat : k \in S <=> \E p \in [1 .. n -> 1 .. n] : Injective(p) /\ LinedUp(p, k)
  OBVIOUS
<1>1. 0 \in S
  <2> DEFINE id == [i \in 1 .. n |-> i]
  <2>1. id \in [1 .. n -> 1 .. n] /\ Injective(id) /\ LinedUp(id, 0)
    OBVIOUS
  <2> QED
    BY <2>1
<1>2. ASSUME NEW k \in 0 .. n - 1, k \in S PROVE k + 1 \in S
  <2>1. PICK p \in [1 .. n -> 1 .. n] : Injective(p) /\ LinedUp(p, k)
    BY <1>2
  <2> DEFINE Q == { x \in (1 .. n) \X (1 .. n) : <<p[x[1]], p[x[2]]>> \in R }
             m == k + 1
  <2>2. m \in 1 .. n /\ \A i \in m .. n : i \in 1 .. n
    OBVIOUS
  <2>3. \A i, j \in 1 .. n : <<i, j>> \in Q <=> <<p[i], p[j]>> \in R
    OBVIOUS
  <2> HIDE DEF Q
  <2>4. \A i \in 1 .. n : <<i, i>> \notin Q
    BY <2>1, <2>3
  <2>5. ASSUME NEW i \in 1 .. n, NEW j \in 1 .. n, NEW h \in 1 .. n,
               <<i, j>> \in Q, <<j, h>> \in Q
        PROVE  <<i, h>> \in Q
    <3>1. <<p[i], p[j]>> \in R /\ <<p[j], p[h]>> \in R
      BY <2>3, <2>5
    <3>2. p[i] \in 1 .. n /\ p[j] \in 1 .. n /\ p[h] \in 1 .. n
      BY <2>1
    <3> QED
      BY <2>3, <3>1, <3>2
  <2>a. \A i \in m .. n : <<i, i>> \notin Q
    <3> HIDE DEF m
    <3> QED
      BY <2>2, <2>4
  <2>b. \A i, j, h \in m .. n : <<i, j>> \in Q /\ <<j, h>> \in Q => <<i, h>> \in Q
    BY <2>2, <2>5
  <2>6. PICK f \in m .. n : \A i \in m .. n : <<i, f>> \notin Q
    <3> HIDE DEF m
    <3> QED
      BY <2>2, <2>a, <2>b, FirstOf
  <2> DEFINE sw(i) == IF i = m THEN f ELSE IF i = f THEN m ELSE i
             q == [i \in 1 .. n |-> p[sw(i)]]
  <2>7. /\ \A i \in 1 .. n : sw(i) \in 1 .. n /\ (i <= k => sw(i) = i)
        /\ \A i \in 1 .. n : i > k => sw(i) \in m .. n
        /\ \A i, j \in 1 .. n : sw(i) = sw(j) => i = j
        /\ sw(m) = f
    BY <2>2, <2>6
  <2>8. \A i \in 1 .. n : q[i] = p[sw(i)]
    OBVIOUS
  <2> HIDE DEF sw
  <2>9. q \in [1 .. n -> 1 .. n]
    BY <2>1, <2>7
  <2> HIDE DEF q
  <2>10. Injective(q)
    BY <2>1, <2>7, <2>8
  <2>11. ASSUME NEW i \in 1 .. n, NEW j \in 1 .. n, i < j, i <= k + 1
         PROVE  <<q[j], q[i]>> \notin R
    <3>1. CASE i <= k
      <4>a. sw(i) = i /\ sw(j) \in 1 .. n
        BY <2>7, <3>1
      <4>b. i < sw(j)
        <5>1. CASE j <= k
          BY <2>7, <2>11, <5>1
        <5>2. CASE j > k
          <6>1. sw(j) \in m .. n
            BY <2>7, <5>2
          <6> QED
            BY <3>1, <6>1
        <5> QED
          BY <5>1, <5>2
      <4>1. sw(i) = i /\ sw(j) \in 1 .. n /\ i < sw(j)
        BY <4>a, <4>b
      <4> QED
        BY <2>1, <2>8, <3>1, <4>1
    <3>2. CASE i = m
      <4>0. j > k
        BY <2>11, <3>2
      <4>1. sw(i) = f /\ sw(j) \in m .. n
        BY <2>7, <3>2, <4>0
      <4>2. <<sw(j), f>> \notin Q /\ sw(j) \in 1 .. n /\ f \in 1 .. n
        <5> HIDE DEF m
        <5> QED
          BY <2>2, <2>6, <4>1
      <4> QED
        BY <2>3, <2>8, <4>1, <4>2
    <3> QED
      BY <2>11, <3>1, <3>2
  <2>12. LinedUp(q, k + 1)
    BY <2>11
  <2> HIDE DEF Injective, LinedUp, S
  <2>13. \E r \in [1 .. n -> 1 .. n] : Injective(r) /\ LinedUp(r, k + 1)
    BY <2>9, <2>10, <2>12
  <2>14. k + 1 \in Nat
    OBVIOUS
  <2> QED
    BY <1>a, <2>13, <2>14
<1> HIDE DEF S
<1>3. n \in S
  BY <1>1, <1>2, UpTo
<1> QED
  BY <1>3 DEF S
-----------------------------------------------------------------------------
(* Sequences one behind the other. *)

\* Two of them.
LEMMA CatFacts ==
    ASSUME NEW s \in Seq(Int), NEW t \in Seq(Int)
    PROVE  /\ s \o t \in Seq(Int) /\ Len(s \o t) = Len(s) + Len(t)
           /\ \A k \in 1 .. Len(s) : (s \o t)[k] = s[k]
           /\ \A k \in 1 .. Len(t) : (s \o t)[Len(s) + k] = t[k]
OBVIOUS

\* A part of a sequence, byte by byte.
LEMMA PartIs ==
    ASSUME NEW f \in Seq(Int), NEW t \in Seq(Int), NEW at \in Nat, at + Len(t) <= Len(f),
           \A p \in 1 .. Len(t) : f[at + p] = t[p]
    PROVE  SubSeq(f, at + 1, at + Len(t)) = t
<1> DEFINE u == SubSeq(f, at + 1, at + Len(t))
<1>1. Len(t) \in Nat /\ Len(f) \in Nat
  OBVIOUS
<1>2. u \in Seq(Int) /\ Len(u) = Len(t) /\ \A p \in 1 .. Len(t) : u[p] = f[at + p]
  <2> DEFINE m == at + 1
             n == at + Len(t)
  <2>1. m \in 1 .. Len(f) + 1 /\ n \in m - 1 .. Len(f) /\ n - m + 1 = Len(t)
    BY <1>1
  <2>2. \A p \in 1 .. Len(t) : m + p - 1 = at + p /\ m + p - 1 \in 1 .. Len(f)
    BY <1>1
  <2>3. u = SubSeq(f, m, n)
    OBVIOUS
  <2> HIDE DEF m, n, u
  <2>4. SubSeq(f, m, n) \in Seq(Int) /\ Len(SubSeq(f, m, n)) = n - m + 1
        /\ \A p \in 1 .. n - m + 1 : SubSeq(f, m, n)[p] = f[m + p - 1]
    BY ONLY f \in Seq(Int), <1>1, <2>1
  <2> QED BY <2>1, <2>2, <2>3, <2>4
<1> HIDE DEF u
<1>3. u = t
  BY <1>2, SeqEqual
<1> QED BY <1>3 DEF u

\* Together(g, s, n): g[k] is the first k of the n sequences in s, put together.
Together(g, s, n) ==
    /\ g \in [0 .. n -> Seq(Int)] /\ g[0] = <<>>
    /\ \A k \in 1 .. n : g[k] = g[k - 1] \o s[k]

\* Any sequences can be put together.
LEMMA TogetherExists ==
    ASSUME NEW n \in Nat, NEW s \in [1 .. n -> Seq(Int)]
    PROVE  \E g : Together(g, s, n)
<1> DEFINE S == { k \in Nat : k <= n => \E g : Together(g, s, k) }
<1>1. 0 \in S
  <2> DEFINE e == [k \in 0 .. 0 |-> <<>>]
  <2>1. e \in [0 .. 0 -> Seq(Int)] /\ e[0] = <<>>
    OBVIOUS
  <2>2. Together(e, s, 0)
    BY <2>1 DEF Together
  <2> QED BY <2>2
<1>2. ASSUME NEW k \in 0 .. n - 1, k \in S PROVE k + 1 \in S
  <2>1. PICK g : Together(g, s, k)
    BY <1>2
  <2> DEFINE h == [m \in 0 .. k + 1 |-> IF m = k + 1 THEN g[k] \o s[k + 1] ELSE g[m]]
  <2>2. g[k] \in Seq(Int) /\ s[k + 1] \in Seq(Int)
    BY <2>1 DEF Together
  <2>3. h \in [0 .. k + 1 -> Seq(Int)]
    BY <2>1, <2>2 DEF Together
  <2>a. h[k + 1] = g[k] \o s[k + 1] /\ \A m \in 0 .. k : h[m] = g[m]
    <3>1. k + 1 \in 0 .. k + 1 /\ \A m \in 0 .. k : m \in 0 .. k + 1 /\ m # k + 1
      OBVIOUS
    <3> HIDE DEF S
    <3> QED BY <3>1
  <2>4. h[0] = <<>> /\ \A m \in 1 .. k + 1 : h[m] = h[m - 1] \o s[m]
    <3> HIDE DEF h
    <3>1. \A m \in 1 .. k + 1 : m - 1 \in 0 .. k /\ (m = k + 1 => m - 1 = k)
                                /\ (m # k + 1 => m \in 1 .. k /\ m \in 0 .. k)
      OBVIOUS
    <3>2. 0 \in 0 .. k
      OBVIOUS
    <3> QED BY <2>1, <2>a, <3>1, <3>2 DEF Together
  <2> HIDE DEF h
  <2>5. Together(h, s, k + 1)
    BY <2>3, <2>4 DEF Together
  <2> QED BY <2>5
<1> HIDE DEF S
<1>3. n \in S
  BY <1>1, <1>2, UpTo
<1> QED BY <1>3 DEF S

\* The function that FlattenSeq is defined by is the same.
Chosen(s, n) == CHOOSE h : h = [k \in 1 .. n |-> IF k = 1 THEN s[k] ELSE h[k - 1] \o s[k]]

\* The recursive function of FlattenSeq puts them together.
LEMMA ChosenTogether ==
    ASSUME NEW n \in Nat \ {0}, NEW s \in [1 .. n -> Seq(Int)], NEW g, Together(g, s, n)
    PROVE  Chosen(s, n)[n] = g[n]
<1> DEFINE Is(h) == h = [k \in 1 .. n |-> IF k = 1 THEN s[k] ELSE h[k - 1] \o s[k]]
           f == CHOOSE h : Is(h)
           r == [k \in 1 .. n |-> g[k]]
<1>1. Chosen(s, n) = f
  BY DEF Chosen
<1>a. g[1] = s[1]
  <2>1. 1 \in 1 .. n /\ 1 - 1 = 0
    OBVIOUS
  <2>2. g[1] = <<>> \o s[1] /\ s[1] \in Seq(Int)
    BY <2>1 DEF Together
  <2> QED BY <2>2
<1>b. \A k \in 1 .. n : r[k] = IF k = 1 THEN s[k] ELSE r[k - 1] \o s[k]
  <2>1. \A k \in 1 .. n : r[k] = g[k]
    OBVIOUS
  <2>2. \A k \in 1 .. n : k # 1 => k - 1 \in 1 .. n
    OBVIOUS
  <2> HIDE DEF r
  <2>3. \A k \in 1 .. n : k # 1 => r[k] = r[k - 1] \o s[k]
    BY <2>1, <2>2 DEF Together
  <2> QED BY <1>a, <2>1, <2>3
<1>2. Is(r)
  BY <1>b
<1>3. Is(f)
  BY <1>2
<1>4. \A k \in 1 .. n : f[k] = IF k = 1 THEN s[k] ELSE f[k - 1] \o s[k]
  BY <1>3
<1> HIDE DEF f, r, Is
<1> DEFINE S == { k \in Nat : k < n => f[k + 1] = g[k + 1] }
<1>5. 0 \in S
  BY <1>4, <1>a
<1>6. ASSUME NEW k \in 0 .. n - 2, k \in S PROVE k + 1 \in S
  <2>1. f[k + 1] = g[k + 1]
    BY <1>6
  <2>2. f[k + 2] = f[k + 1] \o s[k + 2] /\ g[k + 2] = g[k + 1] \o s[k + 2]
    <3>1. k + 2 \in 1 .. n /\ k + 2 # 1 /\ (k + 2) - 1 = k + 1
      OBVIOUS
    <3> QED BY <1>4, <3>1 DEF Together
  <2>3. f[k + 2] = g[k + 2] /\ (k + 1) + 1 = k + 2 /\ k + 1 \in Nat
    BY <2>1, <2>2
  <2> QED BY <2>3
<1> HIDE DEF S
<1>7. n - 1 \in Nat /\ \A k \in 0 .. (n - 1) - 1 : k \in 0 .. n - 2
  OBVIOUS
<1>8. n - 1 \in S
  BY <1>5, <1>6, <1>7, UpTo
<1>9. f[n] = g[n]
  BY <1>8 DEF S
<1> QED BY <1>1, <1>9

\* Each is found in them all where those before it end.
FoundIn(all, at, part) ==
    /\ at \in Nat /\ part \in Seq(Int) /\ all \in Seq(Int)
    /\ at + Len(part) <= Len(all)
    /\ \A p \in 1 .. Len(part) : all[at + p] = part[p]

\* Each of them is found in the whole, behind those before it.
LEMMA EachIsFound ==
    ASSUME NEW n \in Nat, NEW s \in [1 .. n -> Seq(Int)], NEW g, Together(g, s, n),
           NEW k \in 1 .. n
    PROVE  FoundIn(g[n], Len(g[k - 1]), s[k])
<1>1. \A m \in 0 .. n : g[m] \in Seq(Int)
  BY DEF Together
<1>2. g[k - 1] \in Seq(Int) /\ s[k] \in Seq(Int) /\ g[n] \in Seq(Int) /\ g[k] \in Seq(Int)
  BY <1>1
<1>3. g[k] = g[k - 1] \o s[k]
  BY DEF Together
<1>4. Len(g[k]) = Len(g[k - 1]) + Len(s[k])
      /\ \A p \in 1 .. Len(s[k]) : g[k][Len(g[k - 1]) + p] = s[k][p]
  BY <1>2, <1>3, CatFacts
<1> DEFINE S == { m \in Nat : k + m <= n =>
                     Len(g[k]) <= Len(g[k + m]) /\ \A p \in 1 .. Len(g[k]) : g[k + m][p] = g[k][p] }
<1>5. 0 \in S
  <2>1. k + 0 = k /\ Len(g[k]) \in Nat
    BY <1>2
  <2> QED BY <2>1
<1>6. ASSUME NEW m \in 0 .. (n - k) - 1, m \in S PROVE m + 1 \in S
  <2>1. /\ k + m \in 0 .. n /\ k + (m + 1) \in 1 .. n /\ (k + (m + 1)) - 1 = k + m
        /\ k + m <= n
    OBVIOUS
  <2>2. Len(g[k]) <= Len(g[k + m]) /\ \A p \in 1 .. Len(g[k]) : g[k + m][p] = g[k][p]
    BY <1>6, <2>1
  <2>3. g[k + (m + 1)] = g[k + m] \o s[k + (m + 1)]
    BY <2>1 DEF Together
  <2>4. g[k + m] \in Seq(Int) /\ s[k + (m + 1)] \in Seq(Int)
    BY <1>1, <2>1
  <2>5. /\ Len(g[k + m]) <= Len(g[k + (m + 1)])
        /\ \A p \in 1 .. Len(g[k + m]) : g[k + (m + 1)][p] = g[k + m][p]
    <3> DEFINE a == g[k + m]
               b == s[k + (m + 1)]
    <3>1. a \o b \in Seq(Int) /\ Len(a \o b) = Len(a) + Len(b) /\ Len(a) \in Nat /\ Len(b) \in Nat
          /\ \A p \in 1 .. Len(a) : (a \o b)[p] = a[p]
      <4> HIDE DEF a, b
      <4>1. a \in Seq(Int) /\ b \in Seq(Int)
        BY <2>4 DEF a, b
      <4> QED BY ONLY <4>1, CatFacts
    <3>2. g[k + (m + 1)] = a \o b
      BY <2>3
    <3> HIDE DEF a, b
    <3>3. Len(a) <= Len(g[k + (m + 1)]) /\ \A p \in 1 .. Len(a) : g[k + (m + 1)][p] = a[p]
      BY <3>1, <3>2
    <3> QED BY <3>3 DEF a
  <2>6. Len(g[k]) \in Nat /\ Len(g[k + m]) \in Nat /\ Len(g[k + (m + 1)]) \in Nat
    BY <1>1, <1>2, <2>1
  <2>7. /\ Len(g[k]) <= Len(g[k + (m + 1)])
        /\ \A p \in 1 .. Len(g[k]) : g[k + (m + 1)][p] = g[k][p]
    BY <2>2, <2>5, <2>6
  <2> QED BY <2>7
<1>7. n - k \in Nat /\ k + (n - k) = n
  OBVIOUS
<1> HIDE DEF S
<1>8. n - k \in S
  BY <1>5, <1>6, <1>7, UpTo
<1>9. Len(g[k]) <= Len(g[n]) /\ \A p \in 1 .. Len(g[k]) : g[n][p] = g[k][p]
  BY <1>7, <1>8 DEF S
<1> QED
  <2> DEFINE a == Len(g[k - 1])
             b == Len(s[k])
  <2>1. a \in Nat /\ b \in Nat
    BY <1>2
  <2>2. \A p \in 1 .. b : a + p \in 1 .. a + b
    BY <2>1
  <2>3. /\ Len(g[k - 1]) + Len(s[k]) <= Len(g[n])
        /\ \A p \in 1 .. Len(s[k]) : g[n][Len(g[k - 1]) + p] = s[k][p]
    BY <1>2, <1>4, <1>9, <2>1, <2>2
  <2> QED BY <1>2, <2>1, <2>3 DEF FoundIn

\* What stands in a sequence is still there when more is put behind it.
LEMMA FoundBehind ==
    ASSUME NEW s \in Seq(Int), NEW t \in Seq(Int)
    PROVE  /\ s \o t \in Seq(Int) /\ Len(s \o t) = Len(s) + Len(t)
           /\ FoundIn(s \o t, 0, s) /\ FoundIn(s \o t, Len(s), t)
<1> DEFINE u == s \o t
<1>1. /\ u \in Seq(Int) /\ Len(u) = Len(s) + Len(t)
      /\ \A k \in 1 .. Len(s) : u[k] = s[k]
      /\ \A k \in 1 .. Len(t) : u[Len(s) + k] = t[k]
  BY CatFacts
<1>2. Len(s) \in Nat /\ Len(t) \in Nat
  OBVIOUS
<1> HIDE DEF u
<1>3. FoundIn(u, 0, s)
  BY <1>1, <1>2 DEF FoundIn
<1>4. FoundIn(u, Len(s), t)
  BY <1>1, <1>2 DEF FoundIn
<1> QED BY <1>1, <1>3, <1>4 DEF u

\* A part of a part.
LEMMA PartOfPart ==
    ASSUME NEW all, NEW at, NEW part, NEW in, NEW small,
           FoundIn(all, at, part), FoundIn(part, in, small)
    PROVE  FoundIn(all, at + in, small)
<1> DEFINE b == Len(small)
<1>1. /\ at \in Nat /\ in \in Nat /\ part \in Seq(Int) /\ small \in Seq(Int) /\ all \in Seq(Int)
      /\ at + Len(part) <= Len(all) /\ in + Len(small) <= Len(part)
  BY DEF FoundIn
<1>2. Len(part) \in Nat /\ Len(small) \in Nat /\ Len(all) \in Nat
  BY <1>1
<1>3. at + in \in Nat /\ (at + in) + Len(small) <= Len(all)
  BY <1>1, <1>2
<1>4. ASSUME NEW p \in 1 .. Len(small) PROVE all[(at + in) + p] = small[p]
  <2>1. in + p \in 1 .. Len(part) /\ at + (in + p) = (at + in) + p
    BY <1>1, <1>2
  <2>2. all[at + (in + p)] = part[in + p] /\ part[in + p] = small[p]
    BY <2>1 DEF FoundIn
  <2> QED BY <2>1, <2>2
<1> QED BY <1>1, <1>3, <1>4 DEF FoundIn
-----------------------------------------------------------------------------
(* Functions that are defined by recursion.                                 *)

\* f is what steps F make of b, one after the other.
Steps(f, n, b, F) == f[0] = b /\ \A k \in 1 .. n : f[k] = F[<<f[k - 1], k>>]

\* Steps within a set can be taken, and stay in it.
LEMMA StepsExist ==
    ASSUME NEW n \in Nat, NEW V, NEW b \in V, NEW F \in [V \X (1 .. n) -> V]
    PROVE  \E f \in [0 .. n -> V] : Steps(f, n, b, F)
<1> DEFINE S == { m \in Nat : m <= n => \E f \in [0 .. m -> V] : Steps(f, m, b, F) }
<1>1. 0 \in S
  <2> DEFINE e == [k \in 0 .. 0 |-> b]
  <2>1. e \in [0 .. 0 -> V] /\ e[0] = b
    OBVIOUS
  <2> HIDE DEF e
  <2>2. Steps(e, 0, b, F)
    BY <2>1 DEF Steps
  <2> QED BY <2>1, <2>2
<1>2. ASSUME NEW m \in 0 .. n - 1, m \in S PROVE m + 1 \in S
  <2>1. m <= n /\ m + 1 \in 1 .. n /\ m + 1 \in Nat
    OBVIOUS
  <2>2. PICK f \in [0 .. m -> V] : Steps(f, m, b, F)
    BY <1>2, <2>1
  <2> DEFINE last == F[<<f[m], m + 1>>]
             h == [k \in 0 .. m + 1 |-> IF k = m + 1 THEN last ELSE f[k]]
  <2>3. /\ \A k \in 0 .. m : k \in 0 .. m + 1 /\ k # m + 1
        /\ m + 1 \in 0 .. m + 1 /\ m \in 0 .. m /\ 0 \in 0 .. m /\ (m + 1) - 1 = m
        /\ \A k \in 0 .. m + 1 : k = m + 1 \/ k \in 0 .. m
        /\ \A k \in 1 .. m : k - 1 \in 0 .. m /\ k \in 0 .. m
        /\ \A k \in 1 .. m + 1 : k = m + 1 \/ k \in 1 .. m
    OBVIOUS
  <2>4. last \in V
    BY <2>1, <2>3
  <2> HIDE DEF last
  <2>5. h \in [0 .. m + 1 -> V] /\ h[m + 1] = last /\ \A k \in 0 .. m : h[k] = f[k]
    BY <2>3, <2>4
  <2> HIDE DEF h
  <2>6. h[0] = b /\ \A k \in 1 .. m + 1 : h[k] = F[<<h[k - 1], k>>]
    BY <2>2, <2>3, <2>5 DEF Steps, last
  <2>7. Steps(h, m + 1, b, F)
    BY <2>6 DEF Steps
  <2> QED BY <2>1, <2>5, <2>7
<1> HIDE DEF S
<1>3. n \in S
  BY <1>1, <1>2, UpTo
<1> QED BY <1>3 DEF S

\* And they stay in it.
LEMMA StepsStay ==
    ASSUME NEW n \in Nat, NEW V, NEW b \in V, NEW F \in [V \X (1 .. n) -> V],
           NEW f, Steps(f, n, b, F), NEW m \in 0 .. n
    PROVE  f[m] \in V
<1> DEFINE S == { k \in Nat : k <= n => f[k] \in V }
<1>1. 0 \in S
  BY DEF Steps
<1>2. ASSUME NEW k \in 0 .. m - 1, k \in S PROVE k + 1 \in S
  <2>1. k <= n /\ k + 1 \in 1 .. n /\ (k + 1) - 1 = k /\ k + 1 \in Nat
    OBVIOUS
  <2>2. f[k] \in V /\ f[k + 1] = F[<<f[k], k + 1>>]
    BY <1>2, <2>1 DEF Steps
  <2>3. f[k + 1] \in V
    BY <2>1, <2>2
  <2> QED BY <2>1, <2>3
<1> HIDE DEF S
<1>3. m \in S
  BY <1>1, <1>2, UpTo
<1> QED BY <1>3 DEF S
==============================================================================
