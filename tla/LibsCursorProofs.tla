-------------------------- MODULE LibsCursorProofs --------------------------
(***************************************************************************)
(* For any number of dictionaries without synonyms: the indexes that the   *)
(* cursor calls of Libs keep, one for each dictionary, always mark one     *)
(* place in the merged order, and the calls implement MergedCursor; what   *)
(* get_neighbour collects with them is the run of words asked for.  The    *)
(* types hold with synonyms, too.                                          *)
(***************************************************************************)
EXTENDS LibsCursor, Sorting, FiniteSetTheorems, TLAPS

\* The .syn files have no entries.
NoSynonyms == Synonyms = {{}}

\* The indexes a cursor can have.
Indexes == { c \in [Libs -> Int] :
               \A l \in Libs : c[l] \in {INVALID_INDEX} \cup 0 .. file[l].wc }

\* The parts of a word list without repetitions.
LEMMA DistinctFacts ==
    ASSUME NEW f \in DistinctFiles
    PROVE  /\ f \in Files
           /\ f.wc \in Nat \ {0}
           /\ f.word \in [0 .. f.wc - 1 -> Int]
           /\ \A i \in 0 .. f.wc - 1 : f.word[i] \in Words
           /\ \A i, j \in 0 .. f.wc - 1 : i < j => f.word[i] < f.word[j]
<1>1. f \in Files /\ \A i, j \in 0 .. f.wc - 1 : i < j => f.word[i] < f.word[j]
  BY DEF DistinctFiles
<1>2. PICK n \in 1 .. MaxWc :
        f \in { [wc |-> n, word |-> g] :
                  g \in { h \in [0 .. n - 1 -> Words] : Sorted(h, n) } }
  BY <1>1 DEF Files
<1>3. PICK g \in [0 .. n - 1 -> Words] : f = [wc |-> n, word |-> g]
  BY <1>2
<1>4. f.wc = n /\ f.word = g /\ n \in Nat \ {0}
  BY <1>3, MaxWcAssumption
<1>5. f.word \in [0 .. f.wc - 1 -> Int] /\ \A i \in 0 .. f.wc - 1 : f.word[i] \in Words
  BY <1>4, WordsAssumption
<1> QED
  BY <1>1, <1>4, <1>5

\* A dictionary has a word at its index, or nothing ahead.
LEMMA PosFacts ==
    ASSUME file \in [Libs -> DistinctFiles], NEW c \in Indexes, NEW l \in Libs
    PROVE  /\ file[l] \in DistinctFiles
           /\ file[l].wc \in Nat \ {0}
           /\ Pos(c, l) \in 0 .. file[l].wc
           /\ l \in HasWord(c) <=> Pos(c, l) < file[l].wc
           /\ l \in HasWord(c) => Pos(c, l) = c[l]
<1>1. file[l] \in DistinctFiles /\ file[l].wc \in Nat \ {0}
  BY DistinctFacts
<1>2. c[l] \in {INVALID_INDEX} \cup 0 .. file[l].wc
  BY DEF Indexes
<1> QED
  BY <1>1, <1>2 DEF Pos, HasWord, INVALID_INDEX

\* The words not behind the cursor are those at or after the indexes.
LEMMA Ahead ==
    ASSUME file \in [Libs -> DistinctFiles], NEW c \in Indexes, OnePlace(c), NEW w
    PROVE  w \in AllWords \ Passed(c) <=>
             \E l \in Libs : \E j \in Pos(c, l) .. file[l].wc - 1 :
                 w = file[l].word[j]
<1>1. ASSUME w \in AllWords \ Passed(c)
      PROVE  \E l \in Libs : \E j \in Pos(c, l) .. file[l].wc - 1 :
                 w = file[l].word[j]
  <2>1. PICK l \in Libs : \E j \in 0 .. file[l].wc - 1 : w = file[l].word[j]
    BY <1>1 DEF AllWords, WordsOf
  <2>2. PICK j \in 0 .. file[l].wc - 1 : w = file[l].word[j]
    BY <2>1
  <2>3. ~(j < Pos(c, l))
    <3>1. SUFFICES ASSUME j < Pos(c, l) PROVE FALSE
      OBVIOUS
    <3>2. j \in 0 .. Pos(c, l) - 1
      BY <3>1, PosFacts
    <3> QED
      BY <1>1, <2>2, <3>2 DEF Passed
  <2> QED
    BY <2>2, <2>3, PosFacts
<1>2. ASSUME NEW l \in Libs, NEW j \in Pos(c, l) .. file[l].wc - 1,
             w = file[l].word[j]
      PROVE  w \in AllWords \ Passed(c)
  <2>1. j \in 0 .. file[l].wc - 1
    BY PosFacts
  <2>2. w \in AllWords
    BY <1>2, <2>1 DEF AllWords, WordsOf
  <2>3. ASSUME NEW k \in Libs, NEW i \in 0 .. Pos(c, k) - 1
        PROVE  w # file[k].word[i]
    <3>1. file[k].word[i] < w
      BY <1>2, <2>3 DEF OnePlace
    <3>2. i \in 0 .. file[k].wc - 1
      BY <2>3, PosFacts
    <3>3. file[k].word[i] \in Int
      BY <3>2, PosFacts, DistinctFacts
    <3> QED
      BY <3>1, <3>3
  <2> QED
    BY <2>2, <2>3 DEF Passed
<1> QED
  BY <1>1, <1>2

\* poGetCurrentWord() finds the least word ahead of the cursor.
LEMMA CurrentIsLeast ==
    ASSUME file \in [Libs -> DistinctFiles], NEW c \in Indexes, OnePlace(c)
    PROVE  CurrentWord(c) = LeastOf(AllWords \ Passed(c))
<1> DEFINE A == AllWords \ Passed(c)
           S == { WordAt(c, l) : l \in HasWord(c) }
<1>1. \A l \in HasWord(c) : WordAt(c, l) \in A
  <2>1. TAKE l \in HasWord(c)
  <2>2. l \in Libs /\ c[l] \in Pos(c, l) .. file[l].wc - 1
    BY PosFacts DEF HasWord
  <2> QED
    BY <2>2, Ahead DEF WordAt
<1>2. \A w \in A : \E l \in HasWord(c) :
         WordAt(c, l) <= w /\ (w # WordAt(c, l) => ~(w <= WordAt(c, l)))
  <2>1. TAKE w \in A
  <2>2. PICK l \in Libs : \E j \in Pos(c, l) .. file[l].wc - 1 : w = file[l].word[j]
    BY Ahead
  <2>3. PICK j \in Pos(c, l) .. file[l].wc - 1 : w = file[l].word[j]
    BY <2>2
  <2>4. l \in HasWord(c) /\ Pos(c, l) = c[l] /\ c[l] \in 0 .. file[l].wc - 1
          /\ j \in 0 .. file[l].wc - 1 /\ c[l] <= j
    BY <2>3, PosFacts
  <2>5. /\ file[l].word[j] \in Int /\ file[l].word[c[l]] \in Int
        /\ c[l] < j => file[l].word[c[l]] < file[l].word[j]
    BY <2>4, PosFacts, DistinctFacts
  <2>6. c[l] < j \/ c[l] = j
    BY <2>4
  <2>7. WordAt(c, l) = file[l].word[c[l]]
    BY DEF WordAt
  <2> QED
    BY <2>3, <2>4, <2>5, <2>6, <2>7
<1>3. A \subseteq Int
  <2>1. ASSUME NEW w \in A PROVE w \in Int
    <3>1. PICK l \in Libs : \E j \in 0 .. file[l].wc - 1 : w = file[l].word[j]
      BY DEF AllWords, WordsOf
    <3> QED
      BY <3>1, PosFacts, DistinctFacts
  <2> QED
    BY <2>1
<1> HIDE DEF A
<1>4. S \subseteq A
  BY <1>1
<1>5. ASSUME NEW w \in LeastOf(S) PROVE w \in LeastOf(A)
  <2>1. w \in S /\ \A v \in S : w <= v
    BY DEF LeastOf
  <2>2. ASSUME NEW v \in A PROVE w <= v
    <3>1. PICK l \in HasWord(c) : WordAt(c, l) <= v
      BY <1>2
    <3>2. w <= WordAt(c, l) /\ WordAt(c, l) \in A
      BY <2>1, <1>1
    <3>3. w \in Int /\ v \in Int /\ WordAt(c, l) \in Int
      BY <1>3, <1>4, <2>1, <3>2
    <3> QED
      BY <3>1, <3>2, <3>3
  <2> QED
    BY <1>4, <2>1, <2>2 DEF LeastOf
<1>6. ASSUME NEW w \in LeastOf(A) PROVE w \in LeastOf(S)
  <2>1. w \in A /\ \A v \in A : w <= v
    BY DEF LeastOf
  <2>2. PICK l \in HasWord(c) : w # WordAt(c, l) => ~(w <= WordAt(c, l))
    BY <1>2, <2>1
  <2>3. w = WordAt(c, l)
    BY <1>1, <2>1, <2>2
  <2> QED
    BY <1>4, <2>1, <2>3 DEF LeastOf
<1> QED
  BY <1>5, <1>6 DEF CurrentWord, A

\* Advance(c) from one place leads to one place, over the least word ahead.
LEMMA AdvanceKeepsPlace ==
    ASSUME file \in [Libs -> DistinctFiles], file' = file,
           NEW c \in Indexes, OnePlace(c), Advance(c)
    PROVE  /\ iCurrent' \in Indexes
           /\ OnePlace(iCurrent')
           /\ Passed(iCurrent') = Passed(c) \cup LeastOf(AllWords \ Passed(c))
           /\ word' = LeastOf(AllWords \ Passed(iCurrent'))
<1> DEFINE d == iCurrent'
           m == CurrentWord(c)
           Moves(l) == l \in HasWord(c) /\ WordAt(c, l) \in m
<1>1. /\ d = [l \in Libs |-> IF Moves(l) THEN c[l] + 1 ELSE c[l]]
      /\ word' = IF m = {} THEN {} ELSE CurrentWord(d)
  BY DEF Advance
<1>2. \A l \in Libs :
        /\ Moves(l) => /\ Pos(c, l) = c[l] /\ Pos(d, l) = Pos(c, l) + 1
                       /\ Pos(c, l) \in 0 .. file[l].wc - 1
                       /\ file[l].word[Pos(c, l)] \in m
                       /\ d[l] \in 0 .. file[l].wc
        /\ ~Moves(l) => Pos(d, l) = Pos(c, l) /\ d[l] = c[l]
  <2>1. TAKE l \in Libs
  <2>2. CASE Moves(l)
    <3>1. Pos(c, l) = c[l] /\ Pos(c, l) \in 0 .. file[l].wc - 1 /\ file[l].wc \in Nat
      BY <2>2, PosFacts
    <3>2. d[l] = c[l] + 1
      BY <1>1, <2>2
    <3>3. Pos(d, l) = d[l]
      BY <3>1, <3>2 DEF Pos, INVALID_INDEX
    <3> QED
      BY <2>2, <3>1, <3>2, <3>3 DEF WordAt
  <2>3. CASE ~Moves(l)
    BY <1>1, <2>3 DEF Pos
  <2> QED
    BY <2>2, <2>3
<1>3. d \in Indexes
  <2>1. d \in [Libs -> Int]
    <3>1. \A l \in Libs : d[l] \in Int
      BY <1>2 DEF Indexes
    <3>2. d = [l \in Libs |-> d[l]]
      BY <1>1
    <3> HIDE DEF d
    <3> QED
      BY <3>1, <3>2
  <2>2. \A l \in Libs : d[l] \in {INVALID_INDEX} \cup 0 .. file[l].wc
    BY <1>2 DEF Indexes
  <2> HIDE DEF d
  <2> QED
    BY <2>1, <2>2 DEF Indexes
<1>4. m = LeastOf(AllWords \ Passed(c))
  BY CurrentIsLeast
<1> HIDE DEF m
<1>5. ASSUME NEW l \in Libs, NEW k \in Libs,
             NEW i \in 0 .. Pos(d, l) - 1, NEW j \in Pos(d, k) .. file[k].wc - 1
      PROVE  file[l].word[i] < file[k].word[j]
  <2>1. Pos(c, l) \in Int /\ Pos(c, k) \in Int /\ Pos(c, k) <= Pos(d, k)
          /\ j \in Pos(c, k) .. file[k].wc - 1 /\ j \in 0 .. file[k].wc - 1
    BY <1>2, PosFacts
  <2>2. CASE i < Pos(c, l)
    BY <2>1, <2>2 DEF OnePlace
  <2>3. CASE ~(i < Pos(c, l))
    <3>1. Moves(l) /\ i = Pos(c, l)
      BY <1>2, <2>1, <2>3
    <3>2. file[l].word[i] \in m
      BY <1>2, <3>1
    <3>3. file[k].word[j] \in AllWords \ Passed(c)
      BY <2>1, Ahead
    <3>4. file[l].word[i] <= file[k].word[j]
      BY <1>4, <3>2, <3>3 DEF LeastOf
    <3>5. file[k].word[j] # file[l].word[i]
      <4>1. SUFFICES ASSUME file[k].word[j] = file[l].word[i] PROVE FALSE
        OBVIOUS
      <4>2. k \in HasWord(c) /\ Pos(c, k) = c[k]
        BY <2>1, PosFacts
      <4>3. WordAt(c, k) \in AllWords \ Passed(c)
        BY <2>1, <4>2, PosFacts, Ahead DEF WordAt
      <4>4. file[l].word[i] <= WordAt(c, k)
        BY <1>4, <3>2, <4>3 DEF LeastOf
      <4>5. c[k] < j => WordAt(c, k) < file[k].word[j]
        BY <2>1, <4>2, PosFacts, DistinctFacts DEF WordAt
      <4>6. WordAt(c, k) \in Int /\ file[k].word[j] \in Int
        BY <2>1, <4>2, PosFacts, DistinctFacts DEF WordAt
      <4>7. c[k] = j
        BY <2>1, <4>1, <4>2, <4>4, <4>5, <4>6
      <4>8. Moves(k)
        BY <3>2, <4>1, <4>2, <4>7 DEF WordAt
      <4> QED
        BY <1>2, <2>1, <4>2, <4>7, <4>8
    <3>6. file[l].word[i] \in Int /\ file[k].word[j] \in Int
      <4>1. i \in 0 .. file[l].wc - 1
        BY <1>2, <3>1
      <4> QED
        BY <2>1, <4>1, PosFacts, DistinctFacts
    <3> QED
      BY <3>4, <3>5, <3>6
  <2> QED
    BY <2>2, <2>3
<1>6. OnePlace(d)
  BY <1>5 DEF OnePlace
<1>7. Passed(d) = Passed(c) \cup m
  <2>1. ASSUME NEW v \in Passed(d) PROVE v \in Passed(c) \cup m
    <3>1. PICK l \in Libs : \E i \in 0 .. Pos(d, l) - 1 : v = file[l].word[i]
      BY <2>1 DEF Passed
    <3>2. PICK i \in 0 .. Pos(d, l) - 1 : v = file[l].word[i]
      BY <3>1
    <3>3. Pos(c, l) \in Int
      BY PosFacts
    <3>4. CASE i < Pos(c, l)
      <4>1. i \in 0 .. Pos(c, l) - 1
        BY <3>3, <3>4
      <4> QED
        BY <3>2, <4>1 DEF Passed
    <3>5. CASE ~(i < Pos(c, l))
      BY <1>2, <3>2, <3>3, <3>5
    <3> QED
      BY <3>4, <3>5
  <2>2. ASSUME NEW v \in Passed(c) PROVE v \in Passed(d)
    <3>1. PICK l \in Libs : \E i \in 0 .. Pos(c, l) - 1 : v = file[l].word[i]
      BY <2>2 DEF Passed
    <3>2. PICK i \in 0 .. Pos(c, l) - 1 : v = file[l].word[i]
      BY <3>1
    <3>3. i \in 0 .. Pos(d, l) - 1
      BY <1>2, <3>2, PosFacts
    <3> HIDE DEF d
    <3> QED
      BY <3>2, <3>3 DEF Passed
  <2>3. ASSUME NEW v \in m PROVE v \in Passed(d)
    <3>1. PICK l \in HasWord(c) : v = WordAt(c, l)
      BY <2>3 DEF m, CurrentWord, LeastOf
    <3>2. l \in Libs /\ Moves(l)
      BY <2>3, <3>1 DEF HasWord
    <3>3. Pos(c, l) \in 0 .. Pos(d, l) - 1 /\ v = file[l].word[Pos(c, l)]
      BY <1>2, <3>1, <3>2 DEF WordAt
    <3> HIDE DEF d
    <3> QED
      BY <3>2, <3>3 DEF Passed
  <2> QED
    BY <2>1, <2>2, <2>3
<1>8. word' = LeastOf(AllWords \ Passed(d))
  <2>1. CASE m = {}
    BY <1>1, <1>4, <1>7, <2>1
  <2>2. CASE m # {}
    <3> HIDE DEF d
    <3> QED
      BY <1>1, <1>3, <1>6, <2>2, CurrentIsLeast
  <2> QED
    BY <2>1, <2>2
<1> QED
  BY <1>3, <1>4, <1>6, <1>7, <1>8

\* What poGetPreWord() works on: the positions of iCurrent.
Before(l) == file[l].word[Pos(iCurrent, l) - 1]
Movable == { l \in Libs : 0 < Pos(iCurrent, l) }
Last == GreatestOf({ Before(l) : l \in Movable })

\* poGetPreWord() finds the greatest word behind the cursor.
LEMMA LastIsGreatest ==
    ASSUME file \in [Libs -> DistinctFiles], iCurrent \in Indexes
    PROVE  Last = GreatestOf(Passed(iCurrent))
<1> DEFINE P == Passed(iCurrent)
           S == { Before(l) : l \in Movable }
<1>1. \A l \in Movable : Before(l) \in P
  <2>1. TAKE l \in Movable
  <2>2. l \in Libs /\ Pos(iCurrent, l) - 1 \in 0 .. Pos(iCurrent, l) - 1
    BY PosFacts DEF Movable
  <2> QED
    BY <2>2 DEF Passed, Before
<1>2. \A w \in P : \E l \in Movable : w = Before(l) \/ w < Before(l)
  <2>1. TAKE w \in P
  <2>2. PICK l \in Libs : \E i \in 0 .. Pos(iCurrent, l) - 1 : w = file[l].word[i]
    BY DEF Passed
  <2>3. PICK i \in 0 .. Pos(iCurrent, l) - 1 : w = file[l].word[i]
    BY <2>2
  <2>4. /\ l \in Movable
        /\ i \in 0 .. file[l].wc - 1
        /\ Pos(iCurrent, l) - 1 \in 0 .. file[l].wc - 1
        /\ i < Pos(iCurrent, l) - 1 \/ i = Pos(iCurrent, l) - 1
    BY <2>3, PosFacts DEF Movable
  <2>5. i < Pos(iCurrent, l) - 1 => w < Before(l)
    BY <2>3, <2>4, PosFacts, DistinctFacts DEF Before
  <2> QED
    BY <2>3, <2>4, <2>5 DEF Before
<1>3. P \subseteq Int
  <2>1. ASSUME NEW w \in P PROVE w \in Int
    <3>1. PICK l \in Libs : \E i \in 0 .. Pos(iCurrent, l) - 1 : w = file[l].word[i]
      BY DEF Passed
    <3>2. PICK i \in 0 .. Pos(iCurrent, l) - 1 : w = file[l].word[i]
      BY <3>1
    <3>3. i \in 0 .. file[l].wc - 1
      BY PosFacts
    <3> QED
      BY <3>2, <3>3, PosFacts, DistinctFacts
  <2> QED
    BY <2>1
<1> HIDE DEF P
<1>4. S \subseteq P
  BY <1>1
<1>5. ASSUME NEW w \in GreatestOf(S) PROVE w \in GreatestOf(P)
  <2>1. w \in S /\ \A v \in S : v <= w
    BY DEF GreatestOf
  <2>2. ASSUME NEW v \in P PROVE v <= w
    <3>1. PICK l \in Movable : v = Before(l) \/ v < Before(l)
      BY <1>2
    <3>2. Before(l) <= w /\ Before(l) \in P
      BY <2>1, <1>1
    <3>3. w \in Int /\ v \in Int /\ Before(l) \in Int
      BY <1>3, <1>4, <2>1, <3>2
    <3> QED
      BY <3>1, <3>2, <3>3
  <2> QED
    BY <1>4, <2>1, <2>2 DEF GreatestOf
<1>6. ASSUME NEW w \in GreatestOf(P) PROVE w \in GreatestOf(S)
  <2>1. w \in P /\ \A v \in P : v <= w
    BY DEF GreatestOf
  <2>2. PICK l \in Movable : w = Before(l) \/ w < Before(l)
    BY <1>2, <2>1
  <2>3. Before(l) <= w /\ Before(l) \in Int /\ w \in Int
    BY <1>1, <1>3, <2>1
  <2>4. w = Before(l)
    BY <2>2, <2>3
  <2> QED
    BY <1>4, <2>1, <2>4 DEF GreatestOf
<1> QED
  BY <1>5, <1>6 DEF Last, P

\* poGetPreWord() from one place leads to one place, back over the greatest
\* word behind.
LEMMA PreKeepsPlace ==
    ASSUME file \in [Libs -> DistinctFiles], file' = file,
           iCurrent \in Indexes, OnePlace(iCurrent), GetPreWord
    PROVE  /\ iCurrent' \in Indexes
           /\ OnePlace(iCurrent')
           /\ Passed(iCurrent') = Passed(iCurrent) \ GreatestOf(Passed(iCurrent))
           /\ word' = GreatestOf(Passed(iCurrent))
<1> DEFINE c == iCurrent
           d == iCurrent'
           Moves(l) == l \in Movable /\ Before(l) \in Last
<1>1. /\ word' = Last
      /\ d = [l \in Libs |->
                IF Moves(l) THEN Pos(c, l) - 1
                ELSE IF l \in Movable /\ Pos(c, l) = file[l].wc
                THEN INVALID_INDEX ELSE Pos(c, l)]
  <2> DEFINE e == [l \in Libs |-> IF iCurrent[l] = INVALID_INDEX THEN file[l].wc
                                                               ELSE iCurrent[l]]
             movable == { l \in Libs : 0 < e[l] /\ e[l] <= file[l].wc }
             before(l) == file[l].word[e[l] - 1]
             w == GreatestOf({ before(l) : l \in movable })
  <2>1. \A l \in Libs : e[l] = Pos(c, l)
    BY DEF Pos
  <2>2. movable = Movable
    BY <2>1, PosFacts DEF Movable
  <2>3. \A l \in Libs : before(l) = Before(l)
    BY <2>1 DEF Before
  <2>4. { before(l) : l \in movable } = { Before(l) : l \in Movable }
    BY <2>2, <2>3 DEF Movable
  <2>5. w = Last
    BY <2>4 DEF Last
  <2>6. /\ word' = w
        /\ d = [l \in Libs |->
                  IF l \in movable /\ before(l) \in w THEN e[l] - 1
                  ELSE IF l \in movable /\ e[l] = file[l].wc
                  THEN INVALID_INDEX ELSE e[l]]
    BY DEF GetPreWord
  <2> HIDE DEF e, movable, before, w
  <2> QED
    BY <2>1, <2>2, <2>3, <2>5, <2>6
<1>2. \A l \in Libs :
        /\ d[l] \in {INVALID_INDEX} \cup 0 .. file[l].wc
        /\ Moves(l) => /\ Pos(d, l) = Pos(c, l) - 1
                       /\ Pos(d, l) \in 0 .. file[l].wc - 1
                       /\ file[l].word[Pos(d, l)] \in Last
        /\ ~Moves(l) => Pos(d, l) = Pos(c, l)
  <2>1. TAKE l \in Libs
  <2>2. CASE Moves(l)
    <3>1. d[l] = Pos(c, l) - 1 /\ Pos(c, l) - 1 \in 0 .. file[l].wc - 1
      BY <1>1, <2>2, PosFacts DEF Movable
    <3>2. Pos(d, l) = Pos(c, l) - 1
      BY <3>1 DEF Pos, INVALID_INDEX
    <3> QED
      BY <2>2, <3>1, <3>2, PosFacts DEF Before
  <2>3. CASE ~Moves(l)
    <3>1. Pos(c, l) \in 0 .. file[l].wc
      BY PosFacts
    <3>2. d[l] = Pos(c, l) \/ (d[l] = INVALID_INDEX /\ Pos(c, l) = file[l].wc)
      BY <1>1, <2>3
    <3> QED
      BY <2>3, <3>1, <3>2 DEF Pos, INVALID_INDEX
  <2> QED
    BY <2>2, <2>3
<1>3. d \in Indexes
  <2>1. d \in [Libs -> Int]
    <3>1. \A l \in Libs : d[l] \in Int
      BY <1>2, PosFacts DEF INVALID_INDEX
    <3>2. d = [l \in Libs |-> d[l]]
      BY <1>1
    <3> HIDE DEF d
    <3> QED
      BY <3>1, <3>2
  <2> HIDE DEF d
  <2> QED
    BY <1>2, <2>1 DEF Indexes
<1>4. Last = GreatestOf(Passed(c))
  BY LastIsGreatest
<1>5. \A l \in Libs : Pos(c, l) \in 0 .. file[l].wc /\ Pos(d, l) \in 0 .. file[l].wc
        /\ Pos(d, l) <= Pos(c, l) /\ file[l].wc \in Nat
  BY <1>2, PosFacts
<1>6. Passed(d) = Passed(c) \ Last
  <2>1. ASSUME NEW v \in Passed(d) PROVE v \in Passed(c) \ Last
    <3>1. PICK l \in Libs : \E i \in 0 .. Pos(d, l) - 1 : v = file[l].word[i]
      BY <2>1 DEF Passed
    <3>2. PICK i \in 0 .. Pos(d, l) - 1 : v = file[l].word[i]
      BY <3>1
    <3>3. i \in 0 .. Pos(c, l) - 1 /\ i \in 0 .. file[l].wc - 1
            /\ Pos(c, l) - 1 \in 0 .. file[l].wc - 1
      BY <1>5
    <3>4. v \in Passed(c)
      BY <3>2, <3>3 DEF Passed
    <3>5. l \in Movable
      BY <1>5, <3>3 DEF Movable
    <3>6. ASSUME v \in Last PROVE FALSE
      <4>1. Before(l) <= v
        BY <3>5, <3>6 DEF Last, GreatestOf
      <4>2. i < Pos(c, l) - 1 => v < Before(l)
        BY <3>2, <3>3, PosFacts, DistinctFacts DEF Before
      <4>3. v \in Int /\ Before(l) \in Int
        BY <3>2, <3>3, PosFacts, DistinctFacts DEF Before
      <4>4. i = Pos(c, l) - 1
        BY <1>5, <3>3, <4>1, <4>2, <4>3
      <4>5. Moves(l)
        BY <3>2, <3>5, <3>6, <4>4 DEF Before
      <4> QED
        BY <1>2, <1>5, <4>4, <4>5
    <3> QED
      BY <3>4, <3>6
  <2>2. ASSUME NEW v \in Passed(c) \ Last PROVE v \in Passed(d)
    <3>1. PICK l \in Libs : \E i \in 0 .. Pos(c, l) - 1 : v = file[l].word[i]
      BY <2>2 DEF Passed
    <3>2. PICK i \in 0 .. Pos(c, l) - 1 : v = file[l].word[i]
      BY <3>1
    <3>3. i \in 0 .. Pos(d, l) - 1
      BY <1>2, <1>5, <2>2, <3>2
    <3> HIDE DEF d
    <3> QED
      BY <3>2, <3>3 DEF Passed
  <2> QED
    BY <2>1, <2>2
<1>7. ASSUME NEW l \in Libs, NEW k \in Libs,
             NEW i \in 0 .. Pos(d, l) - 1, NEW j \in Pos(d, k) .. file[k].wc - 1
      PROVE  file[l].word[i] < file[k].word[j]
  <2>1. i \in 0 .. Pos(c, l) - 1 /\ j \in 0 .. file[k].wc - 1 /\ i \in 0 .. file[l].wc - 1
    BY <1>5
  <2>2. CASE Pos(c, k) <= j
    <3>1. j \in Pos(c, k) .. file[k].wc - 1
      BY <1>5, <2>2
    <3> QED
      BY <2>1, <3>1 DEF OnePlace
  <2>3. CASE ~(Pos(c, k) <= j)
    <3>1. Moves(k) /\ j = Pos(d, k)
      BY <1>2, <1>5, <2>1, <2>3
    <3>2. file[k].word[j] \in Last
      BY <1>2, <3>1
    <3>3. file[l].word[i] \in Passed(d)
      <4> HIDE DEF d
      <4> QED
        BY DEF Passed
    <3>4. file[l].word[i] \in Passed(c) /\ file[l].word[i] \notin Last
      BY <1>6, <3>3
    <3>5. file[l].word[i] <= file[k].word[j]
      BY <1>4, <3>2, <3>4 DEF GreatestOf
    <3>6. file[l].word[i] \in Int /\ file[k].word[j] \in Int
      BY <2>1, PosFacts, DistinctFacts
    <3> QED
      BY <3>2, <3>4, <3>5, <3>6
  <2> QED
    BY <2>2, <2>3
<1>8. OnePlace(d)
  BY <1>7 DEF OnePlace
<1> QED
  BY <1>1, <1>3, <1>4, <1>6, <1>8

\* Right answers of the indexes, one for each dictionary, mark one place: the
\* words below w are behind it.
LEMMA LookupFindsPlace ==
    ASSUME file \in [Libs -> DistinctFiles], \A l \in Libs : synonyms[l] = {},
           NEW w \in Words, NEW c \in [Libs -> Int],
           \A l \in Libs : c[l] \in Lookup(l, w)
    PROVE  /\ c \in Indexes
           /\ OnePlace(c)
           /\ Passed(c) = { v \in AllWords : v < w }
<1>1. w \in Int
  BY WordsAssumption
<1>2. ASSUME NEW l \in Libs
      PROVE  /\ c[l] \in {INVALID_INDEX} \cup 0 .. file[l].wc - 1
             /\ \E found \in BOOLEAN :
                  LookupAnswer(file[l], "stardict_strcmp", w, found, c[l])
  BY DEF Lookup, SynHits
<1>3. c \in Indexes
  <2>1. \A l \in Libs : c[l] \in {INVALID_INDEX} \cup 0 .. file[l].wc
    <3>1. TAKE l \in Libs
    <3>2. file[l].wc \in Nat
      BY DistinctFacts
    <3> QED
      BY <1>2, <3>2
  <2> QED
    BY <2>1 DEF Indexes
<1>4. ASSUME NEW l \in Libs
      PROVE  /\ \A i \in 0 .. Pos(c, l) - 1 : file[l].word[i] < w
             /\ \A j \in Pos(c, l) .. file[l].wc - 1 : ~(file[l].word[j] < w)
  <2> DEFINE f == file[l]
  <2>1. /\ f.wc \in Nat /\ \A i \in 0 .. f.wc - 1 : f.word[i] \in Int
        /\ \A i, j \in 0 .. f.wc - 1 : i < j => f.word[i] < f.word[j]
    BY DistinctFacts
  <2>2. PICK found \in BOOLEAN : LookupAnswer(f, "stardict_strcmp", w, found, c[l])
    BY <1>2
  <2>3. \A v : Rank("stardict_strcmp", v) = v
    BY DEF Rank
  <2>4. CASE found
    <3>1. c[l] \in 0 .. f.wc - 1 /\ f.word[c[l]] = w
      BY <2>2, <2>3, <2>4 DEF LookupAnswer
    <3>2. Pos(c, l) = c[l]
      BY <3>1 DEF Pos, INVALID_INDEX
    <3>3. \A i \in 0 .. c[l] - 1 : f.word[i] < w
      BY <2>1, <3>1
    <3>4. \A j \in c[l] .. f.wc - 1 : ~(f.word[j] < w)
      <4>1. TAKE j \in c[l] .. f.wc - 1
      <4>2. j \in 0 .. f.wc - 1 /\ (j = c[l] \/ c[l] < j)
        BY <3>1
      <4> QED
        BY <2>1, <3>1, <4>2
    <3> QED
      BY <3>2, <3>3, <3>4
  <2>5. CASE ~found /\ c[l] = INVALID_INDEX
    <3>1. \A i \in 0 .. f.wc - 1 : f.word[i] < w
      BY <2>2, <2>3, <2>5 DEF LookupAnswer
    <3>2. Pos(c, l) = f.wc
      BY <2>5 DEF Pos
    <3> QED
      BY <2>1, <3>1, <3>2
  <2>6. CASE ~found /\ c[l] # INVALID_INDEX
    <3>1. /\ c[l] \in 0 .. f.wc - 1 /\ f.word[c[l]] > w
          /\ \A i \in 0 .. c[l] - 1 : f.word[i] < w
      BY <2>2, <2>3, <2>6 DEF LookupAnswer
    <3>2. Pos(c, l) = c[l]
      BY <2>6 DEF Pos
    <3>3. \A j \in c[l] .. f.wc - 1 : ~(f.word[j] < w)
      <4>1. TAKE j \in c[l] .. f.wc - 1
      <4>2. j \in 0 .. f.wc - 1 /\ (j = c[l] \/ c[l] < j)
        BY <3>1
      <4>3. f.word[c[l]] \in Int /\ f.word[j] \in Int
        BY <2>1, <3>1, <4>2
      <4>4. f.word[c[l]] <= f.word[j]
        BY <2>1, <3>1, <4>2, <4>3
      <4> QED
        BY <1>1, <3>1, <4>3, <4>4
    <3> QED
      BY <3>1, <3>2, <3>3
  <2> QED
    BY <2>4, <2>5, <2>6
<1>5. ASSUME NEW l \in Libs, NEW k \in Libs,
             NEW i \in 0 .. Pos(c, l) - 1, NEW j \in Pos(c, k) .. file[k].wc - 1
      PROVE  file[l].word[i] < file[k].word[j]
  <2>1. i \in 0 .. file[l].wc - 1 /\ j \in 0 .. file[k].wc - 1
    BY <1>3, PosFacts
  <2>2. file[l].word[i] \in Int /\ file[k].word[j] \in Int
    BY <2>1, DistinctFacts
  <2> QED
    BY <1>1, <1>4, <2>2
<1>6. ASSUME NEW v \in Passed(c) PROVE v \in AllWords /\ v < w
  <2>1. PICK l \in Libs : \E i \in 0 .. Pos(c, l) - 1 : v = file[l].word[i]
    BY <1>6 DEF Passed
  <2>2. PICK i \in 0 .. Pos(c, l) - 1 : v = file[l].word[i]
    BY <2>1
  <2>3. i \in 0 .. file[l].wc - 1
    BY <1>3, PosFacts
  <2> QED
    BY <1>4, <2>2, <2>3 DEF AllWords, WordsOf
<1>7. ASSUME NEW v \in AllWords, v < w PROVE v \in Passed(c)
  <2>1. PICK l \in Libs : \E i \in 0 .. file[l].wc - 1 : v = file[l].word[i]
    BY DEF AllWords, WordsOf
  <2>2. PICK i \in 0 .. file[l].wc - 1 : v = file[l].word[i]
    BY <2>1
  <2>3. i \in 0 .. Pos(c, l) - 1
    BY <1>3, <1>4, <1>7, <2>2, PosFacts
  <2> QED
    BY <2>2, <2>3 DEF Passed
<1> QED
  BY <1>3, <1>5, <1>6, <1>7 DEF OnePlace
-----------------------------------------------------------------------------
\* The inductive invariant: the dictionaries stay what they are, and the
\* indexes are in range and mark one place.
IInv ==
    /\ file \in [Libs -> DistinctFiles]
    /\ synonyms \in [Libs -> Synonyms]
    /\ iCurrent \in Indexes
    /\ Synced

\* What every step does to the dictionaries and the cursor.
CursorStep ==
    /\ file' = file /\ synonyms' = synonyms
    /\ \/ UNCHANGED <<iCurrent, word>>
       \/ GetNextWord
       \/ GetPreWord
       \/ \E w \in Words : GetNextWordOf(w)

LEMMA StepsMoveTheCursor == [Next]_vars => CursorStep
<1> SUFFICES ASSUME [Next]_vars PROVE CursorStep
  OBVIOUS
<1>1. CASE \E w \in Words, off \in Offsets, len \in Lengths : Request(w, off, len)
  BY <1>1 DEF Request, CursorStep, dicts
<1>2. CASE Back
  BY <1>2 DEF Back, CursorStep, dicts
<1>3. CASE BackEnd
  BY <1>3 DEF BackEnd, CursorStep, dicts
<1>4. CASE Collect
  BY <1>4 DEF Collect, CursorStep, dicts
<1>5. CASE Answer
  BY <1>5 DEF Answer, CursorStep, dicts
<1>6. CASE UNCHANGED vars
  BY <1>6 DEF vars, dicts, CursorStep
<1> QED
  BY <1>1, <1>2, <1>3, <1>4, <1>5, <1>6 DEF Next, Step

\* Initially nothing is behind the cursor.
LEMMA InitFindsPlace ==
    ASSUME Init
    PROVE  IInv /\ Passed(iCurrent) = {}
<1>1. \A l \in Libs : iCurrent[l] = 0 /\ Pos(iCurrent, l) = 0 /\ file[l].wc \in Nat
  BY DistinctFacts DEF Init, Pos, INVALID_INDEX
<1>2. iCurrent \in Indexes
  BY <1>1 DEF Init, Indexes
<1>3. OnePlace(iCurrent) /\ Passed(iCurrent) = {}
  BY <1>1 DEF OnePlace, Passed
<1> QED
  BY <1>2, <1>3 DEF Init, IInv, Synced

\* What the cursor calls do to the words behind the cursor.
LEMMA AdvanceEffect ==
    ASSUME IInv, file' = file, synonyms' = synonyms,
           NEW c \in Indexes, OnePlace(c), Advance(c)
    PROVE  /\ IInv'
           /\ Passed(iCurrent)' = Passed(c) \cup LeastOf(AllWords \ Passed(c))
           /\ word' = LeastOf(AllWords \ Passed(iCurrent)')
<1> USE DEF IInv, Synced
<1>1. /\ iCurrent' \in Indexes
      /\ OnePlace(iCurrent')
      /\ Passed(iCurrent') = Passed(c) \cup LeastOf(AllWords \ Passed(c))
      /\ word' = LeastOf(AllWords \ Passed(iCurrent'))
  BY AdvanceKeepsPlace
<1>2. Passed(iCurrent)' = Passed(iCurrent')
  BY DEF Passed, Pos
<1>3. OnePlace(iCurrent)' /\ (iCurrent \in Indexes)'
  BY <1>1 DEF OnePlace, Pos, Indexes
<1> QED
  BY <1>1, <1>2, <1>3

LEMMA SeekEffect ==
    ASSUME NoSynonyms, IInv, file' = file, synonyms' = synonyms,
           NEW w \in Words, GetNextWordOf(w)
    PROVE  /\ IInv'
           /\ Passed(iCurrent)' = { v \in AllWords : v < w }
                                    \cup LeastOf(AllWords \ { v \in AllWords : v < w })
           /\ word' = LeastOf(AllWords \ Passed(iCurrent)')
<1>1. PICK c \in [Libs -> {INVALID_INDEX} \cup 0 .. MaxWc - 1] :
          (\A l \in Libs : c[l] \in Lookup(l, w)) /\ Advance(c)
  BY DEF GetNextWordOf
<1>2. c \in [Libs -> Int]
  BY MaxWcAssumption DEF INVALID_INDEX
<1>3. file \in [Libs -> DistinctFiles] /\ \A l \in Libs : synonyms[l] = {}
  BY DEF NoSynonyms, IInv
<1>4. c \in Indexes /\ OnePlace(c) /\ Passed(c) = { v \in AllWords : v < w }
  BY <1>1, <1>2, <1>3, LookupFindsPlace
<1> QED
  BY <1>1, <1>4, AdvanceEffect

LEMMA PreEffect ==
    ASSUME IInv, file' = file, synonyms' = synonyms, GetPreWord
    PROVE  /\ IInv'
           /\ Passed(iCurrent)' = Passed(iCurrent) \ GreatestOf(Passed(iCurrent))
           /\ word' = GreatestOf(Passed(iCurrent))
<1> USE DEF IInv, Synced
<1>1. /\ iCurrent' \in Indexes
      /\ OnePlace(iCurrent')
      /\ Passed(iCurrent') = Passed(iCurrent) \ GreatestOf(Passed(iCurrent))
      /\ word' = GreatestOf(Passed(iCurrent))
  BY PreKeepsPlace
<1>2. Passed(iCurrent)' = Passed(iCurrent')
  BY DEF Passed, Pos
<1>3. OnePlace(iCurrent)' /\ (iCurrent \in Indexes)'
  BY <1>1 DEF OnePlace, Pos, Indexes
<1> QED
  BY <1>1, <1>2, <1>3

LEMMA NothingMoves ==
    ASSUME IInv, file' = file, synonyms' = synonyms, UNCHANGED iCurrent
    PROVE  IInv' /\ Passed(iCurrent)' = Passed(iCurrent) /\ AllWords' = AllWords
<1> USE DEF IInv, Synced
<1>1. Passed(iCurrent)' = Passed(iCurrent) /\ AllWords' = AllWords
  BY DEF Passed, Pos, AllWords, WordsOf
<1>2. OnePlace(iCurrent)' /\ (iCurrent \in Indexes)'
  BY DEF OnePlace, Pos, Indexes
<1> QED
  BY <1>1, <1>2

\* Each cursor call keeps the place and is a step of the merged cursor.
LEMMA CursorStepKeepsPlace ==
    ASSUME NoSynonyms, IInv, CursorStep
    PROVE  IInv' /\ [MC!Next]_(MC!vars)
<1>1. file' = file /\ synonyms' = synonyms
  BY DEF CursorStep
<1>2. AllWords' = AllWords
  BY <1>1 DEF AllWords, WordsOf
<1>3. CASE UNCHANGED <<iCurrent, word>>
  BY <1>1, <1>3, NothingMoves DEF MC!vars
<1>4. CASE GetNextWord
  <2>1. /\ IInv'
        /\ Passed(iCurrent)' = Passed(iCurrent) \cup LeastOf(AllWords \ Passed(iCurrent))
        /\ word' = LeastOf(AllWords \ Passed(iCurrent)')
    BY <1>1, <1>4, AdvanceEffect DEF GetNextWord, IInv, Synced
  <2> QED
    BY <1>2, <2>1 DEF MC!Next, MC!NextWord, MC!Pass, MC!Least, LeastOf
<1>5. CASE GetPreWord
  <2>1. /\ IInv'
        /\ Passed(iCurrent)' = Passed(iCurrent) \ GreatestOf(Passed(iCurrent))
        /\ word' = GreatestOf(Passed(iCurrent))
    BY <1>1, <1>5, PreEffect
  <2> QED
    BY <1>2, <2>1 DEF MC!Next, MC!PreWord, MC!Greatest, GreatestOf
<1>6. CASE \E w \in Words : GetNextWordOf(w)
  <2>1. PICK w \in Words : GetNextWordOf(w)
    BY <1>6
  <2>2. /\ IInv'
        /\ Passed(iCurrent)' = { v \in AllWords : v < w }
                                 \cup LeastOf(AllWords \ { v \in AllWords : v < w })
        /\ word' = LeastOf(AllWords \ Passed(iCurrent)')
    BY <1>1, <2>1, SeekEffect
  <2>3. MC!Seek(w)
    BY <1>2, <2>2 DEF MC!Seek, MC!Pass, MC!Least, LeastOf
  <2> QED
    BY <2>2, <2>3 DEF MC!Next
<1> QED
  BY <1>3, <1>4, <1>5, <1>6 DEF CursorStep

\* Over dictionaries without synonyms the indexes that poGetNextWord and
\* poGetPreWord keep always mark one place in the merged order.
THEOREM CursorsStaySynced == NoSynonyms => (Spec => []Synced)
<1> SUFFICES ASSUME NoSynonyms PROVE Spec => []Synced
  OBVIOUS
<1>1. Init => IInv
  BY InitFindsPlace
<1>2. IInv /\ [Next]_vars => IInv'
  BY StepsMoveTheCursor, CursorStepKeepsPlace
<1>3. IInv => Synced
  BY DEF IInv
<1> QED
  BY <1>1, <1>2, <1>3, PTL DEF Spec

\* Over dictionaries without synonyms the per-dictionary cursors of Libs
\* implement one cursor over the merged list of their words.
THEOREM MergedOrder == NoSynonyms => (Spec => Implements)
<1> SUFFICES ASSUME NoSynonyms PROVE Spec => Implements
  OBVIOUS
<1>1. Init => IInv
  BY InitFindsPlace
<1>2. Init => MC!Init
  <2> SUFFICES ASSUME Init PROVE MC!Init
    OBVIOUS
  <2>1. Passed(iCurrent) = {}
    BY InitFindsPlace
  <2>2. AllWords \subseteq Words
    BY DistinctFacts DEF Init, AllWords, WordsOf
  <2> QED
    BY <2>1, <2>2 DEF Init, MC!Init
<1>3. IInv /\ [Next]_vars => IInv' /\ [MC!Next]_(MC!vars)
  BY StepsMoveTheCursor, CursorStepKeepsPlace
<1> QED
  BY <1>1, <1>2, <1>3, PTL DEF Spec, Implements, MC!Spec
-----------------------------------------------------------------------------
(* Types, with synonyms or without. *)

\* TypeOK, and that the entries of a .syn file are of words that are there.
CursorTypes ==
    /\ TypeOK
    /\ \A l \in Libs : \A s \in synonyms[l] : s.idx < file[l].wc

\* The words at the indexes are words.
LEMMA CurrentIsWords ==
    ASSUME file \in [Libs -> DistinctFiles], NEW c \in [Libs -> Int]
    PROVE  CurrentWord(c) \in SUBSET Words
<1>1. ASSUME NEW l \in HasWord(c) PROVE WordAt(c, l) \in Words
  <2>1. l \in Libs /\ c[l] \in Int /\ c[l] >= 0 /\ c[l] < file[l].wc
    BY DEF HasWord
  <2>2. c[l] \in 0 .. file[l].wc - 1
    BY <2>1, DistinctFacts
  <2> QED
    BY <2>1, <2>2, DistinctFacts DEF WordAt
<1> QED
  BY <1>1 DEF CurrentWord, LeastOf

LEMMA AdvanceTypes ==
    ASSUME file \in [Libs -> DistinctFiles], file' = file, NEW c \in Indexes, Advance(c)
    PROVE  iCurrent' \in Indexes /\ word' \in SUBSET Words
<1> DEFINE d == iCurrent'
           Moves(l) == l \in HasWord(c) /\ WordAt(c, l) \in CurrentWord(c)
<1>1. d = [l \in Libs |-> IF Moves(l) THEN c[l] + 1 ELSE c[l]]
  BY DEF Advance
<1>2. ASSUME NEW l \in Libs
      PROVE  d[l] \in Int /\ d[l] \in {INVALID_INDEX} \cup 0 .. file[l].wc
  <2>1. c[l] \in Int /\ c[l] \in {INVALID_INDEX} \cup 0 .. file[l].wc /\ file[l].wc \in Nat
    BY DistinctFacts DEF Indexes
  <2>2. d[l] = c[l] \/ (d[l] = c[l] + 1 /\ l \in HasWord(c))
    BY <1>1
  <2> QED
    BY <2>1, <2>2 DEF HasWord
<1>3. d = [l \in Libs |-> d[l]]
  BY <1>1
<1>4. word' = {} \/ word' = CurrentWord(d)
  BY DEF Advance
<1> HIDE DEF d
<1>5. d \in [Libs -> Int]
  BY <1>2, <1>3
<1>6. d \in Indexes /\ CurrentWord(d) \in SUBSET Words
  BY <1>2, <1>5, CurrentIsWords DEF Indexes
<1> QED
  BY <1>4, <1>6 DEF d

LEMMA PreTypes ==
    ASSUME file \in [Libs -> DistinctFiles], iCurrent \in Indexes, GetPreWord
    PROVE  iCurrent' \in Indexes /\ word' \in SUBSET Words
<1> DEFINE e == [l \in Libs |-> IF iCurrent[l] = INVALID_INDEX THEN file[l].wc
                                                             ELSE iCurrent[l]]
           movable == { l \in Libs : 0 < e[l] /\ e[l] <= file[l].wc }
           before(l) == file[l].word[e[l] - 1]
           w == GreatestOf({ before(l) : l \in movable })
           d == iCurrent'
<1>1. /\ word' = w
      /\ d = [l \in Libs |-> IF l \in movable /\ before(l) \in w THEN e[l] - 1
                             ELSE IF l \in movable /\ e[l] = file[l].wc
                             THEN INVALID_INDEX ELSE e[l]]
  BY DEF GetPreWord
<1>2. \A l \in Libs : e[l] \in 0 .. file[l].wc /\ file[l].wc \in Nat
  BY PosFacts DEF Pos
<1>3. \A l \in movable : l \in Libs /\ e[l] - 1 \in 0 .. file[l].wc - 1
  BY <1>2
<1> HIDE DEF e, movable
<1>4. \A l \in movable : before(l) \in Words
  BY <1>3, DistinctFacts
<1>5. word' \in SUBSET Words
  BY <1>1, <1>4 DEF GreatestOf
<1> HIDE DEF w, before
<1>6. ASSUME NEW l \in Libs
      PROVE  d[l] \in Int /\ d[l] \in {INVALID_INDEX} \cup 0 .. file[l].wc
  <2>1. \/ d[l] = e[l] - 1 /\ l \in movable
        \/ d[l] = INVALID_INDEX
        \/ d[l] = e[l]
    BY <1>1
  <2> QED
    BY <1>2, <1>3, <2>1 DEF INVALID_INDEX
<1>7. d = [l \in Libs |-> d[l]]
  BY <1>1
<1> HIDE DEF d
<1>8. d \in Indexes
  BY <1>6, <1>7 DEF Indexes
<1> QED
  BY <1>5, <1>8 DEF d

\* Where the lookups of Dict leave the cursor.
LEMMA SeekTypes ==
    ASSUME CursorTypes, file' = file, NEW w \in Words, GetNextWordOf(w)
    PROVE  iCurrent' \in Indexes /\ word' \in SUBSET Words
<1>1. PICK c \in [Libs -> {INVALID_INDEX} \cup 0 .. MaxWc - 1] :
          (\A l \in Libs : c[l] \in Lookup(l, w)) /\ Advance(c)
  BY DEF GetNextWordOf
<1>2. file \in [Libs -> DistinctFiles]
  BY DEF CursorTypes, TypeOK
<1>3. ASSUME NEW l \in Libs PROVE c[l] \in Int /\ c[l] \in {INVALID_INDEX} \cup 0 .. file[l].wc
  <2>1. c[l] \in {INVALID_INDEX} \cup 0 .. MaxWc - 1 /\ file[l].wc \in Nat /\ c[l] \in Lookup(l, w)
    BY <1>1, <1>2, DistinctFacts
  <2>2. c[l] = INVALID_INDEX \/ c[l] < file[l].wc
    BY <2>1, MaxWcAssumption DEF CursorTypes, Lookup, SynHits, INVALID_INDEX
  <2> QED
    BY <2>1, <2>2, MaxWcAssumption DEF INVALID_INDEX
<1>4. c \in Indexes
  BY <1>3 DEF Indexes
<1> QED
  BY <1>1, <1>2, <1>4, AdvanceTypes

LEMMA CursorTypesNext ==
    ASSUME CursorTypes, [Next]_vars
    PROVE  CursorTypes'
<1> USE DEF CursorTypes
<1>1. /\ file \in [Libs -> DistinctFiles] /\ iCurrent \in Indexes
      /\ word \in SUBSET Words /\ neighbour \in Seq(Words)
      /\ pc \in {"idle", "back", "collect"}
  BY DEF TypeOK, Indexes
<1>2. file' = file /\ synonyms' = synonyms
  BY StepsMoveTheCursor DEF CursorStep
<1>3. iCurrent' \in Indexes /\ word' \in SUBSET Words
  <2>1. CASE UNCHANGED <<iCurrent, word>>
    BY <1>1, <2>1
  <2>2. CASE GetNextWord
    BY <1>1, <1>2, <2>2, AdvanceTypes DEF GetNextWord
  <2>3. CASE GetPreWord
    BY <1>1, <2>3, PreTypes
  <2>4. CASE \E w \in Words : GetNextWordOf(w)
    BY <1>2, <2>4, SeekTypes
  <2> QED
    BY <2>1, <2>2, <2>3, <2>4, StepsMoveTheCursor DEF CursorStep
<1>4. pc' \in {"idle", "back", "collect"} /\ neighbour' \in Seq(Words)
  <2>1. CASE \E w \in Words, off \in Offsets, len \in Lengths : Request(w, off, len)
    BY <2>1 DEF Request
  <2>2. CASE Back
    BY <1>1, <2>2 DEF Back
  <2>3. CASE BackEnd
    BY <1>1, <2>3 DEF BackEnd
  <2>4. CASE Collect
    <3>1. pc' \in {"idle", "collect"}
      BY <2>4 DEF Collect
    <3>2. neighbour' = neighbour \/ \E w \in word' : neighbour' = Append(neighbour, w)
      BY <2>4 DEF Collect
    <3>3. \A w \in word' : w \in Words
      BY <1>3
    <3> QED
      BY <1>1, <3>1, <3>2, <3>3
  <2>5. CASE Answer
    BY <1>1, <2>5 DEF Answer
  <2>6. CASE UNCHANGED vars
    BY <1>1, <2>6 DEF vars
  <2> QED
    BY <2>1, <2>2, <2>3, <2>4, <2>5, <2>6 DEF Next, Step
<1>5. TypeOK'
  BY <1>1, <1>2, <1>3, <1>4 DEF TypeOK, Indexes
<1> QED
  BY <1>2, <1>5

\* Whatever synonyms the dictionaries have, an index of the cursor is
\* INVALID_INDEX or stays between the first word and the end.
THEOREM CursorsStayInRange == Spec => []TypeOK
<1>1. Init => CursorTypes
  <2> SUFFICES ASSUME Init PROVE CursorTypes
    OBVIOUS
  <2>1. file \in [Libs -> DistinctFiles] /\ \A l \in Libs : file[l].wc \in Nat
    BY DistinctFacts DEF Init
  <2> QED
    BY <2>1 DEF Init, CursorTypes, TypeOK
<1>2. CursorTypes /\ [Next]_vars => CursorTypes'
  BY CursorTypesNext
<1>3. CursorTypes => TypeOK
  BY DEF CursorTypes
<1> QED
  BY <1>1, <1>2, <1>3, PTL DEF Spec
-----------------------------------------------------------------------------
(* The answer of get_neighbour. *)

\* How many words are behind the cursor, now and when it has gone back.
Behind == Cardinality(Passed(iCurrent))
Start(w) == MaxOf(0, MinOf(Below(w) + 1, Cardinality(AllWords)) - MaxOf(0, 2 - offset))

\* The first loop has gone back as often as it has counted, or to the first
\* word; the second has added as many words as the cursor has passed since.
GoneBack(w) ==
    Behind = MaxOf(0, MinOf(Below(w) + 1, Cardinality(AllWords))
                        - (MaxOf(0, 2 - offset) - MaxOf(0, back)))
Collected(w) ==
    /\ Behind = Start(w) + Len(neighbour)
    /\ \A i \in 1 .. Len(neighbour) :
         neighbour[i] \in AllWords /\ Below(neighbour[i]) = Start(w) + i

NeighbourInv ==
    /\ IInv
    /\ CursorTypes
    /\ str \in SUBSET Words /\ offset \in Int /\ length \in Nat /\ back \in Int
    /\ pc = "back" => neighbour = <<>> /\ \A w \in str : GoneBack(w)
    /\ pc = "collect" => /\ Len(neighbour) <= length
                         /\ Len(neighbour) > 0 => Behind < Cardinality(AllWords)
                         /\ \A w \in str : Collected(w)
    /\ NeighbourAnswer

\* A finite set of words has a least and a greatest one.
LEMMA EndsExist ==
    ASSUME NEW A, IsFiniteSet(A), A \subseteq Int, A # {}
    PROVE  (\E w \in A : LeastOf(A) = {w}) /\ (\E w \in A : GreatestOf(A) = {w})
<1>1. PICK n \in Nat : ExistsBijection(1 .. n, A)
  BY FS_NatBijection
<1>2. PICK f \in [1 .. n -> A] : \A a \in A : \E i \in 1 .. n : f[i] = a
  BY <1>1 DEF ExistsBijection, Bijection, Surjection
<1>3. n # 0 /\ \A i \in 1 .. n : f[i] \in A /\ f[i] \in Int
  <2>1. PICK a \in A : TRUE
    OBVIOUS
  <2>2. \E i \in 1 .. n : f[i] = a
    BY <1>2
  <2>3. ASSUME NEW i \in 1 .. n PROVE f[i] \in A /\ f[i] \in Int
    BY <1>2
  <2>4. n # 0
    <3>1. PICK i \in 1 .. n : f[i] = a
      BY <2>2
    <3> QED
      BY <3>1
  <2> QED
    BY <2>3, <2>4
<1> DEFINE R == { x \in (1 .. n) \X (1 .. n) : f[x[1]] < f[x[2]] }
           Q == { x \in (1 .. n) \X (1 .. n) : f[x[2]] < f[x[1]] }
<1>4. \A i, j \in 1 .. n : /\ <<i, j>> \in R <=> f[i] < f[j]
                           /\ <<i, j>> \in Q <=> f[j] < f[i]
  OBVIOUS
<1> HIDE DEF R, Q
<1>5. \A i \in 1 .. n : <<i, i>> \notin R /\ <<i, i>> \notin Q
  BY <1>3, <1>4
<1>6. ASSUME NEW i \in 1 .. n, NEW j \in 1 .. n, NEW k \in 1 .. n
      PROVE  /\ <<i, j>> \in R /\ <<j, k>> \in R => <<i, k>> \in R
             /\ <<i, j>> \in Q /\ <<j, k>> \in Q => <<i, k>> \in Q
  <2>1. f[i] \in Int /\ f[j] \in Int /\ f[k] \in Int
    BY <1>3
  <2>2. /\ f[i] < f[j] /\ f[j] < f[k] => f[i] < f[k]
        /\ f[j] < f[i] /\ f[k] < f[j] => f[k] < f[i]
    BY <2>1
  <2> QED
    BY <1>4, <2>2
<1>7. \E h \in 1 .. n : \A i \in 1 .. n : <<i, h>> \notin R
  BY <1>3, <1>5, <1>6, FirstOfAll
<1>8. \E h \in 1 .. n : \A i \in 1 .. n : <<i, h>> \notin Q
  BY <1>3, <1>5, <1>6, FirstOfAll
<1>9. \E w \in A : LeastOf(A) = {w}
  <2>1. PICK h \in 1 .. n : \A i \in 1 .. n : <<i, h>> \notin R
    BY <1>7
  <2>2. ASSUME NEW a \in A PROVE f[h] <= a
    <3>1. PICK i \in 1 .. n : f[i] = a
      BY <1>2
    <3>2. ~(f[i] < f[h]) /\ f[i] \in Int /\ f[h] \in Int
      BY <1>3, <1>4, <2>1
    <3> QED
      BY <3>1, <3>2
  <2>3. f[h] \in A /\ f[h] \in Int
    BY <1>3
  <2>4. ASSUME NEW a \in LeastOf(A) PROVE a = f[h]
    <3>1. a \in A /\ a <= f[h] /\ f[h] <= a /\ a \in Int
      BY <2>2, <2>3 DEF LeastOf
    <3> QED
      BY <2>3, <3>1
  <2>5. f[h] \in LeastOf(A)
    BY <2>2, <2>3 DEF LeastOf
  <2> QED
    BY <2>3, <2>4, <2>5
<1>10. \E w \in A : GreatestOf(A) = {w}
  <2>1. PICK h \in 1 .. n : \A i \in 1 .. n : <<i, h>> \notin Q
    BY <1>8
  <2>2. ASSUME NEW a \in A PROVE a <= f[h]
    <3>1. PICK i \in 1 .. n : f[i] = a
      BY <1>2
    <3>2. ~(f[h] < f[i]) /\ f[i] \in Int /\ f[h] \in Int
      BY <1>3, <1>4, <2>1
    <3> QED
      BY <3>1, <3>2
  <2>3. f[h] \in A /\ f[h] \in Int
    BY <1>3
  <2>4. ASSUME NEW a \in GreatestOf(A) PROVE a = f[h]
    <3>1. a \in A /\ a <= f[h] /\ f[h] <= a /\ a \in Int
      BY <2>2, <2>3 DEF GreatestOf
    <3> QED
      BY <2>3, <3>1
  <2>5. f[h] \in GreatestOf(A)
    BY <2>2, <2>3 DEF GreatestOf
  <2> QED
    BY <2>3, <2>4, <2>5
<1> QED
  BY <1>9, <1>10

\* What passing a word, and going back over one, does to the number of words
\* behind a place of the merged order.
LEMMA Counting ==
    ASSUME NEW A, IsFiniteSet(A), A \subseteq Int, NEW S, S \subseteq A,
           \A v \in S : \A w \in A \ S : v < w
    PROVE  /\ Cardinality(A) \in Nat /\ Cardinality(S) \in 0 .. Cardinality(A)
           /\ \A w \in LeastOf(A \ S) : w \in A /\ { v \in A : v < w } = S
           /\ LeastOf(A \ S) # {} => Cardinality(S) < Cardinality(A)
           /\ LeastOf(A \ S) = {} => Cardinality(S) = Cardinality(A)
           /\ Cardinality(S \cup LeastOf(A \ S)) = MinOf(Cardinality(S) + 1, Cardinality(A))
           /\ GreatestOf(S) = {} => Cardinality(S) = 0
           /\ Cardinality(S \ GreatestOf(S)) = MaxOf(0, Cardinality(S) - 1)
<1> DEFINE a == Cardinality(A)
           s == Cardinality(S)
           L == LeastOf(A \ S)
           G == GreatestOf(S)
<1>1. IsFiniteSet(S) /\ s <= a /\ (a = s => A = S) /\ a \in Nat /\ s \in Nat
  BY FS_Subset, FS_CardinalityType
<1>2. IsFiniteSet(A \ S) /\ A \ S \subseteq Int
  BY FS_Subset
<1>3. ASSUME NEW w \in L PROVE w \in A /\ { v \in A : v < w } = S
  <2>1. w \in A /\ w \notin S /\ \A v \in A \ S : w <= v
    BY DEF LeastOf
  <2>2. ASSUME NEW v \in A, v < w PROVE v \in S
    <3>1. SUFFICES ASSUME v \notin S PROVE FALSE
      OBVIOUS
    <3>2. w <= v /\ v \in Int /\ w \in Int
      BY <2>1, <3>1
    <3> QED
      BY <2>2, <3>2
  <2> QED
    BY <2>1, <2>2
<1>4. /\ L # {} => s < a
      /\ L = {} => s = a
      /\ Cardinality(S \cup L) = MinOf(s + 1, a)
  <2>1. CASE A \ S # {}
    <3>1. L # {} /\ s < a /\ Cardinality(S \cup L) = MinOf(s + 1, a)
      <4>1. PICK w \in A \ S : L = {w}
        <5> DEFINE B == A \ S
        <5>1. IsFiniteSet(B) /\ B \subseteq Int /\ B # {}
          BY <1>2, <2>1
        <5> HIDE DEF B
        <5>2. \E w \in B : LeastOf(B) = {w}
          BY <5>1, EndsExist
        <5> QED
          BY <5>2 DEF B
      <4>2. Cardinality(S \cup {w}) = s + 1
        BY <1>1, <4>1, FS_AddElement
      <4>3. s # a
        BY <1>1, <2>1
      <4> HIDE DEF L, s, a
      <4> QED
        BY <1>1, <4>1, <4>2, <4>3 DEF MinOf
    <3> QED
      BY <3>1
  <2>2. CASE A \ S = {}
    <3>1. L = {} /\ S = A
      BY <2>2 DEF LeastOf
    <3> HIDE DEF L
    <3>2. s = a /\ S \cup L = S
      BY <3>1
    <3>3. MinOf(s + 1, a) = s
      <4> HIDE DEF s, a
      <4> QED
        BY <1>1, <3>2 DEF MinOf
    <3> QED
      BY <3>1, <3>2, <3>3
  <2> QED
    BY <2>1, <2>2
<1>5. /\ G = {} => s = 0
      /\ Cardinality(S \ G) = MaxOf(0, s - 1)
  <2>1. CASE S # {}
    <3>1. PICK w \in S : G = {w}
      BY <1>1, <2>1, EndsExist
    <3>2. Cardinality(S \ {w}) = s - 1
      BY <1>1, <3>1, FS_RemoveElement
    <3>3. s # 0
      BY <1>1, <2>1, FS_EmptySet
    <3> HIDE DEF G, s
    <3> QED
      BY <1>1, <3>1, <3>2, <3>3 DEF MaxOf
  <2>2. CASE S = {}
    <3>1. s = 0 /\ S \ G = {} /\ Cardinality(S \ G) = 0
      BY <2>2, FS_EmptySet
    <3> HIDE DEF G, s
    <3> QED
      BY <3>1 DEF MaxOf
  <2> QED
    BY <2>1, <2>2
<1> QED
  <2>1. s \in 0 .. a
    <3> HIDE DEF s, a
    <3> QED
      BY <1>1
  <2> QED
    BY <1>1, <1>3, <1>4, <1>5, <2>1

\* The words of all dictionaries are finitely many, and what is behind the
\* cursor is a beginning of them.
LEMMA WordsAreFinite ==
    ASSUME file \in [Libs -> DistinctFiles]
    PROVE  IsFiniteSet(AllWords) /\ AllWords \subseteq Words /\ AllWords \subseteq Int
<1>1. ASSUME NEW l \in Libs PROVE IsFiniteSet(WordsOf(l)) /\ WordsOf(l) \subseteq Words
  <2> DEFINE n == file[l].wc
             g == [i \in 0 .. n - 1 |-> file[l].word[i]]
  <2>1. n \in Nat /\ \A i \in 0 .. n - 1 : file[l].word[i] \in Words
    BY DistinctFacts
  <2>2. g \in Surjection(0 .. n - 1, WordsOf(l))
    BY DEF Surjection, WordsOf
  <2>3. IsFiniteSet(0 .. n - 1)
    BY <2>1, FS_Interval
  <2> HIDE DEF g
  <2>4. IsFiniteSet(WordsOf(l))
    BY <2>2, <2>3, FS_Surjection
  <2> QED
    BY <2>1, <2>4 DEF WordsOf
<1> DEFINE All == { WordsOf(l) : l \in Libs }
           h == [l \in Libs |-> WordsOf(l)]
<1>2. h \in Surjection(Libs, All)
  BY DEF Surjection
<1>3. \A T \in All : IsFiniteSet(T) /\ T \subseteq Words
  BY <1>1
<1> HIDE DEF h, All
<1>4. IsFiniteSet(All)
  BY <1>2, LibsAssumption, FS_Surjection
<1>5. IsFiniteSet(UNION All) /\ UNION All \subseteq Words
  BY <1>3, <1>4, FS_UNION
<1> QED
  BY <1>5, WordsAssumption DEF All, AllWords

LEMMA PassedIsBeginning ==
    ASSUME IInv
    PROVE  /\ Passed(iCurrent) \subseteq AllWords
           /\ \A v \in Passed(iCurrent) : \A w \in AllWords \ Passed(iCurrent) : v < w
<1> USE DEF IInv, Synced
<1>1. ASSUME NEW v \in Passed(iCurrent)
      PROVE  \E l \in Libs : \E i \in 0 .. Pos(iCurrent, l) - 1 :
                 v = file[l].word[i] /\ i \in 0 .. file[l].wc - 1
  <2>1. PICK l \in Libs : \E i \in 0 .. Pos(iCurrent, l) - 1 : v = file[l].word[i]
    BY <1>1 DEF Passed
  <2>2. PICK i \in 0 .. Pos(iCurrent, l) - 1 : v = file[l].word[i]
    BY <2>1
  <2>3. i \in 0 .. file[l].wc - 1
    BY PosFacts
  <2> QED
    BY <2>2, <2>3
<1>2. ASSUME NEW v \in Passed(iCurrent) PROVE v \in AllWords
  BY <1>1 DEF AllWords, WordsOf
<1>3. ASSUME NEW v \in Passed(iCurrent), NEW w \in AllWords \ Passed(iCurrent)
      PROVE  v < w
  <2>1. PICK l \in Libs : \E i \in 0 .. Pos(iCurrent, l) - 1 : v = file[l].word[i]
    BY <1>1
  <2>2. PICK k \in Libs : \E j \in Pos(iCurrent, k) .. file[k].wc - 1 : w = file[k].word[j]
    BY Ahead
  <2> QED
    BY <2>1, <2>2 DEF OnePlace
<1> QED
  BY <1>2, <1>3

\* What each cursor call does to the number of words behind the cursor, and
\* which word it returns.
LEMMA NextCounts ==
    ASSUME IInv, file' = file, synonyms' = synonyms, GetNextWord
    PROVE  /\ IInv' /\ AllWords' = AllWords
           /\ Behind' = MinOf(Behind + 1, Cardinality(AllWords))
           /\ \A w \in word' : w \in AllWords /\ Below(w) = Behind'
           /\ word' # {} => Behind' < Cardinality(AllWords)
           /\ word' = {} => Behind' = Cardinality(AllWords)
<1> DEFINE P == Passed(iCurrent)
           Q == Passed(iCurrent)'
<1>1. /\ IInv' /\ AllWords' = AllWords
      /\ Q = P \cup LeastOf(AllWords \ P)
      /\ word' = LeastOf(AllWords \ Q)
  <2>1. iCurrent \in Indexes /\ OnePlace(iCurrent) /\ Advance(iCurrent)
    BY DEF GetNextWord, IInv, Synced
  <2>2. /\ IInv' /\ Q = P \cup LeastOf(AllWords \ P)
        /\ word' = LeastOf(AllWords \ Q)
    BY <2>1, AdvanceEffect
  <2>3. AllWords' = AllWords
    BY DEF AllWords, WordsOf
  <2> QED BY <2>2, <2>3
<1>2. IsFiniteSet(AllWords) /\ AllWords \subseteq Int
  BY WordsAreFinite DEF IInv
<1>3. P \subseteq AllWords /\ \A v \in P : \A w \in AllWords \ P : v < w
  BY PassedIsBeginning
<1>4. Q \subseteq AllWords /\ \A v \in Q : \A w \in AllWords \ Q : v < w
  <2>1. (Passed(iCurrent) \subseteq AllWords)'
        /\ (\A v \in Passed(iCurrent) : \A w \in AllWords \ Passed(iCurrent) : v < w)'
    BY <1>1, PassedIsBeginning, PTL
  <2> QED
    BY <1>1, <2>1
<1>5. Behind = Cardinality(P) /\ Behind' = Cardinality(Q)
  BY DEF Behind
<1> HIDE DEF P, Q
<1>6. Cardinality(Q) = MinOf(Cardinality(P) + 1, Cardinality(AllWords))
  BY <1>1, <1>2, <1>3, Counting
<1>7. /\ \A w \in LeastOf(AllWords \ Q) : w \in AllWords /\ { v \in AllWords : v < w } = Q
      /\ LeastOf(AllWords \ Q) # {} => Cardinality(Q) < Cardinality(AllWords)
      /\ LeastOf(AllWords \ Q) = {} => Cardinality(Q) = Cardinality(AllWords)
  BY <1>2, <1>4, Counting
<1> QED
  BY <1>1, <1>5, <1>6, <1>7 DEF Below

LEMMA PreCounts ==
    ASSUME IInv, file' = file, synonyms' = synonyms, GetPreWord
    PROVE  /\ IInv' /\ AllWords' = AllWords
           /\ Behind \in Nat
           /\ Behind' = MaxOf(0, Behind - 1)
           /\ word' = {} => Behind = 0
<1> DEFINE P == Passed(iCurrent)
           Q == Passed(iCurrent)'
<1>1. /\ IInv' /\ AllWords' = AllWords
      /\ Q = P \ GreatestOf(P)
      /\ word' = GreatestOf(P)
  BY PreEffect DEF AllWords, WordsOf
<1>2. IsFiniteSet(AllWords) /\ AllWords \subseteq Int
  BY WordsAreFinite DEF IInv
<1>3. P \subseteq AllWords /\ \A v \in P : \A w \in AllWords \ P : v < w
  BY PassedIsBeginning
<1>4. Behind = Cardinality(P) /\ Behind' = Cardinality(Q)
  BY DEF Behind
<1> HIDE DEF P, Q
<1>5. /\ Cardinality(AllWords) \in Nat /\ Cardinality(P) \in 0 .. Cardinality(AllWords)
      /\ GreatestOf(P) = {} => Cardinality(P) = 0
      /\ Cardinality(P \ GreatestOf(P)) = MaxOf(0, Cardinality(P) - 1)
  BY <1>2, <1>3, Counting
<1> QED
  BY <1>1, <1>4, <1>5

LEMMA SeekCounts ==
    ASSUME NoSynonyms, IInv, file' = file, synonyms' = synonyms,
           NEW w \in Words, GetNextWordOf(w)
    PROVE  /\ IInv' /\ AllWords' = AllWords
           /\ Behind' = MinOf(Below(w) + 1, Cardinality(AllWords))
<1> DEFINE S == { v \in AllWords : v < w }
           Q == Passed(iCurrent)'
<1>0. AllWords' = AllWords
  BY DEF AllWords, WordsOf
<1>1. /\ IInv' /\ AllWords' = AllWords
      /\ Q = S \cup LeastOf(AllWords \ S)
  BY <1>0, SeekEffect
<1>2. IsFiniteSet(AllWords) /\ AllWords \subseteq Int /\ w \in Int
  BY WordsAreFinite, WordsAssumption DEF IInv
<1>3. S \subseteq AllWords /\ \A v \in S : \A u \in AllWords \ S : v < u
  BY <1>2
<1>4. Below(w) = Cardinality(S) /\ Behind' = Cardinality(Q)
  BY DEF Behind, Below
<1> HIDE DEF S, Q
<1>5. Cardinality(S \cup LeastOf(AllWords \ S)) = MinOf(Cardinality(S) + 1, Cardinality(AllWords))
  BY <1>2, <1>3, Counting
<1> QED
  BY <1>1, <1>4, <1>5

\* Numbers of words are numbers.
LEMMA Numbers ==
    ASSUME IInv
    PROVE  /\ Cardinality(AllWords) \in Nat /\ Behind \in 0 .. Cardinality(AllWords)
           /\ \A w : Below(w) \in Nat
<1>1. IsFiniteSet(AllWords) /\ AllWords \subseteq Int
  BY WordsAreFinite DEF IInv
<1>2. Passed(iCurrent) \subseteq AllWords
  BY PassedIsBeginning
<1>3. ASSUME NEW S \in SUBSET AllWords
      PROVE  Cardinality(S) \in Nat /\ Cardinality(S) <= Cardinality(AllWords)
  BY <1>1, FS_Subset, FS_CardinalityType
<1>4. Cardinality(AllWords) \in Nat
  BY <1>3
<1>5. Behind \in Nat /\ Behind <= Cardinality(AllWords)
  BY <1>2, <1>3 DEF Behind
<1>6. \A w : { v \in AllWords : v < w } \in SUBSET AllWords
  OBVIOUS
<1> QED
  BY <1>3, <1>4, <1>5, <1>6 DEF Below
-----------------------------------------------------------------------------
\* The cursor is placed after the word asked for.
LEMMA RequestNeighbour ==
    ASSUME NoSynonyms, NeighbourInv,
           NEW w \in Words, NEW off \in Offsets, NEW len \in Lengths, Request(w, off, len)
    PROVE  NeighbourInv'
<1> DEFINE n == Cardinality(AllWords)
<1>1. /\ str' = {w} /\ offset' = off /\ length' = len /\ back' = 2 - off
      /\ neighbour' = <<>> /\ pc' = "back" /\ GetNextWordOf(w)
      /\ file' = file /\ synonyms' = synonyms
      /\ off \in Int /\ len \in Nat
  BY RequestAssumption DEF Request, dicts
<1>2. CursorTypes'
  <2>1. Next
    BY DEF Next
  <2> QED
    BY <2>1, CursorTypesNext DEF NeighbourInv
<1>3. /\ IInv' /\ AllWords' = AllWords
      /\ Behind' = MinOf(Below(w) + 1, n)
  BY <1>1, SeekCounts DEF NeighbourInv
<1>4. n \in Nat /\ Below(w) \in Nat /\ Below(w)' = Below(w)
  BY <1>3, Numbers DEF NeighbourInv, Below
<1>5. GoneBack(w)'
  <2> DEFINE b == Below(w)
  <2>1. /\ Behind' = MinOf(b + 1, n) /\ b \in Nat /\ n \in Nat
        /\ MaxOf(0, 2 - off) - MaxOf(0, 2 - off) = 0
    BY <1>1, <1>3, <1>4 DEF MaxOf
  <2> HIDE DEF b, n
  <2>2. MinOf(b + 1, n) = MaxOf(0, MinOf(b + 1, n) - (MaxOf(0, 2 - off) - MaxOf(0, 2 - off)))
    BY <2>1 DEF MaxOf, MinOf
  <2> QED
    BY <1>1, <1>3, <1>4, <2>1, <2>2 DEF GoneBack, b, n, MinOf, MaxOf
<1>6. NeighbourAnswer'
  BY <1>1 DEF NeighbourAnswer
<1> QED
  BY <1>1, <1>2, <1>3, <1>5, <1>6 DEF NeighbourInv

\* Arithmetic of the first loop: one step back, and its end.
LEMMA OneBack ==
    ASSUME NEW p0 \in Nat, NEW d \in Nat, NEW k \in Int, k > 0
    PROVE  MaxOf(0, MaxOf(0, p0 - (d - MaxOf(0, k))) - 1) = MaxOf(0, p0 - (d - MaxOf(0, k - 1)))
BY DEF MaxOf

LEMMA NoneBack ==
    ASSUME NEW p0 \in Nat, NEW d \in Nat, NEW k \in Int
    PROVE  /\ k <= 0 => MaxOf(0, p0 - (d - MaxOf(0, k))) = MaxOf(0, p0 - d)
           /\ k > 0 /\ MaxOf(0, p0 - (d - MaxOf(0, k))) = 0 => MaxOf(0, p0 - d) = 0
BY DEF MaxOf

\* What a request does not change.
LEMMA SameRequest ==
    ASSUME AllWords' = AllWords, offset' = offset
    PROVE  \A w : Below(w)' = Below(w) /\ Start(w)' = Start(w) /\ FirstBelow(w)' = FirstBelow(w)
BY DEF Below, Start, FirstBelow, MinOf, MaxOf

LEMMA FirstIsAfterStart ==
    ASSUME IInv, offset \in Int, NEW w
    PROVE  Start(w) \in Nat /\ FirstBelow(w) = Start(w) + 1
<1> DEFINE b == Below(w)
           n == Cardinality(AllWords)
<1>1. b \in Nat /\ n \in Nat
  BY Numbers
<1> HIDE DEF b, n
<1>2. MaxOf(0, MinOf(b + 1, n) - MaxOf(0, 2 - offset)) \in Nat
  BY <1>1 DEF MinOf, MaxOf
<1> QED
  BY <1>2 DEF Start, FirstBelow, b, n

LEMMA BackNeighbour ==
    ASSUME NeighbourInv, Back
    PROVE  NeighbourInv'
<1>1. /\ pc = "back" /\ back > 0 /\ back \in Int /\ GetPreWord /\ back' = back - 1
      /\ pc' = IF word' # {} THEN "back" ELSE "collect"
      /\ file' = file /\ synonyms' = synonyms
      /\ str' = str /\ offset' = offset /\ length' = length
      /\ neighbour' = <<>> /\ offset \in Int /\ length \in Nat
      /\ \A w \in str : GoneBack(w)
  BY DEF Back, dicts, request, NeighbourInv
<1>2. CursorTypes'
  BY CursorTypesNext DEF NeighbourInv, Next, Step
<1>3. /\ IInv' /\ AllWords' = AllWords /\ Behind \in Nat
      /\ Behind' = MaxOf(0, Behind - 1)
      /\ word' = {} => Behind = 0
  BY <1>1, PreCounts DEF NeighbourInv
<1>4. ASSUME NEW w \in str
      PROVE  GoneBack(w)' /\ (word' = {} => Collected(w)')
  <2> DEFINE p0 == MinOf(Below(w) + 1, Cardinality(AllWords))
             d == MaxOf(0, 2 - offset)
  <2>1. Below(w) \in Nat /\ Cardinality(AllWords) \in Nat
    BY Numbers DEF NeighbourInv
  <2>2. p0 \in Nat /\ d \in Nat
    BY <1>1, <2>1 DEF MinOf, MaxOf
  <2>3. /\ Behind = MaxOf(0, p0 - (d - MaxOf(0, back)))
        /\ Start(w)' = MaxOf(0, p0 - d)
        /\ GoneBack(w)' <=> Behind' = MaxOf(0, p0 - (d - MaxOf(0, back')))
    BY <1>1, <1>3, SameRequest DEF GoneBack, Start, MinOf, MaxOf
  <2> HIDE DEF p0, d
  <2>4. Behind' = MaxOf(0, p0 - (d - MaxOf(0, back - 1)))
    BY <1>1, <1>3, <2>2, <2>3, OneBack
  <2>5. ASSUME word' = {} PROVE Collected(w)'
    <3>1. MaxOf(0, p0 - d) = 0 /\ Behind = 0
      BY <1>1, <1>3, <2>2, <2>3, <2>5, NoneBack
    <3>2. Behind' = 0 /\ Start(w)' = 0 /\ Len(neighbour') = 0
      BY <1>1, <1>3, <2>3, <3>1 DEF MaxOf
    <3> QED
      BY <3>2 DEF Collected
  <2> QED
    BY <1>1, <2>3, <2>4, <2>5
<1>5. NeighbourAnswer'
  BY <1>1 DEF NeighbourAnswer
<1>6. Len(neighbour') = 0
  BY <1>1
<1> QED
  BY <1>1, <1>2, <1>3, <1>4, <1>5, <1>6 DEF NeighbourInv

LEMMA BackEndNeighbour ==
    ASSUME NeighbourInv, BackEnd
    PROVE  NeighbourInv'
<1>1. /\ pc = "back" /\ back <= 0 /\ back \in Int /\ pc' = "collect"
      /\ file' = file /\ synonyms' = synonyms /\ iCurrent' = iCurrent
      /\ str' = str /\ offset' = offset /\ length' = length /\ back' = back
      /\ neighbour' = <<>> /\ offset \in Int /\ length \in Nat
      /\ \A w \in str : GoneBack(w)
  BY DEF BackEnd, dicts, request, NeighbourInv
<1>2. CursorTypes'
  BY CursorTypesNext DEF NeighbourInv, Next, Step
<1>3. IInv' /\ AllWords' = AllWords /\ Behind' = Behind
  BY <1>1, NothingMoves DEF NeighbourInv, Behind
<1>4. ASSUME NEW w \in str PROVE Collected(w)'
  <2> DEFINE p0 == MinOf(Below(w) + 1, Cardinality(AllWords))
             d == MaxOf(0, 2 - offset)
  <2>1. Below(w) \in Nat /\ Cardinality(AllWords) \in Nat
    BY Numbers DEF NeighbourInv
  <2>2. p0 \in Nat /\ d \in Nat
    BY <1>1, <2>1 DEF MinOf, MaxOf
  <2>3. /\ Behind = MaxOf(0, p0 - (d - MaxOf(0, back)))
        /\ Start(w)' = MaxOf(0, p0 - d)
    BY <1>1, <1>3, SameRequest DEF GoneBack, Start, MinOf, MaxOf
  <2> HIDE DEF p0, d
  <2>4. Behind' = Start(w)' /\ Start(w)' \in Nat
    BY <1>1, <1>3, <2>2, <2>3, NoneBack DEF MaxOf
  <2>5. Len(neighbour') = 0
    BY <1>1
  <2> QED
    BY <2>4, <2>5 DEF Collected
<1>5. NeighbourAnswer'
  BY <1>1 DEF NeighbourAnswer
<1>6. Len(neighbour') = 0
  BY <1>1
<1> QED
  BY <1>1, <1>2, <1>3, <1>4, <1>5, <1>6 DEF NeighbourInv

\* What is collected when the loop ends is the answer.
LEMMA CollectedIsAnswer ==
    ASSUME NeighbourInv, pc = "collect",
           Len(neighbour) = length \/ Cardinality(AllWords) <= Behind + 1,
           NEW w \in str
    PROVE  /\ Len(neighbour) =
                MinOf(length, MaxOf(0, Cardinality(AllWords) - FirstBelow(w)))
           /\ \A i \in 1 .. Len(neighbour) :
                /\ neighbour[i] \in AllWords
                /\ Below(neighbour[i]) = FirstBelow(w) + i - 1
<1> DEFINE n == Cardinality(AllWords)
           k == Len(neighbour)
           s == Start(w)
<1>1. /\ IInv /\ length \in Nat /\ offset \in Int /\ neighbour \in Seq(Words)
      /\ k <= length /\ (k > 0 => Behind < n)
      /\ Behind = s + k
      /\ \A i \in 1 .. k : neighbour[i] \in AllWords /\ Below(neighbour[i]) = s + i
  BY DEF NeighbourInv, CursorTypes, TypeOK, Collected
<1>2. n \in Nat /\ Behind \in 0 .. n /\ k \in Nat
  BY <1>1, Numbers
<1>3. s \in Nat /\ FirstBelow(w) = s + 1
  BY <1>1, FirstIsAfterStart
<1>4. k = length \/ n <= Behind + 1
  OBVIOUS
<1> HIDE DEF n, k, s
<1>5. k = MinOf(length, MaxOf(0, n - (s + 1)))
  BY <1>1, <1>2, <1>3, <1>4 DEF MinOf, MaxOf
<1>6. \A i \in 1 .. k : s + i = FirstBelow(w) + i - 1
  BY <1>2, <1>3
<1> QED
  BY <1>1, <1>3, <1>5, <1>6 DEF n, k

\* One more word, the one after those the cursor has passed; or the end.
LEMMA CollectNeighbour ==
    ASSUME NeighbourInv, Collect
    PROVE  NeighbourInv'
<1> DEFINE n == Cardinality(AllWords)
           k == Len(neighbour)
<1>1. /\ pc = "collect" /\ k < length /\ GetNextWord
      /\ \/ /\ word' # {} /\ pc' = "collect"
            /\ \E w \in word' : neighbour' = Append(neighbour, w)
         \/ /\ word' = {} /\ pc' = "idle" /\ neighbour' = neighbour
      /\ file' = file /\ synonyms' = synonyms
      /\ str' = str /\ offset' = offset /\ length' = length /\ back' = back
      /\ neighbour \in Seq(Words) /\ offset \in Int /\ length \in Nat
      /\ \A w \in str : Collected(w)
      /\ IInv /\ k \in Nat
  BY DEF Collect, dicts, request, NeighbourInv, CursorTypes, TypeOK
<1>2. CursorTypes'
  BY CursorTypesNext DEF NeighbourInv, Next, Step
<1>3. /\ IInv' /\ AllWords' = AllWords
      /\ Behind' = MinOf(Behind + 1, n)
      /\ \A w \in word' : w \in AllWords /\ Below(w) = Behind'
      /\ word' # {} => Behind' < n
      /\ word' = {} => Behind' = n
  BY <1>1, NextCounts
<1>4. n \in Nat /\ Behind \in 0 .. n
  BY <1>1, Numbers
<1>5. \A w : Below(w)' = Below(w) /\ Start(w)' = Start(w) /\ FirstBelow(w)' = FirstBelow(w)
  BY <1>1, <1>3, SameRequest
<1>6. CASE word' # {}
  <2>1. PICK x \in word' : neighbour' = Append(neighbour, x)
    BY <1>1, <1>6
  <2>2. x \in AllWords /\ Below(x) = Behind' /\ Behind' = Behind + 1 /\ Behind' < n
    <3> HIDE DEF n
    <3> QED
      BY <1>3, <1>4, <1>6, <2>1 DEF MinOf
  <2>3. x \in Words
    BY <1>1, <2>2, WordsAreFinite DEF IInv
  <2>4. /\ Len(neighbour') = k + 1 /\ neighbour'[k + 1] = x
        /\ \A i \in 1 .. k : neighbour'[i] = neighbour[i]
    BY <1>1, <2>1, <2>3
  <2>5. ASSUME NEW w \in str PROVE Collected(w)'
    <3>1. /\ Behind = Start(w) + k /\ Start(w) \in Nat
          /\ \A i \in 1 .. k : neighbour[i] \in AllWords /\ Below(neighbour[i]) = Start(w) + i
      BY <1>1, FirstIsAfterStart DEF Collected
    <3>2. Behind' = Start(w) + (k + 1)
      BY <1>1, <2>2, <3>1
    <3>3. ASSUME NEW i \in 1 .. k + 1
          PROVE  neighbour'[i] \in AllWords /\ Below(neighbour'[i]) = Start(w) + i
      <4>1. CASE i \in 1 .. k
        BY <2>4, <3>1, <4>1
      <4>2. CASE i = k + 1
        BY <2>2, <2>4, <3>2, <4>2
      <4> QED
        BY <1>1, <4>1, <4>2
    <3>4. \A v : Below(v)' = Below(v)
      BY <1>5
    <3>5. /\ Behind' = Start(w)' + Len(neighbour')
          /\ \A i \in 1 .. Len(neighbour') :
               neighbour'[i] \in AllWords' /\ Below(neighbour'[i]) = Start(w)' + i
      BY <1>3, <1>5, <2>4, <3>2, <3>3
    <3>6. \A i : Below(neighbour[i])' = Below(neighbour'[i])
      BY <1>3 DEF Below
    <3> QED
      BY <3>5, <3>6 DEF Collected
  <2>6. Len(neighbour') <= length' /\ pc' = "collect"
    BY <1>1, <1>6, <2>4
  <2>7. Behind' < Cardinality(AllWords)'
    BY <1>3, <2>2
  <2>8. NeighbourAnswer'
    BY <2>6 DEF NeighbourAnswer
  <2> QED
    BY <1>1, <1>2, <1>3, <2>5, <2>6, <2>7, <2>8 DEF NeighbourInv
<1>7. CASE word' = {}
  <2>1. n <= Behind + 1 /\ pc' = "idle" /\ neighbour' = neighbour
    <3>1. MinOf(Behind + 1, n) = n /\ pc' = "idle" /\ neighbour' = neighbour
      BY <1>1, <1>3, <1>7
    <3> HIDE DEF n
    <3> QED
      BY <1>4, <3>1 DEF MinOf
  <2>2. \A w \in str :
           /\ Len(neighbour) = MinOf(length, MaxOf(0, n - FirstBelow(w)))
           /\ \A i \in 1 .. Len(neighbour) :
                /\ neighbour[i] \in AllWords
                /\ Below(neighbour[i]) = FirstBelow(w) + i - 1
    BY <1>1, <2>1, CollectedIsAnswer
  <2>3. NeighbourAnswer'
    <3>1. \A i : Below(neighbour[i])' = Below(neighbour[i])
      BY <1>3, <2>1 DEF Below
    <3> QED
      BY <1>1, <1>3, <1>5, <2>1, <2>2, <3>1 DEF NeighbourAnswer, MinOf, MaxOf
  <2> QED
    BY <1>1, <1>2, <1>3, <2>1, <2>3 DEF NeighbourInv
<1> QED
  BY <1>6, <1>7

LEMMA AnswerNeighbour ==
    ASSUME NeighbourInv, Answer
    PROVE  NeighbourInv'
<1>1. /\ pc = "collect" /\ Len(neighbour) >= length /\ pc' = "idle"
      /\ file' = file /\ synonyms' = synonyms /\ iCurrent' = iCurrent
      /\ str' = str /\ offset' = offset /\ length' = length /\ back' = back
      /\ neighbour' = neighbour /\ Len(neighbour) <= length /\ length \in Nat
      /\ neighbour \in Seq(Words)
  BY DEF Answer, dicts, request, NeighbourInv, CursorTypes, TypeOK
<1>2. CursorTypes'
  BY CursorTypesNext DEF NeighbourInv, Next, Step
<1>3. IInv' /\ AllWords' = AllWords
  BY <1>1, NothingMoves DEF NeighbourInv
<1>4. Len(neighbour) = length
  <2>1. Len(neighbour) \in Nat
    BY <1>1
  <2> QED
    BY <1>1, <2>1
<1>5. \A w \in str :
         /\ Len(neighbour) = MinOf(length, MaxOf(0, Cardinality(AllWords) - FirstBelow(w)))
         /\ \A i \in 1 .. Len(neighbour) :
              /\ neighbour[i] \in AllWords
              /\ Below(neighbour[i]) = FirstBelow(w) + i - 1
  BY <1>1, <1>4, CollectedIsAnswer
<1>6. NeighbourAnswer'
  <2>1. \A i : Below(neighbour[i])' = Below(neighbour[i])
    BY <1>1, <1>3 DEF Below
  <2> QED
    BY <1>1, <1>3, <1>5, <2>1, SameRequest DEF NeighbourAnswer, MinOf, MaxOf
<1> QED
  BY <1>1, <1>2, <1>3, <1>6 DEF NeighbourInv

LEMMA NeighbourStutter ==
    ASSUME NeighbourInv, UNCHANGED vars
    PROVE  NeighbourInv'
<1>1. /\ file' = file /\ synonyms' = synonyms /\ iCurrent' = iCurrent /\ word' = word
      /\ str' = str /\ offset' = offset /\ length' = length /\ back' = back
      /\ neighbour' = neighbour /\ pc' = pc
  BY DEF vars, dicts, request
<1>2. CursorTypes'
  BY CursorTypesNext DEF NeighbourInv
<1>3. IInv' /\ AllWords' = AllWords /\ Behind' = Behind
  BY <1>1, NothingMoves DEF NeighbourInv, Behind
<1>4. /\ \A w : Below(w)' = Below(w) /\ Start(w)' = Start(w) /\ FirstBelow(w)' = FirstBelow(w)
      /\ \A i : Below(neighbour[i])' = Below(neighbour[i])
  BY <1>1, <1>3, SameRequest DEF Below
<1>5. \A w : GoneBack(w)' = GoneBack(w) /\ Collected(w)' = Collected(w)
  BY <1>1, <1>3, <1>4 DEF GoneBack, Collected, MinOf, MaxOf
<1>6. NeighbourAnswer'
  BY <1>1, <1>3, <1>4 DEF NeighbourInv, NeighbourAnswer, MinOf, MaxOf
<1> QED
  BY <1>1, <1>2, <1>3, <1>5, <1>6 DEF NeighbourInv

\* The answer of get_neighbour is a run of the merged order of any number of
\* dictionaries, without a gap or a repetition, from the word the request asks
\* for to its length or to the last word of all.
THEOREM NeighboursAreRight == NoSynonyms => (Spec => []NeighbourAnswer)
<1> SUFFICES ASSUME NoSynonyms PROVE Spec => []NeighbourAnswer
  OBVIOUS
<1>1. Init => NeighbourInv
  <2> SUFFICES ASSUME Init PROVE NeighbourInv
    OBVIOUS
  <2>1. IInv
    BY InitFindsPlace
  <2>2. file \in [Libs -> DistinctFiles] /\ \A l \in Libs : file[l].wc \in Nat
    BY DistinctFacts DEF Init
  <2>3. CursorTypes
    BY <2>2 DEF Init, CursorTypes, TypeOK
  <2>4. str = {} /\ pc = "idle" /\ offset = 0 /\ length = 0 /\ back = 0
    BY DEF Init
  <2> QED
    BY <2>1, <2>3, <2>4 DEF NeighbourInv, NeighbourAnswer
<1>2. NeighbourInv /\ [Next]_vars => NeighbourInv'
  <2> SUFFICES ASSUME NeighbourInv, [Next]_vars PROVE NeighbourInv'
    OBVIOUS
  <2>1. CASE \E w \in Words, off \in Offsets, len \in Lengths : Request(w, off, len)
    BY <2>1, RequestNeighbour
  <2>2. CASE Back
    BY <2>2, BackNeighbour
  <2>3. CASE BackEnd
    BY <2>3, BackEndNeighbour
  <2>4. CASE Collect
    BY <2>4, CollectNeighbour
  <2>5. CASE Answer
    BY <2>5, AnswerNeighbour
  <2>6. CASE UNCHANGED vars
    BY <2>6, NeighbourStutter
  <2> QED
    BY <2>1, <2>2, <2>3, <2>4, <2>5, <2>6 DEF Next, Step
<1>3. NeighbourInv => NeighbourAnswer
  BY DEF NeighbourInv
<1> QED
  BY <1>1, <1>2, <1>3, PTL DEF Spec
=============================================================================
