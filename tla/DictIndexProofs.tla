--------------------------- MODULE DictIndexProofs ---------------------------
(***************************************************************************)
(* For every word list, page size and pair of orders: the index on disk    *)
(* answers every lookup rightly and its page cache is never out of date;   *)
(* so does the index in memory; and whichever class serves a dictionary,   *)
(* its answers are right and it implements KeyIndex, because the invariant *)
(* of the class that serves holds, and the variables of the other one are  *)
(* not looked at.  Its page offsets, kept in .oft files, are those of the  *)
(* file that is read.                                                      *)
(***************************************************************************)
EXTENDS DictIndex, OftCache, TLAPS

-----------------------------------------------------------------------------
(* Word lists: their parts, their two orders, and the middle of a search    *)
(* window.                                                                  *)

\* The middle of a window lies in the window.
LEMMA MidWithin ==
    ASSUME NEW a \in Int, NEW b \in Int, a <= b
    PROVE  /\ (a + b) \div 2 \in Int
           /\ a <= (a + b) \div 2
           /\ (a + b) \div 2 <= b
OBVIOUS

\* The parts of a word list.
LEMMA FileFacts ==
    ASSUME NEW f \in Files
    PROVE  /\ f.wc \in Nat \ {0}
           /\ f.word \in [0 .. f.wc - 1 -> Words]
           /\ Sorted(f.word, f.wc)
<1>1. PICK n \in 1 .. MaxWc :
        f \in { [wc |-> n, word |-> g] :
                  g \in { h \in [0 .. n - 1 -> Words] : Sorted(h, n) } }
  BY DEF Files
<1>2. PICK g \in [0 .. n - 1 -> Words] :
        Sorted(g, n) /\ f = [wc |-> n, word |-> g]
  BY <1>1
<1> QED
  BY <1>2, MaxWcAssumption

\* Both comparisons are by integers, and respect the order of the words.
LEMMA RankMonotone ==
    ASSUME NEW c \in Cmps, NEW a \in Words, NEW b \in Words
    PROVE  /\ Rank(c, a) \in Int
           /\ Rank(c, b) \in Int
           /\ a <= b => Rank(c, a) <= Rank(c, b)
BY WordsAssumption, FoldAssumption DEF Rank

\* A sorted list is sorted for both comparisons.
LEMMA RankSorted ==
    ASSUME NEW f \in Files, NEW c \in Cmps,
           NEW i \in 0 .. f.wc - 1, NEW j \in 0 .. f.wc - 1, i <= j
    PROVE  /\ Rank(c, f.word[i]) \in Int
           /\ Rank(c, f.word[j]) \in Int
           /\ Rank(c, f.word[i]) <= Rank(c, f.word[j])
<1>1. f.word[i] \in Words /\ f.word[j] \in Words /\ f.word[i] <= f.word[j]
  BY FileFacts DEF Sorted
<1> QED
  BY <1>1, RankMonotone

-----------------------------------------------------------------------------
(* Arithmetic *)

\* Division with remainder: the page of an entry and its place on the page.
LEMMA DivMod ==
    ASSUME NEW a \in Nat, NEW b \in Nat \ {0}
    PROVE  /\ a \div b \in Nat
           /\ a % b \in 0 .. b - 1
           /\ a = (a \div b) * b + (a % b)
<1>1. a % b \in 0 .. b - 1
  OBVIOUS
<1>2. a \div b \in Int
  OBVIOUS
<1>3. a = (a \div b) * b + (a % b)
  OBVIOUS
<1>4. a \div b >= 0
  BY <1>1, <1>2, <1>3
<1> QED
  BY <1>1, <1>2, <1>3, <1>4

\* A later page starts a whole page further on, at least.
LEMMA PagesApart ==
    ASSUME NEW p \in Int, NEW q \in Int, NEW b \in Nat, p < q
    PROVE  p * b + b <= q * b
OBVIOUS
-----------------------------------------------------------------------------
(* Pages *)

\* The last page of wc entries, b to a page, is full or holds wc % b of them.
LEMMA LastPageArithmetic ==
    ASSUME NEW wc \in Nat \ {0}, NEW b \in Nat \ {0},
           NEW L, L = (wc - 1) \div b
    PROVE  /\ L \in Nat
           /\ L * b <= wc - 1
           /\ IF wc % b # 0 THEN wc = L * b + (wc % b) /\ wc % b \in 1 .. b
                            ELSE wc = L * b + b
<1>1. L \in Nat /\ (wc - 1) % b \in 0 .. b - 1 /\ wc - 1 = L * b + ((wc - 1) % b)
  BY DivMod, wc - 1 \in Nat
<1>2. /\ wc \div b \in Nat
      /\ wc % b \in 0 .. b - 1
      /\ wc = (wc \div b) * b + (wc % b)
  BY DivMod
<1>3. CASE (wc - 1) % b = b - 1
  <2>1. wc = (L + 1) * b
    BY <1>1, <1>3
  <2>2. ~(wc \div b < L + 1) /\ ~(L + 1 < wc \div b)
    <3>1. ASSUME wc \div b < L + 1 PROVE FALSE
      <4>1. (wc \div b) * b + b <= (L + 1) * b
        BY <1>1, <1>2, <3>1, PagesApart
      <4> QED
        BY <1>2, <2>1, <4>1
    <3>2. ASSUME L + 1 < wc \div b PROVE FALSE
      <4>1. (L + 1) * b + b <= (wc \div b) * b
        BY <1>1, <1>2, <3>2, PagesApart
      <4> QED
        BY <1>2, <2>1, <4>1
    <3> QED
      BY <3>1, <3>2
  <2>3. wc \div b = L + 1
    BY <1>1, <1>2, <2>2
  <2>4. wc % b = 0
    BY <1>2, <2>1, <2>3
  <2> QED
    BY <1>1, <1>3, <2>4
<1>4. CASE (wc - 1) % b # b - 1
  <2>1. wc = L * b + (((wc - 1) % b) + 1) /\ ((wc - 1) % b) + 1 \in 1 .. b - 1
    BY <1>1, <1>4
  <2>2. ~(wc \div b < L) /\ ~(L < wc \div b)
    <3>1. ASSUME wc \div b < L PROVE FALSE
      <4>1. (wc \div b) * b + b <= L * b
        BY <1>1, <1>2, <3>1, PagesApart
      <4> QED
        BY <1>2, <2>1, <4>1
    <3>2. ASSUME L < wc \div b PROVE FALSE
      <4>1. L * b + b <= (wc \div b) * b
        BY <1>1, <1>2, <3>2, PagesApart
      <4> QED
        BY <1>2, <2>1, <4>1
    <3> QED
      BY <3>1, <3>2
  <2>3. wc \div b = L
    BY <1>1, <1>2, <2>2
  <2>4. wc % b = ((wc - 1) % b) + 1
    BY <1>2, <2>1, <2>3
  <2> QED
    BY <1>1, <2>1, <2>4
<1> QED
  BY <1>3, <1>4

\* Pages cover the file without a gap: every page but the last is full, and
\* the last one ends where the file ends.
LEMMA Layout ==
    ASSUME file \in Files
    PROVE  /\ LastPage \in Nat
           /\ NOffsets(file.wc) - 1 = LastPage + 1
           /\ LastPage * ENTR_PER_PAGE <= file.wc - 1
           /\ (file.wc - 1) \div ENTR_PER_PAGE = LastPage
           /\ \A p \in 0 .. LastPage :
                /\ NEntries(p) \in 1 .. ENTR_PER_PAGE
                /\ p < LastPage => NEntries(p) = ENTR_PER_PAGE
                /\ p < LastPage => (p + 1) * ENTR_PER_PAGE <= file.wc - 1
                /\ p = LastPage => p * ENTR_PER_PAGE + NEntries(p) = file.wc
                /\ p * ENTR_PER_PAGE + NEntries(p) <= file.wc
<1> DEFINE wc == file.wc
           E == ENTR_PER_PAGE
           L == (wc - 1) \div E
<1>1. wc \in Nat \ {0} /\ E \in Nat \ {0}
  BY FileFacts, EntrPerPageAssumption
<1>2. /\ L \in Nat
      /\ L * E <= wc - 1
      /\ IF wc % E # 0 THEN wc = L * E + (wc % E) /\ wc % E \in 1 .. E
                       ELSE wc = L * E + E
  <2> HIDE DEF wc, E
  <2> QED
    BY <1>1, LastPageArithmetic
<1>3. LastPage = L /\ NOffsets(wc) = L + 2
  BY <1>2 DEF LastPage, NOffsets
<1>4. \A p \in Int : NEntries(p) = IF p = L /\ wc % E # 0 THEN wc % E ELSE E
  BY <1>3 DEF NEntries
<1> HIDE DEF wc, E, L
<1>5. L * E + NEntries(L) = wc /\ NEntries(L) \in 1 .. E
  BY <1>1, <1>2, <1>4
<1>6. ASSUME NEW p \in 0 .. L, p # L
      PROVE  NEntries(p) = E /\ (p + 1) * E <= wc - 1 /\ p * E + E <= wc
  <2>1. NEntries(p) = E
    BY <1>4, <1>6
  <2>2. p * E + E <= L * E
    BY <1>1, <1>2, <1>6, PagesApart
  <2>3. (p + 1) * E = p * E + E
    BY <1>1, <1>2
  <2> QED
    BY <1>1, <1>2, <2>1, <2>2, <2>3
<1>7. ASSUME NEW p \in 0 .. L
      PROVE  /\ NEntries(p) \in 1 .. E
             /\ p < L => NEntries(p) = E
             /\ p < L => (p + 1) * E <= wc - 1
             /\ p = L => p * E + NEntries(p) = wc
             /\ p * E + NEntries(p) <= wc
  <2>1. CASE p = L
    BY <1>1, <1>2, <1>5, <2>1
  <2>2. CASE p # L
    BY <1>1, <1>2, <1>6, <2>2
  <2> QED
    BY <2>1, <2>2
<1> QED
  BY <1>2, <1>3, <1>7 DEF wc, E, L

\* Where get_key() finds entry i.
LEMMA PlaceOfEntry ==
    ASSUME file \in Files, NEW i \in 0 .. file.wc - 1
    PROVE  /\ i \div ENTR_PER_PAGE \in 0 .. LastPage
           /\ i % ENTR_PER_PAGE \in 0 .. NEntries(i \div ENTR_PER_PAGE) - 1
           /\ (i \div ENTR_PER_PAGE) * ENTR_PER_PAGE + (i % ENTR_PER_PAGE) = i
<1> DEFINE E == ENTR_PER_PAGE
           p == i \div E
           r == i % E
<1>1. file.wc \in Nat \ {0} /\ E \in Nat \ {0}
  BY FileFacts, EntrPerPageAssumption
<1>2. p \in Nat /\ r \in 0 .. E - 1 /\ i = p * E + r
  <2> HIDE DEF E
  <2>1. i \in Nat
    BY <1>1
  <2> QED
    BY <1>1, <2>1, DivMod DEF p, r
<1> HIDE DEF p, r
<1>3. p <= LastPage
  <2>1. SUFFICES ASSUME LastPage < p PROVE FALSE
    BY <1>2, Layout
  <2>2. LastPage * E + E <= p * E
    BY <1>1, <1>2, <2>1, Layout, PagesApart
  <2>3. file.wc <= LastPage * E + E /\ LastPage \in Nat
    BY <1>1, Layout
  <2> QED
    BY <1>1, <1>2, <2>2, <2>3
<1>4. p \in 0 .. LastPage
  BY <1>2, <1>3, Layout
<1>5. NEntries(p) \in Nat /\ r < NEntries(p)
  <2>1. CASE p = LastPage
    BY <1>1, <1>2, <1>4, <2>1, Layout
  <2>2. CASE p # LastPage
    <3>1. NEntries(p) = E
      BY <1>2, <1>4, <2>2, Layout
    <3> QED
      BY <1>1, <1>2, <3>1
  <2> QED
    BY <2>1, <2>2
<1> QED
  BY <1>2, <1>4, <1>5 DEF p, r
-----------------------------------------------------------------------------
(* What load() and load_page() read *)

\* load() notes where every page starts.
LEMMA ScannedOffsets ==
    ASSUME file \in Files, NEW p \in 0 .. LastPage
    PROVE  ScanOffsets[p] = p * ENTR_PER_PAGE
BY Layout DEF ScanOffsets

\* A page read from the file is the page asked for.
LEMMA FilledIsPage ==
    ASSUME file \in Files, NEW p \in 0 .. LastPage
    PROVE  IsPage(Filled(ScanOffsets, p), p)
BY ScannedOffsets DEF Filled, IsPage

\* load_page() leaves the page asked for, read now or before.
LEMMA LoadPageIsPage ==
    ASSUME file \in Files, NEW p \in 0 .. LastPage,
           page = NoPage \/ IsPage(page, page.idx)
    PROVE  IsPage(LoadPage(ScanOffsets, p), p)
<1>1. CASE p = page.idx
  BY <1>1 DEF LoadPage, NoPage
<1>2. CASE p # page.idx
  BY <1>2, FilledIsPage DEF LoadPage
<1> QED
  BY <1>1, <1>2

\* The words kept in memory are the first words of their pages.
LEMMA FirstKeys ==
    ASSUME file \in Files, IsLoaded, LoadedCoherent, NEW p \in 0 .. LastPage
    PROVE  GetFirstOnPageKey(p) = file.word[p * ENTR_PER_PAGE]
<1>1. /\ first = [idx |-> 0, keystr |-> file.word[0]]
      /\ middle = [idx |-> LastPage \div 2,
                   keystr |-> file.word[(LastPage \div 2) * ENTR_PER_PAGE]]
      /\ last = [idx |-> LastPage,
                 keystr |-> file.word[LastPage * ENTR_PER_PAGE]]
      /\ wordoffset = ScanOffsets
  BY DEF LoadedCoherent
<1>2. 0 * ENTR_PER_PAGE = 0
  BY EntrPerPageAssumption
<1>3. ReadFirstOnPageKey(wordoffset, p) = file.word[p * ENTR_PER_PAGE]
  BY <1>1, ScannedOffsets DEF ReadFirstOnPageKey
<1> HIDE DEF LoadedCoherent
<1>4. /\ p = first.idx => first.keystr = file.word[p * ENTR_PER_PAGE]
      /\ p = middle.idx => middle.keystr = file.word[p * ENTR_PER_PAGE]
      /\ p = last.idx => last.keystr = file.word[p * ENTR_PER_PAGE]
  BY <1>1, <1>2
<1>5. middle.idx \in Int
  BY <1>1, Layout
<1> QED
  BY <1>3, <1>4, <1>5 DEF GetFirstOnPageKey
-----------------------------------------------------------------------------
(* The inductive invariant *)

\* What the comparisons of a running lookup are about.
LEMMA Comparisons ==
    ASSUME TypeOK, req \in LookupReqs
    PROVE  /\ Rank(req.cmp, req.str) \in Int
           /\ \A i \in 0 .. file.wc - 1 : Rank(req.cmp, file.word[i]) \in Int
           /\ \A i, j \in 0 .. file.wc - 1 :
                i <= j => Rank(req.cmp, file.word[i]) <= Rank(req.cmp, file.word[j])
<1>1. req.cmp \in Cmps /\ req.str \in Words
  BY DEF LookupReqs
<1>2. file \in Files
  BY DEF TypeOK
<1> QED
  BY <1>1, <1>2, RankMonotone, RankSorted, FileFacts

\* Entry numbers formed from a page and a place on it stay in the file.
LEMMA EntryInFile ==
    ASSUME file \in Files, NEW p \in 0 .. LastPage,
           NEW i \in 0 .. NEntries(p) - 1
    PROVE  p * ENTR_PER_PAGE + i \in 0 .. file.wc - 1
<1>1. /\ p \in Int /\ 0 <= p
      /\ ENTR_PER_PAGE \in Nat
      /\ file.wc \in Nat
      /\ LastPage \in Nat
  BY FileFacts, Layout, EntrPerPageAssumption
<1>2. NEntries(p) \in Nat /\ p * ENTR_PER_PAGE + NEntries(p) <= file.wc
  BY Layout, EntrPerPageAssumption
<1>3. p * ENTR_PER_PAGE \in Nat
  BY <1>1
<1> QED
  BY <1>1, <1>2, <1>3

\* As long as nothing is reloaded, what load() prepared stays right.
LEMMA LoadedStays ==
    ASSUME IsLoaded, LoadedCoherent, UNCHANGED <<file, loaded>>
    PROVE  LoadedCoherent'
BY DEF LoadedCoherent, loaded, ScanOffsets, LastPage, NOffsets

\* A page that is not replaced stays right too.
LEMMA PageStays ==
    ASSUME IsLoaded, IsLoaded', PageCoherent, UNCHANGED <<file, page>>
    PROVE  PageCoherent'
BY DEF PageCoherent, IsPage, NEntries, LastPage, NOffsets

\* A page that load_page() asked for is right after the step.
LEMMA PageLoaded ==
    ASSUME TypeOK, NEW p \in 0 .. LastPage,
           page = NoPage \/ IsPage(page, page.idx),
           page' = LoadPage(ScanOffsets, p), UNCHANGED file, IsLoaded'
    PROVE  PageCoherent' /\ IsPage(page', p)
<1>1. IsPage(page', p)
  BY LoadPageIsPage DEF TypeOK
<1>2. page'.idx = p
  BY <1>1 DEF IsPage
<1> QED
  BY <1>1, <1>2 DEF PageCoherent, IsPage, NEntries, LastPage, NOffsets

\* The state after Init.
LEMMA InitIInv == Init => IInv
<1> SUFFICES ASSUME Init PROVE IInv
  OBVIOUS
<1> USE DEF Init
<1>1. TypeOK
  BY DEF TypeOK, Pcs, NoReq, NoAns, INVALID_INDEX
<1>2. LoadedCoherent /\ PageCoherent
  BY DEF LoadedCoherent, PageCoherent, IsLoaded
<1>3. SearchWindow /\ LookupCorrect /\ KeyCorrect
  BY DEF SearchWindow, PagesWindow, EntriesWindow, LookupCorrect, KeyCorrect,
         NoAns
<1> QED
  BY <1>1, <1>2, <1>3 DEF IInv

\* load() establishes what the calls rely on.
LEMMA LoadIInv ==
    ASSUME IInv, Load
    PROVE  IInv'
<1> DEFINE at == (file.wc - 1) % ENTR_PER_PAGE
           pg == LoadPage(ScanOffsets, LastPage)
<1>1. file \in Files /\ TypeOK
  BY DEF IInv, TypeOK
<1>2. /\ file.wc - 1 \in 0 .. file.wc - 1
      /\ file.wc - 1 \in Nat
      /\ LastPage \in 0 .. LastPage
      /\ (file.wc - 1) \div ENTR_PER_PAGE = LastPage
      /\ LastPage \div 2 \in 0 .. LastPage
      /\ 0 \in 0 .. LastPage
  BY <1>1, FileFacts, Layout
<1>3. at \in 0 .. NEntries(LastPage) - 1 /\ LastPage * ENTR_PER_PAGE + at = file.wc - 1
  BY <1>1, <1>2, PlaceOfEntry
<1>4. page' = pg /\ IsPage(pg, LastPage) /\ PageCoherent'
  <2>1. page' = pg /\ UNCHANGED file /\ IsLoaded'
    BY <1>2 DEF Load, IsLoaded
  <2>2. page = NoPage
    BY DEF IInv, PageCoherent, IsLoaded, Load
  <2> QED
    BY <1>1, <1>2, <2>1, <2>2, LoadPageIsPage, PageLoaded
<1>5. pg.keystr[at] = file.word[file.wc - 1] /\ pg.off[at] = file.wc - 1
  BY <1>3, <1>4 DEF IsPage
<1> HIDE DEF at, pg
<1>6. /\ wordoffset' = ScanOffsets
      /\ first' = [idx |-> 0, keystr |-> ReadFirstOnPageKey(ScanOffsets, 0)]
      /\ last' = [idx |-> LastPage,
                  keystr |-> ReadFirstOnPageKey(ScanOffsets, LastPage)]
      /\ middle' = [idx |-> LastPage \div 2,
                    keystr |-> ReadFirstOnPageKey(ScanOffsets, LastPage \div 2)]
      /\ real_last' = [idx |-> file.wc - 1, keystr |-> file.word[file.wc - 1]]
      /\ wordentry' = file.wc - 1
      /\ pc = "new" /\ pc' = "idle"
      /\ UNCHANGED <<file, req, locals, ans>>
  BY <1>2, <1>5 DEF Load, at, pg
<1>7. /\ ReadFirstOnPageKey(ScanOffsets, 0) = file.word[0]
      /\ ReadFirstOnPageKey(ScanOffsets, LastPage) = file.word[LastPage * ENTR_PER_PAGE]
      /\ ReadFirstOnPageKey(ScanOffsets, LastPage \div 2)
           = file.word[(LastPage \div 2) * ENTR_PER_PAGE]
  <2>1. 0 * ENTR_PER_PAGE = 0
    BY EntrPerPageAssumption
  <2> QED
    BY <1>1, <1>2, <2>1, ScannedOffsets DEF ReadFirstOnPageKey
<1>8. LoadedCoherent'
  BY <1>6, <1>7 DEF LoadedCoherent, ScanOffsets, LastPage, NOffsets
<1>9. TypeOK'
  BY <1>1, <1>2, <1>6 DEF TypeOK, Pcs, locals, GetReqs, LookupAnswers, KeyAnswers
<1>10. SearchWindow' /\ LookupCorrect' /\ KeyCorrect'
  BY <1>6 DEF IInv, SearchWindow, PagesWindow, EntriesWindow, LookupCorrect, KeyCorrect
<1> QED
  BY <1>4, <1>8, <1>9, <1>10 DEF IInv

\* What every step of a running call starts from.
LEMMA CallFacts ==
    ASSUME IInv, IsLoaded
    PROVE  /\ file \in Files
           /\ wordoffset = ScanOffsets
           /\ first.keystr = file.word[0]
           /\ real_last.keystr = file.word[file.wc - 1]
           /\ page.idx \in 0 .. LastPage
           /\ IsPage(page, page.idx)
           /\ file.wc \in Nat \ {0}
           /\ LastPage \in Nat
           /\ 0 \in 0 .. LastPage
           /\ 0 \in 0 .. file.wc - 1
           /\ file.wc - 1 \in 0 .. file.wc - 1
<1>1. file \in Files
  BY DEF IInv, TypeOK
<1> QED
  BY <1>1, FileFacts, Layout DEF IInv, LoadedCoherent, PageCoherent

\* A call that returns a right answer keeps the invariant.
LEMMA ReturnIInv ==
    ASSUME IInv, IsLoaded, NEW a \in LookupAnswers(file) \cup KeyAnswers(file),
           Return(a), UNCHANGED <<file, loaded>>,
           PageCoherent', wordentry' \in {-1} \cup 0 .. file.wc - 1,
           a.op = "lookup" => LookupAnswer(file, a.cmp, a.str, a.found, a.idx),
           a.op = "get_key" => a.key = file.word[a.idx] /\ a.entry = a.idx
    PROVE  IInv'
<1>1. TypeOK'
  BY DEF IInv, TypeOK, Return, Pcs, LookupAnswers, KeyAnswers, loaded
<1>2. LoadedCoherent'
  BY LoadedStays DEF IInv
<1>3. SearchWindow'
  BY DEF Return, SearchWindow, PagesWindow, EntriesWindow
<1>4. LookupCorrect' /\ KeyCorrect'
  BY DEF Return, LookupCorrect, KeyCorrect
<1> QED
  BY <1>1, <1>2, <1>3, <1>4 DEF IInv

\* A call starts.
LEMMA CallIInv ==
    ASSUME IInv, NEW r \in LookupReqs \cup GetReqs, Call(r)
    PROVE  IInv'
<1>1. IsLoaded /\ IsLoaded' /\ pc' \in {"lookup", "get_key"}
  BY DEF Call, IsLoaded, LookupReqs, GetReqs
<1>2. TypeOK'
  BY <1>1 DEF IInv, TypeOK, Call, Pcs, LookupReqs, GetReqs, locals, LookupAnswers, KeyAnswers
<1>3. LoadedCoherent' /\ PageCoherent'
  BY <1>1, LoadedStays, PageStays DEF IInv, Call
<1>4. SearchWindow' /\ LookupCorrect' /\ KeyCorrect'
  BY <1>1 DEF IInv, Call, SearchWindow, PagesWindow, EntriesWindow, LookupCorrect, KeyCorrect
<1> QED
  BY <1>2, <1>3, <1>4 DEF IInv

\* get_key() returns the word and the article of its entry.
LEMMA GetKeyIInv ==
    ASSUME IInv, GetKey
    PROVE  IInv'
<1> DEFINE i == req.idx
           p == i \div ENTR_PER_PAGE
           at == i % ENTR_PER_PAGE
           pg == LoadPage(wordoffset, p)
           a == [op |-> "get_key", idx |-> i, key |-> pg.keystr[at],
                 entry |-> pg.off[at]]
<1>1. IsLoaded /\ IsLoaded' /\ TypeOK
  BY DEF IInv, GetKey, Return, IsLoaded
<1>2. i \in 0 .. file.wc - 1
  BY DEF IInv, TypeOK, GetKey, GetReqs
<1>3. /\ p \in 0 .. LastPage
      /\ at \in 0 .. NEntries(p) - 1
      /\ p * ENTR_PER_PAGE + at = i
  BY <1>1, <1>2, CallFacts, PlaceOfEntry
<1>4. page' = pg /\ wordentry' = pg.off[at] /\ Return(a) /\ UNCHANGED <<file, loaded>>
  BY DEF GetKey
<1>5. IsPage(pg, p)
  BY <1>1, <1>3, CallFacts, LoadPageIsPage
<1>6. PageCoherent'
  BY <1>1, <1>3, <1>4, CallFacts, PageLoaded
<1>7. pg.keystr[at] = file.word[i] /\ pg.off[at] = i
  <2> HIDE DEF pg, p, at
  <2> QED BY ONLY <1>3, <1>5 DEF IsPage
<1>8. a = [op |-> "get_key", idx |-> i, key |-> file.word[i], entry |-> i]
  BY <1>7
<1>9. file.word[i] \in Words
  BY <1>1, <1>2, CallFacts, FileFacts
<1>10. a \in KeyAnswers(file)
  BY <1>2, <1>8, <1>9 DEF KeyAnswers
<1> HIDE DEF a, pg, at, p, i
<1> QED
  BY <1>1, <1>2, <1>4, <1>6, <1>7, <1>8, <1>10, ReturnIInv
-----------------------------------------------------------------------------
(* The steps of lookup() *)

\* Steps that return from lookup() without touching the page.
LEMMA LookupReturns ==
    ASSUME IInv, IsLoaded, pc \in {"lookup", "pages", "entries"},
           NEW found \in BOOLEAN,
           NEW i \in {INVALID_INDEX} \cup 0 .. file.wc - 1,
           Return(LookupResult(found, i)),
           UNCHANGED <<file, loaded, page, wordentry>>,
           LookupAnswer(file, req.cmp, req.str, found, i)
    PROVE  IInv'
<1> DEFINE a == LookupResult(found, i)
<1>1. req \in LookupReqs /\ wordentry \in {-1} \cup 0 .. file.wc - 1
  BY DEF IInv, TypeOK
<1>2. a \in LookupAnswers(file)
  BY <1>1 DEF LookupResult, LookupReqs, LookupAnswers
<1>3. IsLoaded' /\ PageCoherent'
  BY PageStays DEF IInv, Return, IsLoaded
<1>4. /\ a.op = "lookup" /\ a.cmp = req.cmp /\ a.str = req.str
      /\ a.found = found /\ a.idx = i
  BY DEF LookupResult
<1> HIDE DEF a
<1> QED
  BY <1>1, <1>2, <1>3, <1>4, ReturnIInv DEF a

\* Below the first word: every word is greater, the first of them is word 0.
LEMMA BelowFirstIInv ==
    ASSUME IInv, LookupBelowFirst
    PROVE  IInv'
<1>1. IsLoaded /\ pc = "lookup" /\ TypeOK /\ req \in LookupReqs
  BY DEF IInv, TypeOK, LookupBelowFirst, IsLoaded
<1>2. Rank(req.cmp, file.word[0]) > Rank(req.cmp, req.str)
  BY <1>1, CallFacts, Comparisons DEF LookupBelowFirst, Less
<1>3. LookupAnswer(file, req.cmp, req.str, FALSE, 0)
  BY <1>1, <1>2, CallFacts DEF LookupAnswer, INVALID_INDEX
<1> QED
  BY <1>1, <1>3, CallFacts, LookupReturns DEF LookupBelowFirst

\* Above the last word: every word is less.
LEMMA AboveLastIInv ==
    ASSUME IInv, LookupAboveLast
    PROVE  IInv'
<1>1. IsLoaded /\ pc = "lookup" /\ TypeOK /\ req \in LookupReqs
  BY DEF IInv, TypeOK, LookupAboveLast, IsLoaded
<1>2. Rank(req.cmp, file.word[file.wc - 1]) < Rank(req.cmp, req.str)
  BY <1>1, CallFacts, Comparisons DEF LookupAboveLast, Greater
<1>3. ASSUME NEW j \in 0 .. file.wc - 1
      PROVE  Rank(req.cmp, file.word[j]) < Rank(req.cmp, req.str)
  <2>1. Rank(req.cmp, file.word[j]) <= Rank(req.cmp, file.word[file.wc - 1])
    BY <1>1, CallFacts, Comparisons
  <2> QED
    BY <1>1, <1>2, <2>1, CallFacts, Comparisons
<1>4. LookupAnswer(file, req.cmp, req.str, FALSE, INVALID_INDEX)
  BY <1>3 DEF LookupAnswer
<1> QED
  BY <1>1, <1>4, LookupReturns DEF LookupAboveLast

\* The search starts with every page in the window.
LEMMA LookupPagesIInv ==
    ASSUME IInv, LookupPages
    PROVE  IInv'
<1>1. IsLoaded /\ IsLoaded' /\ TypeOK /\ req \in LookupReqs
  BY DEF IInv, TypeOK, LookupPages, IsLoaded
<1>2. TypeOK'
  BY <1>1, CallFacts DEF TypeOK, LookupPages, Pcs, LookupReqs, GetReqs,
                         LookupAnswers, KeyAnswers
<1>3. LoadedCoherent' /\ PageCoherent'
  BY <1>1, LoadedStays, PageStays DEF IInv, LookupPages
<1>4. PagesWindow'
  <2>1. ~StrLess(0) /\ ~StrGreater(file.wc - 1)
    BY <1>1, CallFacts DEF LookupPages, Less, Greater, StrLess, StrGreater
  <2>2. /\ iFrom' = 0 /\ iTo' = LastPage /\ LastPage' = LastPage
        /\ StrLess(0)' = StrLess(0)
        /\ StrGreater(file.wc - 1)' = StrGreater(file.wc - 1)
    BY DEF LookupPages, LastPage, NOffsets, StrLess, StrGreater
  <2> QED
    BY <1>1, <2>1, <2>2, CallFacts DEF PagesWindow
<1>5. EntriesWindow' /\ LookupCorrect' /\ KeyCorrect'
  BY DEF IInv, LookupPages, EntriesWindow, LookupCorrect, KeyCorrect
<1> QED
  BY <1>2, <1>3, <1>4, <1>5 DEF IInv, SearchWindow

\* A loop that goes on changes only its window.
LEMMA LoopGoesOn ==
    ASSUME IInv, pc \in {"pages", "entries"}, GoRight \/ GoLeft, iFrom <= iTo,
           UNCHANGED <<file, loaded, page, wordentry>>,
           SearchWindow'
    PROVE  IInv'
<1>1. IsLoaded /\ IsLoaded'
  BY DEF IsLoaded, GoLeft, GoRight
<1>2. Mid \in Int
  BY MidWithin DEF Mid, IInv, TypeOK
<1>3. TypeOK'
  BY <1>2 DEF IInv, TypeOK, GoLeft, GoRight, Pcs, LookupReqs, GetReqs,
              LookupAnswers, KeyAnswers
<1>4. LoadedCoherent' /\ PageCoherent'
  BY <1>1, LoadedStays, PageStays DEF IInv
<1>5. LookupCorrect' /\ KeyCorrect'
  BY DEF IInv, GoLeft, GoRight, LookupCorrect, KeyCorrect
<1> QED
  BY <1>3, <1>4, <1>5 DEF IInv

\* First words of pages are in the order of the pages.
LEMMA FirstWordsSorted ==
    ASSUME TypeOK, req \in LookupReqs,
           NEW p \in 0 .. LastPage, NEW q \in 0 .. LastPage, p <= q
    PROVE  /\ p * ENTR_PER_PAGE \in 0 .. file.wc - 1
           /\ q * ENTR_PER_PAGE \in 0 .. file.wc - 1
           /\ Rank(req.cmp, file.word[p * ENTR_PER_PAGE])
                <= Rank(req.cmp, file.word[q * ENTR_PER_PAGE])
<1>1. file \in Files /\ ENTR_PER_PAGE \in Nat
  BY EntrPerPageAssumption DEF TypeOK
<1>2. \A r \in 0 .. LastPage :
        r * ENTR_PER_PAGE \in 0 .. file.wc - 1
  <2>1. TAKE r \in 0 .. LastPage
  <2>2. 0 \in 0 .. NEntries(r) - 1 /\ r * ENTR_PER_PAGE \in Int
    BY <1>1, <2>1, Layout
  <2> QED
    BY <1>1, <2>2, EntryInFile
<1>3. p * ENTR_PER_PAGE <= q * ENTR_PER_PAGE
  BY <1>1
<1> QED
  BY <1>2, <1>3, Comparisons

\* A turn over the first words leaves str inside a smaller window, or finds it.
LEMMA PagesTurnIInv ==
    ASSUME IInv, PagesTurn
    PROVE  IInv'
<1> DEFINE E == ENTR_PER_PAGE
           S == Rank(req.cmp, req.str)
           R(i) == Rank(req.cmp, file.word[i])
           m == Mid
<1>1. IsLoaded /\ pc = "pages" /\ TypeOK /\ req \in LookupReqs
  BY DEF IInv, TypeOK, PagesTurn, IsLoaded
<1>2. /\ iFrom \in Int /\ iTo \in Int /\ 0 <= iFrom /\ iFrom <= iTo
      /\ iTo <= LastPage /\ LastPage \in Nat
      /\ ~StrLess(0) /\ ~StrGreater(file.wc - 1)
      /\ \A p \in 0 .. iFrom - 1 : StrGreater(p * E)
      /\ \A p \in iTo + 1 .. LastPage : StrLess(p * E)
  BY <1>1, CallFacts DEF IInv, TypeOK, SearchWindow, PagesWindow, PagesTurn
<1>3. m \in Int /\ iFrom <= m /\ m <= iTo /\ m \in 0 .. LastPage
  BY <1>2, MidWithin DEF Mid
<1>4. GetFirstOnPageKey(m) = file.word[m * E]
  BY <1>1, <1>3, CallFacts, FirstKeys DEF IInv
<1>5. /\ S \in Int
      /\ \A i \in 0 .. file.wc - 1 : R(i) \in Int
      /\ m * E \in 0 .. file.wc - 1
  BY <1>1, <1>3, Comparisons, FirstWordsSorted
<1> HIDE DEF m
<1>6. UNCHANGED <<file, loaded, page, wordentry>>
  BY DEF PagesTurn
<1>7. /\ LastPage' = LastPage
      /\ GoLeft \/ GoRight => \A i : /\ StrLess(i)' = StrLess(i)
                                     /\ StrGreater(i)' = StrGreater(i)
  BY <1>6 DEF LastPage, NOffsets, GoLeft, GoRight, StrLess, StrGreater
<1>8. CASE S > R(m * E) /\ GoRight
  <2>1. \A p \in 0 .. m : StrGreater(p * E)
    <3>1. TAKE p \in 0 .. m
    <3>2. p \in 0 .. LastPage /\ p <= m
      BY <1>2, <1>3
    <3>3. p * E \in 0 .. file.wc - 1 /\ R(p * E) <= R(m * E)
      BY <1>1, <1>3, <3>2, FirstWordsSorted
    <3> QED
      BY <1>5, <1>8, <3>3 DEF StrGreater
  <2>2. iFrom' = m + 1 /\ iTo' = iTo /\ pc' = "pages"
    BY <1>1, <1>8 DEF GoRight, m
  <2>3. PagesWindow'
    BY <1>2, <1>3, <1>6, <1>7, <1>8, <2>1, <2>2 DEF PagesWindow
  <2>4. SearchWindow'
    BY <2>2, <2>3 DEF SearchWindow, EntriesWindow
  <2> QED
    BY <1>1, <1>2, <1>6, <1>8, <2>4, LoopGoesOn
<1>9. CASE S < R(m * E) /\ GoLeft
  <2>1. \A p \in m .. LastPage : StrLess(p * E)
    <3>1. TAKE p \in m .. LastPage
    <3>2. p \in 0 .. LastPage /\ m <= p
      BY <1>2, <1>3
    <3>3. p * E \in 0 .. file.wc - 1 /\ R(m * E) <= R(p * E)
      BY <1>1, <1>3, <3>2, FirstWordsSorted
    <3> QED
      BY <1>5, <1>9, <3>3 DEF StrLess
  <2>2. m # 0
    <3>1. 0 * E = 0
      BY EntrPerPageAssumption
    <3> QED
      BY <1>2, <1>9, <3>1 DEF StrLess
  <2>3. iTo' = m - 1 /\ iFrom' = iFrom /\ pc' = "pages"
    BY <1>1, <1>9 DEF GoLeft, m
  <2>4. PagesWindow'
    BY <1>2, <1>3, <1>6, <1>7, <1>9, <2>1, <2>2, <2>3 DEF PagesWindow
  <2>5. SearchWindow'
    BY <2>3, <2>4 DEF SearchWindow, EntriesWindow
  <2> QED
    BY <1>1, <1>2, <1>6, <1>9, <2>5, LoopGoesOn
<1>10. CASE ~(S > R(m * E)) /\ ~(S < R(m * E)) /\ Return(LookupResult(TRUE, m * E))
  <2>1. LookupAnswer(file, req.cmp, req.str, TRUE, m * E)
    BY <1>5, <1>10 DEF LookupAnswer
  <2> QED
    BY <1>1, <1>5, <1>6, <1>10, <2>1, LookupReturns
<1> QED
  BY <1>4, <1>8, <1>9, <1>10 DEF PagesTurn, Less, Greater, m

\* The loop over the pages leaves the one page that can hold str.
LEMMA PagesEndIInv ==
    ASSUME IInv, PagesEnd
    PROVE  IInv'
<1> DEFINE E == ENTR_PER_PAGE
           p == iTo
<1>1. IsLoaded /\ IsLoaded' /\ pc = "pages" /\ pc' = "entries" /\ TypeOK
        /\ req \in LookupReqs
  BY DEF IInv, TypeOK, PagesEnd, IsLoaded
<1>2. /\ iFrom \in Int /\ p \in 0 .. LastPage /\ iFrom = p + 1
      /\ ~StrLess(0) /\ ~StrGreater(file.wc - 1)
      /\ \A q \in 0 .. iFrom - 1 : StrGreater(q * E)
      /\ \A q \in p + 1 .. LastPage : StrLess(q * E)
  BY <1>1, CallFacts DEF IInv, TypeOK, SearchWindow, PagesWindow, PagesEnd
<1>3. /\ idx' = p /\ iFrom' = 1 /\ iTo' = NEntries(p) - 1 /\ iThisIndex' = 0
      /\ page' = LoadPage(ScanOffsets, p)
      /\ UNCHANGED <<file, loaded, wordentry, req, ans>>
  BY <1>1, CallFacts DEF PagesEnd
<1>4. /\ NEntries(p) \in 1 .. E /\ E \in Nat \ {0}
      /\ LastPage \in Nat
  BY <1>1, <1>2, CallFacts, Layout, EntrPerPageAssumption
<1>5. PageCoherent' /\ IsPage(page', p)
  BY <1>1, <1>2, <1>3, CallFacts, PageLoaded
<1>6. TypeOK'
  BY <1>1, <1>2, <1>3, <1>4 DEF TypeOK, Pcs, LookupReqs, GetReqs,
                                LookupAnswers, KeyAnswers
<1>7. LoadedCoherent'
  BY <1>1, <1>3, LoadedStays DEF IInv
<1>8. EntriesWindow'
  <2>1. StrGreater(p * E) /\ (p < LastPage => StrLess((p + 1) * E))
    <3>1. p \in 0 .. iFrom - 1
      BY <1>2
    <3>2. p < LastPage => p + 1 \in p + 1 .. LastPage
      BY <1>2, <1>4
    <3> QED
      BY <1>2, <3>1, <3>2
  <2>2. \A i \in 0 .. 0 : StrGreater(p * E + i)
    <3>1. p * E + 0 = p * E
      BY <1>2, <1>4
    <3>2. StrGreater(p * E + 0)
      BY <2>1, <3>1
    <3> QED
      BY <3>2
  <2>3. page'.idx = p
    BY <1>5 DEF IsPage
  <2>4. /\ LastPage' = LastPage /\ (NEntries(idx))' = NEntries(p)
        /\ \A i : StrLess(i)' = StrLess(i) /\ StrGreater(i)' = StrGreater(i)
    BY <1>3 DEF LastPage, NOffsets, NEntries, StrLess, StrGreater
  <2>5. /\ idx' \in 0 .. LastPage /\ page'.idx = idx'
        /\ 1 <= iFrom' /\ iFrom' <= iTo' + 1 /\ iTo' < NEntries(p)
        /\ ~StrGreater(file.wc - 1)
        /\ \A i \in 0 .. iFrom' - 1 : StrGreater(idx' * E + i)
        /\ \A i \in iTo' + 1 .. NEntries(p) - 1 : StrLess(idx' * E + i)
        /\ idx' < LastPage => StrLess((idx' + 1) * E)
    <3>1. idx' = p /\ p \in 0 .. LastPage /\ page'.idx = p
      BY <1>2, <1>3, <2>3
    <3>2. /\ iFrom' = 1 /\ iTo' = NEntries(p) - 1
          /\ 1 <= iFrom' /\ iFrom' <= iTo' + 1 /\ iTo' < NEntries(p)
      BY <1>3, <1>4
    <3>3. \A i \in 0 .. iFrom' - 1 : StrGreater(p * E + i)
      BY <2>2, <3>2
    <3>4. \A i \in iTo' + 1 .. NEntries(p) - 1 : FALSE
      BY <1>4, <3>2
    <3>5. ~StrGreater(file.wc - 1)
      BY <1>2
    <3> HIDE DEF p
    <3> QED
      BY <2>1, <3>1, <3>2, <3>3, <3>4, <3>5
  <2> HIDE DEF p
  <2> QED
    BY <1>3, <2>4, <2>5 DEF EntriesWindow
<1>9. PagesWindow' /\ LookupCorrect' /\ KeyCorrect'
  BY <1>1, <1>3 DEF IInv, PagesWindow, LookupCorrect, KeyCorrect
<1> QED
  BY <1>5, <1>6, <1>7, <1>8, <1>9 DEF IInv, SearchWindow

\* What the loop over the entries of a page starts each turn from.
LEMMA EntriesFacts ==
    ASSUME IInv, pc = "entries"
    PROVE  /\ IsLoaded /\ TypeOK /\ req \in LookupReqs
           /\ iFrom \in Int /\ iTo \in Int /\ idx \in 0 .. LastPage
           /\ 1 <= iFrom /\ iFrom <= iTo + 1 /\ iTo < NEntries(idx)
           /\ NEntries(idx) \in Nat /\ LastPage \in Nat /\ file.wc \in Nat \ {0}
           /\ page.keystr = [i \in 0 .. NEntries(idx) - 1 |->
                               file.word[idx * ENTR_PER_PAGE + i]]
           /\ ~StrGreater(file.wc - 1)
           /\ \A i \in 0 .. iFrom - 1 : StrGreater(idx * ENTR_PER_PAGE + i)
           /\ \A i \in iTo + 1 .. NEntries(idx) - 1 :
                StrLess(idx * ENTR_PER_PAGE + i)
           /\ idx < LastPage => StrLess((idx + 1) * ENTR_PER_PAGE)
<1>1. IsLoaded /\ TypeOK /\ req \in LookupReqs
  BY DEF IInv, TypeOK, IsLoaded
<1>2. idx \in 0 .. LastPage /\ page.idx = idx
  BY DEF IInv, SearchWindow, EntriesWindow
<1>3. NEntries(idx) \in Nat
  BY <1>1, <1>2, CallFacts, Layout, EntrPerPageAssumption
<1>4. page.keystr = [i \in 0 .. NEntries(idx) - 1 |->
                       file.word[idx * ENTR_PER_PAGE + i]]
  BY <1>1, <1>2, CallFacts DEF IsPage
<1> QED
  BY <1>1, <1>2, <1>3, <1>4, CallFacts
     DEF IInv, TypeOK, SearchWindow, EntriesWindow

\* A turn over the entries leaves str inside a smaller window, or finds it.
LEMMA EntriesTurnIInv ==
    ASSUME IInv, EntriesTurn
    PROVE  IInv'
<1> DEFINE E == ENTR_PER_PAGE
           S == Rank(req.cmp, req.str)
           R(i) == Rank(req.cmp, file.word[i])
           N == NEntries(idx)
           m == Mid
<1>1. pc = "entries" /\ iFrom <= iTo /\ UNCHANGED <<file, loaded, page, wordentry>>
  BY DEF EntriesTurn
<1>2. m \in Int /\ iFrom <= m /\ m <= iTo /\ m \in 0 .. N - 1
  BY <1>1, EntriesFacts, MidWithin DEF Mid
<1>3. page.keystr[m] = file.word[idx * E + m]
  BY <1>1, <1>2, EntriesFacts
<1>4. \A i \in 0 .. N - 1 : idx * E + i \in 0 .. file.wc - 1
  BY <1>1, EntriesFacts, CallFacts, EntryInFile
<1>5. /\ S \in Int
      /\ \A i \in 0 .. file.wc - 1 : R(i) \in Int
      /\ \A i, j \in 0 .. N - 1 : i <= j => R(idx * E + i) <= R(idx * E + j)
  <2>1. idx * E \in Int /\ N \in Nat
    BY <1>1, EntriesFacts, EntrPerPageAssumption
  <2>2. /\ S \in Int
        /\ \A i \in 0 .. file.wc - 1 : R(i) \in Int
        /\ \A i, j \in 0 .. file.wc - 1 : i <= j => R(i) <= R(j)
    BY <1>1, EntriesFacts, Comparisons
  <2> HIDE DEF N, R, S
  <2>3. \A i, j \in 0 .. N - 1 : i <= j => idx * E + i <= idx * E + j
    BY ONLY <2>1
  <2> QED BY ONLY <1>4, <2>2, <2>3
<1> HIDE DEF m
<1>6. /\ LastPage' = LastPage
      /\ GoLeft \/ GoRight => /\ N' = N /\ idx' = idx /\ pc' = pc
                              /\ \A i : /\ StrLess(i)' = StrLess(i)
                                        /\ StrGreater(i)' = StrGreater(i)
  BY <1>1 DEF LastPage, NOffsets, NEntries, GoLeft, GoRight, StrLess, StrGreater
<1>7. page.idx = idx
  BY <1>1 DEF IInv, SearchWindow, EntriesWindow
<1>8. CASE S > R(idx * E + m) /\ GoRight
  <2>1. \A i \in 0 .. m : StrGreater(idx * E + i)
    <3>1. TAKE i \in 0 .. m
    <3>2. i \in 0 .. N - 1 /\ i <= m
      BY <1>1, <1>2, EntriesFacts
    <3>3. R(idx * E + i) <= R(idx * E + m) /\ R(idx * E + i) \in Int /\ R(idx * E + m) \in Int
      BY <1>2, <1>4, <1>5, <3>2
    <3> QED
      BY <1>5, <1>8, <3>3 DEF StrGreater
  <2>2. iFrom' = m + 1 /\ iTo' = iTo
    BY <1>8 DEF GoRight, m
  <2>3. EntriesWindow'
    BY <1>1, <1>2, <1>6, <1>7, <1>8, <2>1, <2>2, EntriesFacts DEF EntriesWindow
  <2>4. SearchWindow'
    BY <1>1, <1>6, <1>8, <2>3 DEF SearchWindow, PagesWindow
  <2> QED
    BY <1>1, <1>8, <2>4, LoopGoesOn
<1>9. CASE S < R(idx * E + m) /\ GoLeft
  <2>1. \A i \in m .. N - 1 : StrLess(idx * E + i)
    <3>1. TAKE i \in m .. N - 1
    <3>2. i \in 0 .. N - 1 /\ m <= i
      BY <1>1, <1>2, EntriesFacts
    <3>3. R(idx * E + m) <= R(idx * E + i) /\ R(idx * E + i) \in Int /\ R(idx * E + m) \in Int
      BY <1>2, <1>4, <1>5, <3>2
    <3> QED
      BY <1>5, <1>9, <3>3 DEF StrLess
  <2>2. iTo' = m - 1 /\ iFrom' = iFrom
    BY <1>9 DEF GoLeft, m
  <2>3. EntriesWindow'
    BY <1>1, <1>2, <1>6, <1>7, <1>9, <2>1, <2>2, EntriesFacts DEF EntriesWindow
  <2>4. SearchWindow'
    BY <1>1, <1>6, <1>9, <2>3 DEF SearchWindow, PagesWindow
  <2> QED
    BY <1>1, <1>9, <2>4, LoopGoesOn
<1>10. CASE /\ ~(S > R(idx * E + m)) /\ ~(S < R(idx * E + m))
            /\ Return(LookupResult(TRUE, idx * E + m))
  <2>1. idx * E + m \in 0 .. file.wc - 1
    BY <1>2, <1>4
  <2>2. LookupAnswer(file, req.cmp, req.str, TRUE, idx * E + m)
    BY <1>5, <1>10, <2>1 DEF LookupAnswer
  <2> QED
    BY <1>1, <1>10, <2>1, <2>2, EntriesFacts, LookupReturns
<1> QED
  BY <1>3, <1>8, <1>9, <1>10 DEF EntriesTurn, Less, Greater, m

\* No entry of the page matches: the answer is the entry after the window,
\* which is the first of the next page when the page is exhausted.
LEMMA EntriesEndIInv ==
    ASSUME IInv, EntriesEnd
    PROVE  IInv'
<1> DEFINE E == ENTR_PER_PAGE
           S == Rank(req.cmp, req.str)
           R(i) == Rank(req.cmp, file.word[i])
           N == NEntries(idx)
           b == idx * E
           k == b + iFrom
<1>1. /\ pc = "entries" /\ iFrom > iTo
      /\ UNCHANGED <<file, loaded, page, wordentry>>
      /\ Return(LookupResult(FALSE, k))
  BY DEF EntriesEnd
<1>2. /\ idx \in 0 .. LastPage /\ iFrom \in Int /\ N \in Nat
      /\ 1 <= iFrom /\ iFrom <= N /\ iFrom = iTo + 1
      /\ \A i \in 0 .. iFrom - 1 : StrGreater(b + i)
      /\ \A i \in iFrom .. N - 1 : StrLess(b + i)
      /\ idx < LastPage => StrLess((idx + 1) * E)
      /\ ~StrGreater(file.wc - 1)
      /\ file.wc \in Nat \ {0} /\ E \in Nat \ {0} /\ LastPage \in Nat
  BY <1>1, EntriesFacts, EntrPerPageAssumption
<1>3. file \in Files /\ b \in Nat
  BY <1>1, <1>2, EntriesFacts, CallFacts
<1>4. b + (iFrom - 1) \in 0 .. file.wc - 1 /\ StrGreater(b + (iFrom - 1))
  <2>1. iFrom - 1 \in 0 .. N - 1 /\ iFrom - 1 \in 0 .. iFrom - 1
    BY <1>2
  <2> QED
    BY <1>2, <1>3, <2>1, EntryInFile
<1>5. k \in 0 .. file.wc - 1 /\ StrLess(k)
  <2>1. CASE iFrom < N
    <3>1. iFrom \in 0 .. N - 1 /\ iFrom \in iFrom .. N - 1
      BY <1>2, <2>1
    <3> QED
      BY <1>2, <1>3, <3>1, EntryInFile
  <2>2. CASE iFrom = N /\ idx < LastPage
    <3>1. N = E /\ (idx + 1) * E <= file.wc - 1
      BY <1>2, <1>3, <2>2, Layout
    <3>2. k = (idx + 1) * E
      BY <1>2, <2>2, <3>1
    <3> HIDE DEF k
    <3> QED
      BY <1>2, <1>3, <2>2, <3>1, <3>2
  <2>3. CASE iFrom = N /\ idx = LastPage
    <3>1. b + N = file.wc
      BY <1>2, <1>3, <2>3, Layout
    <3>2. b + (iFrom - 1) = file.wc - 1
      BY <1>2, <1>3, <2>3, <3>1
    <3> QED
      BY <1>2, <1>4, <3>2
  <2> QED
    BY <1>2, <2>1, <2>2, <2>3
<1>6. \A j \in 0 .. k - 1 : R(j) < S
  <2>1. TAKE j \in 0 .. k - 1
  <2>2. j \in 0 .. file.wc - 1 /\ j <= b + (iFrom - 1)
    BY <1>2, <1>3, <1>5
  <2>3. R(j) <= R(b + (iFrom - 1))
    BY <1>1, <1>4, <2>2, EntriesFacts, Comparisons
  <2>4. S > R(b + (iFrom - 1))
    BY <1>4 DEF StrGreater
  <2>5. S \in Int /\ R(j) \in Int /\ R(b + (iFrom - 1)) \in Int
    BY <1>1, <1>4, <2>2, EntriesFacts, Comparisons
  <2> HIDE DEF S, R
  <2> QED
    BY ONLY <2>3, <2>4, <2>5
<1>7. R(k) > S
  BY <1>1, <1>5, EntriesFacts, Comparisons DEF StrLess
<1>8. k # INVALID_INDEX
  BY <1>5 DEF INVALID_INDEX
<1> HIDE DEF k
<1>9. LookupAnswer(file, req.cmp, req.str, FALSE, k)
  BY <1>5, <1>6, <1>7, <1>8 DEF LookupAnswer
<1> QED
  BY <1>1, <1>5, <1>9, EntriesFacts, LookupReturns
-----------------------------------------------------------------------------
(* The theorems *)

\* Every step of the program keeps the invariant.
LEMMA NextIInv == IInv /\ [Next]_vars => IInv'
<1> SUFFICES ASSUME IInv, [Next]_vars PROVE IInv'
  OBVIOUS
<1>1. CASE Load
  BY <1>1, LoadIInv
<1>2. CASE LoadFails
  <2>1. TypeOK'
    BY <1>2 DEF IInv, TypeOK, LoadFails, Pcs, LookupReqs, GetReqs, locals,
                LookupAnswers, KeyAnswers
  <2>2. LoadedCoherent' /\ PageCoherent'
    BY <1>2 DEF IInv, LoadFails, IsLoaded, LoadedCoherent, PageCoherent
  <2>3. SearchWindow' /\ LookupCorrect' /\ KeyCorrect'
    BY <1>2 DEF IInv, LoadFails, SearchWindow, PagesWindow, EntriesWindow,
                LookupCorrect, KeyCorrect
  <2> QED
    BY <2>1, <2>2, <2>3 DEF IInv
<1>3. CASE \E r \in LookupReqs \cup GetReqs : Call(r)
  BY <1>3, CallIInv
<1>4. CASE GetKey
  BY <1>4, GetKeyIInv
<1>5. CASE LookupBelowFirst \/ LookupAboveLast \/ LookupPages
  BY <1>5, BelowFirstIInv, AboveLastIInv, LookupPagesIInv
<1>6. CASE PagesTurn \/ PagesEnd
  BY <1>6, PagesTurnIInv, PagesEndIInv
<1>7. CASE EntriesTurn \/ EntriesEnd
  BY <1>7, EntriesTurnIInv, EntriesEndIInv
<1>8. CASE UNCHANGED vars
  BY <1>8 DEF IInv, vars, loaded, locals, TypeOK, LookupReqs, GetReqs, LookupAnswers,
              KeyAnswers, LoadedCoherent, PageCoherent, SearchWindow,
              PagesWindow, EntriesWindow, LookupCorrect, KeyCorrect, IsLoaded,
              IsPage, StrLess, StrGreater, ScanOffsets, NEntries, LastPage,
              NOffsets
<1> QED
  BY <1>1, <1>2, <1>3, <1>4, <1>5, <1>6, <1>7, <1>8 DEF Next, Step

\* The inductive invariant holds in every reachable state.
THEOREM Invariance == Spec => []IInv
<1>1. Init => IInv
  BY InitIInv
<1>2. IInv /\ [Next]_vars => IInv'
  BY NextIInv
<1> QED
  BY <1>1, <1>2, PTL DEF Spec

\* Every local, request and answer of lookup() and get_key() has its type:
\* an index handed out is an index of the file or INVALID_INDEX.
THEOREM TypeCorrect == Spec => []TypeOK
<1>1. IInv => TypeOK
  BY DEF IInv
<1> QED
  BY <1>1, Invariance, PTL

\* lookup() tells the truth about the whole file, with both comparisons.
THEOREM LookupIsCorrect == Spec => []LookupCorrect
<1>1. IInv => LookupCorrect
  BY DEF IInv
<1> QED
  BY <1>1, Invariance, PTL

\* The cached page is always the page its number names.
THEOREM PageIsCoherent == Spec => []PageCoherent
<1>1. IInv => PageCoherent
  BY DEF IInv
<1> QED
  BY <1>1, Invariance, PTL

\* No search ever reads past the pages of the file or the entries of a page.
THEOREM SearchStaysInside == Spec => []SearchWindow
<1>1. IInv => SearchWindow
  BY DEF IInv
<1> QED
  BY <1>1, Invariance, PTL

\* get_key() returns the word and the article of the entry asked for.
THEOREM KeyIsCorrect == Spec => []KeyCorrect
<1>1. IInv => KeyCorrect
  BY DEF IInv
<1> QED
  BY <1>1, Invariance, PTL

\* A step that returns an answer is a step of KeyIndex; every other step but
\* the call is invisible to the caller.
LEMMA StepRefines ==
    ASSUME IInv, IInv', [Next]_vars
    PROVE  [KI!Next]_KI!vars
<1> USE DEF KI!vars, KI!Next
<1>1. CASE Load \/ LoadFails \/ LookupPages \/ PagesEnd \/ UNCHANGED vars
  BY <1>1 DEF Load, LoadFails, LookupPages, PagesEnd, vars, locals
<1>2. ASSUME NEW r \in LookupReqs \cup GetReqs, Call(r)
      PROVE  KI!Next
  <2>1. req = NoReq
    BY <1>2 DEF Call, IInv, TypeOK
  <2>2. r \in KI!LookupReqs \cup KI!GetReqs(file) /\ KI!Call(r)
    BY <1>2, <2>1 DEF Call, KI!Call, KI!NoReq, NoReq, LookupReqs, GetReqs,
                      KI!LookupReqs, KI!GetReqs, Cmps, KI!Cmps
  <2> QED
    BY <2>2
<1>3. ASSUME NEW found \in BOOLEAN, NEW i, Return(LookupResult(found, i)),
             UNCHANGED file, req \in LookupReqs
      PROVE  KI!ReturnLookup
  <2>1. req.op = "lookup"
    BY <1>3 DEF LookupReqs
  <2>2. ans' = LookupResult(found, i) /\ req' = NoReq
    BY <1>3 DEF Return
  <2>3. /\ i \in {INVALID_INDEX} \cup 0 .. file.wc - 1
        /\ LookupAnswer(file, req.cmp, req.str, found, i)
    BY <1>3, <2>2 DEF IInv, TypeOK, LookupAnswers, KeyAnswers, NoAns,
                      LookupCorrect, LookupResult
  <2> QED
    BY <1>3, <2>1, <2>2, <2>3 DEF KI!ReturnLookup, KI!NoReq, NoReq,
        LookupResult, INVALID_INDEX, KI!INVALID_INDEX, LookupAnswer,
        KI!LookupAnswer, Rank, KI!Rank
<1>4. CASE LookupBelowFirst \/ LookupAboveLast
  <2>1. UNCHANGED file /\ req \in LookupReqs
    BY <1>4 DEF LookupBelowFirst, LookupAboveLast, IInv, TypeOK
  <2> QED
    BY <1>3, <1>4, <2>1 DEF LookupBelowFirst, LookupAboveLast
<1>5. CASE PagesTurn \/ EntriesTurn
  <2>1. UNCHANGED file /\ req \in LookupReqs
    BY <1>5 DEF PagesTurn, EntriesTurn, IInv, TypeOK
  <2>2. \/ GoLeft \/ GoRight
        \/ \E i : Return(LookupResult(TRUE, i))
    BY <1>5 DEF PagesTurn, EntriesTurn
  <2>3. CASE GoLeft \/ GoRight
    BY <2>1, <2>3 DEF GoLeft, GoRight
  <2> QED
    BY <1>3, <2>1, <2>2, <2>3
<1>6. CASE EntriesEnd
  <2>1. UNCHANGED file /\ req \in LookupReqs
    BY <1>6 DEF EntriesEnd, IInv, TypeOK
  <2> QED
    BY <1>3, <1>6, <2>1 DEF EntriesEnd
<1>7. CASE GetKey
  <2>1. /\ req \in GetReqs /\ req' = NoReq /\ UNCHANGED file
        /\ ans'.op = "get_key" /\ ans'.idx = req.idx
        /\ ans' \in LookupAnswers(file) \cup KeyAnswers(file) \cup {NoAns}
        /\ ans'.key = file.word[ans'.idx] /\ ans'.entry = ans'.idx
    BY <1>7 DEF GetKey, Return, IInv, TypeOK, KeyCorrect, LookupAnswers, KeyAnswers
  <2>2. ans' \in KeyAnswers(file)
    BY <2>1 DEF LookupAnswers, NoAns
  <2>3. ans' = [op |-> "get_key", idx |-> req.idx,
                key |-> file.word[req.idx], entry |-> req.idx]
    BY <2>1, <2>2 DEF KeyAnswers
  <2> QED
    BY <2>1, <2>3 DEF KI!ReturnKey, KI!NoReq, NoReq, GetReqs
<1> QED
  BY <1>1, <1>2, <1>4, <1>5, <1>6, <1>7 DEF Next, Step

\* OffsetIndex implements KeyIndex.
THEOREM Refinement == Spec => Implements
<1>1. Init => KI!Init
  BY DEF Init, KI!Init, NoReq, NoAns, KI!NoReq, KI!NoAns, Files, KI!Files,
         Sorted, KI!Sorted
<1>2. IInv /\ IInv' /\ [Next]_vars => [KI!Next]_KI!vars
  BY StepRefines
<1> QED
  BY <1>1, <1>2, Invariance, PTL DEF Spec, Implements, KI!Spec
-----------------------------------------------------------------------------
(* WordListIndex: it answers every lookup rightly, never compares its       *)
(* sentinel, and implements KeyIndex.                                       *)

\* Both classes speak of the same word lists and orders.
LEMMA SameWords ==
    /\ W!Files = Files /\ W!Cmps = Cmps /\ W!INVALID_INDEX = INVALID_INDEX
    /\ \A c, w : W!Rank(c, w) = Rank(c, w)
    /\ \A f, n : W!Sorted(f, n) = Sorted(f, n)
BY DEF W!Files, Files, W!Sorted, Sorted, W!Cmps, Cmps, W!Rank, Rank,
       W!INVALID_INDEX, INVALID_INDEX

\* What a loaded index and a running lookup are made of.
LEMMA ListFacts ==
    ASSUME W!IInv, pc \in {"lookup", "search"}
    PROVE  /\ file.wc \in Nat \ {0}
           /\ req \in W!LookupReqs
           /\ W!Rank(req.cmp, req.str) \in Int
           /\ \A i \in 0 .. file.wc - 1 :
                W!Key(i) = file.word[i] /\ W!Rank(req.cmp, file.word[i]) \in Int
           /\ \A i, j \in 0 .. file.wc - 1 :
                i <= j => W!Rank(req.cmp, file.word[i]) <= W!Rank(req.cmp, file.word[j])
<1>1. file \in W!Files /\ req \in W!LookupReqs /\ wordlist = [i \in 0 .. file.wc |-> i]
  BY DEF W!IInv, W!TypeOK
<1>2. req.cmp \in W!Cmps /\ req.str \in Words
  BY <1>1 DEF W!LookupReqs
<1>3. file.wc \in Nat \ {0}
  BY <1>1, FileFacts, SameWords
<1>4. \A i \in 0 .. file.wc - 1 : W!Key(i) = file.word[i]
  BY <1>1, <1>3 DEF W!Key
<1> QED
  BY <1>1, <1>2, <1>3, <1>4, RankMonotone, RankSorted, SameWords

\* The state after Init.
LEMMA ListInitIInv == W!Init => W!IInv
BY DEF W!Init, W!IInv, W!TypeOK, W!SearchWindow, W!LookupCorrect, W!KeyCorrect, W!NoReq, W!NoAns

\* A lookup that returns a right answer keeps the invariant.
LEMMA ListLookupReturns ==
    ASSUME W!IInv, pc \in {"lookup", "search"},
           NEW found, NEW i,
           W!Return(W!LookupResult(found, i)), UNCHANGED <<file, wordlist, wordentry>>,
           W!LookupAnswer(file, req.cmp, req.str, found, i)
    PROVE  W!IInv'
<1>1. W!TypeOK'
  BY DEF W!IInv, W!TypeOK, W!Return
<1>2. W!SearchWindow'
  BY DEF W!Return, W!SearchWindow
<1>3. W!LookupCorrect' /\ W!KeyCorrect'
  BY DEF W!Return, W!LookupResult, W!LookupCorrect, W!KeyCorrect
<1> QED
  BY <1>1, <1>2, <1>3 DEF W!IInv

\* Below the first word: every word is greater, the first of them is word 0.
LEMMA ListBelowFirstIInv ==
    ASSUME W!IInv, W!LookupBelowFirst
    PROVE  W!IInv'
<1>1. W!LookupAnswer(file, req.cmp, req.str, FALSE, 0)
  BY ListFacts DEF W!LookupBelowFirst, W!Less, W!LookupAnswer, W!INVALID_INDEX
<1> QED
  BY <1>1, ListLookupReturns DEF W!LookupBelowFirst

\* Above the last word: every word is less.
LEMMA ListAboveLastIInv ==
    ASSUME W!IInv, W!LookupAboveLast
    PROVE  W!IInv'
<1>1. /\ W!LastIndex \in 0 .. file.wc - 1 /\ W!LastIndex = file.wc - 1
      /\ W!Rank(req.cmp, file.word[W!LastIndex]) < W!Rank(req.cmp, req.str)
  BY ListFacts DEF W!LookupAboveLast, W!LastIndex, W!Greater
<1>2. ASSUME NEW j \in 0 .. file.wc - 1
      PROVE  W!Rank(req.cmp, file.word[j]) < W!Rank(req.cmp, req.str)
  <2>1. W!Rank(req.cmp, file.word[j]) <= W!Rank(req.cmp, file.word[W!LastIndex])
    BY <1>1, ListFacts DEF W!LookupAboveLast
  <2> QED
    BY <1>1, <2>1, ListFacts DEF W!LookupAboveLast
<1>3. W!LookupAnswer(file, req.cmp, req.str, FALSE, W!INVALID_INDEX)
  BY <1>2 DEF W!LookupAnswer
<1> QED
  BY <1>3, ListLookupReturns DEF W!LookupAboveLast

\* The search starts with every entry but the sentinel in the window.
LEMMA ListLookupSearchIInv ==
    ASSUME W!IInv, W!LookupSearch
    PROVE  W!IInv'
<1>1. W!TypeOK'
  BY ListFacts DEF W!IInv, W!TypeOK, W!LookupSearch, W!LastIndex, W!LookupReqs
<1>2. W!SearchWindow'
  BY ListFacts DEF W!SearchWindow, W!LookupSearch, W!LastIndex, W!Less, W!Greater, W!Key
<1>3. W!LookupCorrect' /\ W!KeyCorrect'
  BY DEF W!IInv, W!LookupSearch, W!LookupCorrect, W!KeyCorrect
<1> QED
  BY <1>1, <1>2, <1>3 DEF W!IInv

\* A turn leaves str inside a smaller window, or finds it.
LEMMA ListSearchTurnIInv ==
    ASSUME W!IInv, W!SearchTurn
    PROVE  W!IInv'
<1> DEFINE m == W!Mid
           S == W!Rank(req.cmp, req.str)
           R(i) == W!Rank(req.cmp, file.word[i])
<1>1. /\ pc = "search" /\ iFrom <= iTo /\ iFrom \in Int /\ iTo \in Int
      /\ 0 <= iFrom /\ iTo < file.wc
      /\ ~W!Less(0) /\ ~W!Greater(file.wc - 1)
      /\ \A i \in 0 .. iFrom - 1 : W!Greater(i)
      /\ \A i \in iTo + 1 .. file.wc - 1 : W!Less(i)
      /\ UNCHANGED <<file, wordlist, wordentry>>
  BY DEF W!SearchTurn, W!IInv, W!TypeOK, W!SearchWindow
<1>2. /\ m \in Int /\ iFrom <= m /\ m <= iTo /\ m \in 0 .. file.wc - 1
      /\ file.wc \in Nat
  BY <1>1, MidWithin, ListFacts DEF W!Mid
<1>3. S \in Int /\ \A i \in 0 .. file.wc - 1 : R(i) \in Int /\ W!Key(i) = file.word[i]
  BY <1>1, ListFacts
<1>4. \A i, j \in 0 .. file.wc - 1 : i <= j => R(i) <= R(j)
  BY <1>1, ListFacts
<1> HIDE DEF m
<1>5. UNCHANGED req => /\ file' = file
                       /\ \A i : (W!Less(i)' <=> W!Less(i)) /\ (W!Greater(i)' <=> W!Greater(i))
  BY <1>1 DEF W!Less, W!Greater, W!Key
<1>6. CASE W!Greater(m) /\ iFrom' = m + 1 /\ UNCHANGED <<iTo, pc, req, ans>> /\ iThisIndex' = m
  <2>1. \A i \in 0 .. m : W!Greater(i)
    <3>1. TAKE i \in 0 .. m
    <3>2. i \in 0 .. file.wc - 1 /\ i <= m
      BY <1>2
    <3>3. R(i) <= R(m)
      BY <1>2, <1>4, <3>2
    <3> QED
      BY <1>2, <1>3, <1>6, <3>2, <3>3 DEF W!Greater
  <2>2. W!TypeOK'
    BY <1>1, <1>2, <1>6 DEF W!IInv, W!TypeOK, W!LookupReqs, W!GetReqs
  <2>3. W!SearchWindow'
    BY <1>1, <1>2, <1>6, <1>5, <2>1 DEF W!SearchWindow
  <2>4. W!LookupCorrect' /\ W!KeyCorrect'
    BY <1>1, <1>6 DEF W!IInv, W!LookupCorrect, W!KeyCorrect
  <2> QED
    BY <2>2, <2>3, <2>4 DEF W!IInv
<1>7. CASE W!Less(m) /\ iTo' = m - 1 /\ UNCHANGED <<iFrom, pc, req, ans>> /\ iThisIndex' = m
  <2>1. \A i \in m .. file.wc - 1 : W!Less(i)
    <3>1. TAKE i \in m .. file.wc - 1
    <3>2. i \in 0 .. file.wc - 1 /\ m <= i
      BY <1>2
    <3>3. R(m) <= R(i)
      BY <1>2, <1>4, <3>2
    <3> QED
      BY <1>2, <1>3, <1>7, <3>2, <3>3 DEF W!Less
  <2>2. W!TypeOK'
    BY <1>1, <1>2, <1>7 DEF W!IInv, W!TypeOK, W!LookupReqs, W!GetReqs
  <2>3. W!SearchWindow'
    BY <1>1, <1>2, <1>7, <1>5, <2>1 DEF W!SearchWindow
  <2>4. W!LookupCorrect' /\ W!KeyCorrect'
    BY <1>1, <1>7 DEF W!IInv, W!LookupCorrect, W!KeyCorrect
  <2> QED
    BY <2>2, <2>3, <2>4 DEF W!IInv
<1>8. CASE ~W!Greater(m) /\ ~W!Less(m) /\ W!Return(W!LookupResult(TRUE, m))
  <2>1. W!LookupAnswer(file, req.cmp, req.str, TRUE, m)
    BY <1>2, <1>3, <1>8 DEF W!LookupAnswer, W!Less, W!Greater
  <2> QED
    BY <1>1, <1>8, <2>1, ListLookupReturns
<1> QED
  BY <1>6, <1>7, <1>8 DEF W!SearchTurn, m

\* No entry matches: the first one after the window is the next greater word.
LEMMA ListSearchEndIInv ==
    ASSUME W!IInv, W!SearchEnd
    PROVE  W!IInv'
<1> DEFINE S == W!Rank(req.cmp, req.str)
           R(i) == W!Rank(req.cmp, file.word[i])
<1>1. /\ pc = "search" /\ iFrom = iTo + 1 /\ iFrom \in Int /\ iTo \in Int
      /\ 0 <= iFrom /\ iTo < file.wc
      /\ ~W!Less(0) /\ ~W!Greater(file.wc - 1)
      /\ \A i \in 0 .. iFrom - 1 : W!Greater(i)
      /\ \A i \in iFrom .. file.wc - 1 : W!Less(i)
  BY DEF W!SearchEnd, W!IInv, W!TypeOK, W!SearchWindow
<1>2. /\ file.wc \in Nat \ {0} /\ S \in Int
      /\ \A i \in 0 .. file.wc - 1 : R(i) \in Int /\ W!Key(i) = file.word[i]
  BY <1>1, ListFacts
<1>3. iFrom \in 0 .. file.wc - 1
  BY <1>1, <1>2
<1>4. R(iFrom) > S /\ \A i \in 0 .. iFrom - 1 : R(i) < S
  BY <1>1, <1>2, <1>3 DEF W!Less, W!Greater
<1>5. W!LookupAnswer(file, req.cmp, req.str, FALSE, iFrom)
  BY <1>3, <1>4 DEF W!LookupAnswer, W!INVALID_INDEX
<1> QED
  BY <1>1, <1>5, ListLookupReturns DEF W!SearchEnd

\* get_key_and_data() returns the word and the article of its entry.
LEMMA ListGetKeyIInv ==
    ASSUME W!IInv, W!GetKeyAndData
    PROVE  W!IInv'
<1>1. /\ req \in W!GetReqs /\ file \in W!Files
      /\ wordlist = [i \in 0 .. file.wc |-> i]
  BY DEF W!GetKeyAndData, W!IInv, W!TypeOK
<1>2. file.wc \in Nat /\ req.idx \in 0 .. file.wc - 1
  BY <1>1, FileFacts, SameWords DEF W!GetReqs
<1>3. wordlist[req.idx] = req.idx
  BY <1>1, <1>2
<1>4. W!TypeOK'
  BY DEF W!GetKeyAndData, W!Return, W!IInv, W!TypeOK
<1>5. W!SearchWindow' /\ W!LookupCorrect'
  BY DEF W!GetKeyAndData, W!Return, W!SearchWindow, W!LookupCorrect
<1>6. W!KeyCorrect'
  BY <1>3 DEF W!GetKeyAndData, W!Return, W!KeyCorrect, W!Key
<1> QED
  BY <1>4, <1>5, <1>6 DEF W!IInv

\* Every step of the program keeps the invariant.
LEMMA ListNextIInv == W!IInv /\ [W!Next]_W!vars => W!IInv'
<1> SUFFICES ASSUME W!IInv, [W!Next]_W!vars PROVE W!IInv'
  OBVIOUS
<1>1. CASE W!Load \/ W!LoadFails
  BY <1>1 DEF W!Load, W!LoadFails, W!IInv, W!TypeOK, W!LookupReqs, W!GetReqs, W!locals,
              W!SearchWindow, W!LookupCorrect, W!KeyCorrect
<1>2. ASSUME NEW r \in W!LookupReqs \cup W!GetReqs, W!Call(r)
      PROVE  W!IInv'
  <2>1. W!TypeOK'
    BY <1>2 DEF W!Call, W!IInv, W!TypeOK, W!LookupReqs, W!GetReqs, W!locals
  <2>2. W!SearchWindow' /\ W!LookupCorrect' /\ W!KeyCorrect'
    BY <1>2 DEF W!Call, W!IInv, W!SearchWindow, W!LookupCorrect, W!KeyCorrect,
                W!LookupReqs, W!GetReqs
  <2> QED
    BY <2>1, <2>2 DEF W!IInv
<1>3. CASE UNCHANGED W!vars
  BY <1>3 DEF W!IInv, W!vars, W!locals, W!TypeOK, W!LookupReqs, W!GetReqs, W!SearchWindow,
              W!LookupCorrect, W!KeyCorrect, W!Less, W!Greater, W!Key
<1> QED
  BY <1>1, <1>2, <1>3, ListGetKeyIInv, ListBelowFirstIInv, ListAboveLastIInv,
     ListLookupSearchIInv, ListSearchTurnIInv, ListSearchEndIInv DEF W!Next, W!Step

\* The inductive invariant holds in every reachable state.
THEOREM ListInvariance == W!Spec => []W!IInv
BY ListInitIInv, ListNextIInv, PTL DEF W!Spec

\* A step that returns an answer is a step of KeyIndex; every other step but
\* the call is invisible to the caller.
LEMMA ListStepRefines ==
    ASSUME W!IInv, W!IInv', [W!Next]_W!vars
    PROVE  [KI!Next]_KI!vars
<1> USE DEF KI!vars, KI!Next
<1>1. CASE W!Load \/ W!LoadFails \/ W!LookupSearch \/ UNCHANGED W!vars
  BY <1>1 DEF W!Load, W!LoadFails, W!LookupSearch, W!vars, W!locals
<1>2. ASSUME NEW r \in W!LookupReqs \cup W!GetReqs, W!Call(r)
      PROVE  KI!Next
  <2>1. req = W!NoReq
    BY <1>2 DEF W!Call, W!IInv, W!TypeOK
  <2> QED
    BY <1>2, <2>1 DEF W!Call, KI!Call, KI!NoReq, W!NoReq, W!LookupReqs, W!GetReqs,
                      KI!LookupReqs, KI!GetReqs, W!Cmps, KI!Cmps
<1>3. ASSUME NEW found \in BOOLEAN, NEW i, W!Return(W!LookupResult(found, i)),
             UNCHANGED file, req \in W!LookupReqs
      PROVE  KI!ReturnLookup
  <2>1. W!LookupAnswer(file, req.cmp, req.str, found, i)
    BY <1>3 DEF W!Return, W!LookupResult, W!IInv, W!LookupCorrect
  <2>2. i \in {W!INVALID_INDEX} \cup 0 .. file.wc - 1
    BY <1>3, <2>1 DEF W!LookupAnswer
  <2> QED
    BY <1>3, <2>1, <2>2 DEF W!Return, W!LookupReqs, KI!ReturnLookup, KI!NoReq,
        W!NoReq, W!LookupResult, W!INVALID_INDEX, KI!INVALID_INDEX, W!LookupAnswer,
        KI!LookupAnswer, W!Rank, KI!Rank
<1>4. CASE W!LookupBelowFirst \/ W!LookupAboveLast \/ W!SearchEnd
  <2>1. UNCHANGED file /\ req \in W!LookupReqs
    BY <1>4 DEF W!LookupBelowFirst, W!LookupAboveLast, W!SearchEnd, W!IInv, W!TypeOK
  <2> QED
    BY <1>3, <1>4, <2>1 DEF W!LookupBelowFirst, W!LookupAboveLast, W!SearchEnd
<1>5. CASE W!SearchTurn
  <2>1. UNCHANGED file /\ req \in W!LookupReqs
    BY <1>5 DEF W!SearchTurn, W!IInv, W!TypeOK
  <2> QED
    BY <1>3, <1>5, <2>1 DEF W!SearchTurn
<1>6. CASE W!GetKeyAndData
  <2>1. req \in W!GetReqs
    BY <1>6 DEF W!GetKeyAndData, W!IInv, W!TypeOK
  <2>2. ans' = [op |-> "get_key", idx |-> req.idx,
                key |-> file.word[req.idx], entry |-> req.idx]
    BY <1>6 DEF W!GetKeyAndData, W!Return, W!IInv, W!KeyCorrect
  <2> QED
    BY <1>6, <2>1, <2>2 DEF W!GetKeyAndData, W!Return, KI!ReturnKey, KI!NoReq,
                            W!NoReq, W!GetReqs
<1> QED
  BY <1>1, <1>2, <1>4, <1>5, <1>6 DEF W!Next, W!Step

\* WordListIndex implements KeyIndex.
THEOREM ListRefinement == W!Spec => Implements
<1>1. W!Init => KI!Init
  BY DEF W!Init, KI!Init, W!NoReq, W!NoAns, KI!NoReq, KI!NoAns, W!Files, KI!Files,
         W!Sorted, KI!Sorted
<1>2. W!IInv /\ W!IInv' /\ [W!Next]_W!vars => [KI!Next]_KI!vars
  BY ListStepRefines
<1> QED
  BY <1>1, <1>2, ListInvariance, PTL DEF W!Spec, Implements, KI!Spec

-----------------------------------------------------------------------------
(* The invariant of the composition *)

\* The class serving keeps its own inductive invariant.
DictInv ==
    /\ idxclass \in {"OffsetIndex", "WordListIndex"}
    /\ idxclass = "OffsetIndex" => IInv
    /\ idxclass = "WordListIndex" => W!IInv

\* The state after DictInit.
LEMMA DictInitInv == DictInit => DictInv
BY InitIInv, ListInitIInv DEF DictInit, DictInv

\* Every step of the class serving keeps its invariant.
LEMMA DictNextInv == DictInv /\ [DictNext]_dictvars => DictInv'
<1> SUFFICES ASSUME DictInv, [DictNext]_dictvars PROVE DictInv'
  OBVIOUS
<1>1. UNCHANGED idxclass
  BY DEF DictNext, dictvars
<1>2. CASE idxclass = "OffsetIndex"
  <2>1. [Next]_vars
    BY <1>2 DEF DictNext, dictvars
  <2> QED
    BY <1>1, <1>2, <2>1, NextIInv DEF DictInv
<1>3. CASE idxclass = "WordListIndex"
  <2>1. W!Next \/ UNCHANGED W!vars
    BY <1>3 DEF DictNext, dictvars, vars, W!vars, W!locals, loaded, locals
  <2>2. W!IInv'
    BY <1>3, <2>1, ListNextIInv DEF DictInv
  <2> QED
    BY <1>1, <1>3, <2>2 DEF DictInv
<1> QED
  BY <1>2, <1>3 DEF DictInv

\* Each class keeps its invariant in every reachable state of a dictionary.
THEOREM DictInvariance == DictSpec => []DictInv
BY DictInitInv, DictNextInv, PTL DEF DictSpec

-----------------------------------------------------------------------------
(* What a dictionary may rely on, whichever class it has *)

\* lookup() tells the truth about the whole word list, with both comparisons.
THEOREM DictLookupCorrect == DictSpec => []LookupCorrect
<1>1. DictInv => LookupCorrect
  BY DEF DictInv, IInv, W!IInv, W!LookupCorrect, LookupCorrect, LookupAnswer,
         W!LookupAnswer, Rank, W!Rank, INVALID_INDEX, W!INVALID_INDEX
<1> QED
  BY <1>1, DictInvariance, PTL

\* get_key() returns the word and the article of the entry asked for.
THEOREM DictKeyCorrect == DictSpec => []KeyCorrect
<1>1. DictInv => KeyCorrect
  BY DEF DictInv, IInv, W!IInv, W!KeyCorrect, KeyCorrect
<1> QED
  BY <1>1, DictInvariance, PTL

\* The cached page of an index on disk is always the page its number names.
THEOREM DictPageCoherent == DictSpec => []DiskPageCoherent
<1>1. DictInv => DiskPageCoherent
  BY DEF DictInv, IInv, DiskPageCoherent
<1> QED
  BY <1>1, DictInvariance, PTL

\* No search of either class reads a place that is not an entry.
THEOREM DictSearchInside == DictSpec => []SearchInside
<1>1. DictInv => SearchInside
  BY DEF DictInv, IInv, W!IInv, SearchInside
<1> QED
  BY <1>1, DictInvariance, PTL

\* A dictionary implements KeyIndex, whichever class its index has.
THEOREM DictRefinement == DictSpec => Implements
<1>1. DictInit => KI!Init
  BY DEF DictInit, Init, KI!Init, NoReq, NoAns, KI!NoReq, KI!NoAns, Files,
         KI!Files, Sorted, KI!Sorted
<1>2. DictInv /\ DictInv' /\ [DictNext]_dictvars => [KI!Next]_KI!vars
  <2> SUFFICES ASSUME DictInv, DictInv', [DictNext]_dictvars
               PROVE  [KI!Next]_KI!vars
    OBVIOUS
  <2>1. UNCHANGED idxclass
    BY DEF DictNext, dictvars
  <2>2. CASE idxclass = "OffsetIndex"
    <3>1. [Next]_vars
      BY <2>2 DEF DictNext, dictvars
    <3> QED
      BY <2>1, <2>2, <3>1, StepRefines DEF DictInv
  <2>3. CASE idxclass = "WordListIndex"
    <3>1. W!Next \/ UNCHANGED W!vars
      BY <2>3 DEF DictNext, dictvars, vars, W!vars, W!locals, loaded, locals
    <3>2. W!IInv /\ W!IInv'
      BY <2>1, <2>3 DEF DictInv
    <3> QED
      BY <3>1, <3>2, ListStepRefines
  <2> QED
    BY <2>2, <2>3 DEF DictInv
<1> QED
  BY <1>1, <1>2, DictInvariance, PTL DEF DictSpec, Implements, KI!Spec
-----------------------------------------------------------------------------
(* The .oft files, for any number of processes and any bound on the clock:  *)
(* a load never ends with offsets of a replaced .idx file when the file is  *)
(* replaced as Quiet says, and never with a part of the offsets while no    *)
(* save is disturbed.                                                       *)

Lefts == { <<>>, <<"dir">>, <<"home">>, <<"dir", "home">> }
Parts == Versions \cup {None, Zeros}
Offsets == (Versions \cup {None}) \X (Versions \cup {None})
OftFiles == [mtime : 0 .. MaxTime, head : Parts, tail : Versions \cup {None}]

Loads ==
    [pc : {"stat"}, ver : Versions, left : Lefts]
      \cup [pc : {"read"}, ver : Versions, left : Lefts \ {<<>>}]
Saves ==
    [pc : {"save"}, ver : Versions, left : Lefts, wordoffset : Offsets]
      \cup [pc : {"head", "tail"}, ver : Versions, left : Lefts \ {<<>>},
            wordoffset : Offsets]
Ends == [pc : {"open", "loaded"}, ver : Versions, wordoffset : Offsets]

TypeInv ==
    /\ now \in 0 .. MaxTime
    /\ idxfile \in [ver : Versions, mtime : 0 .. now]
    /\ oft \in [Items -> {NoFile} \cup OftFiles]
    /\ \A item \in Items : oft[item].mtime =< now
    /\ proc \in [Procs -> {Idle} \cup Loads \cup Saves \cup Ends]
    /\ \A p \in Procs : proc[p].pc \in {"read", "head", "tail"} => oft[Item(p)] # NoFile
    /\ disturbed \in BOOLEAN

\* The files that load_cache() would take have only parts of the .idx file as
\* it is now; a process that is not at rest began with this .idx file and has
\* only parts of it; a file that is being read or written is one of those.
FreshFiles ==
    \A item \in Items : Fresh(item) =>
        /\ oft[item].head \in {idxfile.ver, None, Zeros}
        /\ oft[item].tail \in {idxfile.ver, None}
BusyProcs ==
    \A p \in Procs :
        /\ proc[p].pc \notin {"idle", "loaded"} => proc[p].ver = idxfile.ver
        /\ proc[p].pc \in {"save", "head", "tail", "open"} =>
             proc[p].wordoffset \in {idxfile.ver, None} \X {idxfile.ver, None}
        /\ proc[p].pc \in {"read", "head", "tail"} => Fresh(Item(p))
QuietInv == FreshFiles /\ BusyProcs /\ RecreateIfModified

\* Until something is disturbed, a file without its second part is being
\* written, and every process that has offsets has the second part of them.
TailsComing ==
    /\ \A item \in Items :
         oft[item] # NoFile /\ oft[item].tail = None => Writers(item) # {}
    /\ \A p \in Procs :
         proc[p].pc \in {"save", "head", "tail", "open", "loaded"} =>
             proc[p].wordoffset[2] # None
WholeInv == ~disturbed => TailsComing

OftIInv == TypeInv /\ (Quiet => QuietInv) /\ WholeInv
-----------------------------------------------------------------------------
\* Where a process is in load() says what it has at hand.
LEMMA ProcKinds ==
    ASSUME TypeInv, NEW p \in Procs
    PROVE  /\ proc[p].pc = "idle" => proc[p] = Idle
           /\ proc[p].pc \in {"stat", "read"} => proc[p] \in Loads
           /\ proc[p].pc \in {"save", "head", "tail"} => proc[p] \in Saves
           /\ proc[p].pc \in {"open", "loaded"} => proc[p] \in Ends
           /\ proc[p].pc \in {"idle", "stat", "read", "save", "head", "tail", "open", "loaded"}
<1>1. proc[p] \in {Idle} \cup Loads \cup Saves \cup Ends
  BY DEF TypeInv
<1>2. CASE proc[p] = Idle
  BY <1>2 DEF Idle
<1>3. CASE proc[p] \in Loads
  BY <1>3 DEF Loads
<1>4. CASE proc[p] \in Saves
  BY <1>4 DEF Saves
<1>5. CASE proc[p] \in Ends
  BY <1>5 DEF Ends
<1> QED BY <1>1, <1>2, <1>3, <1>4, <1>5

\* Leaving out a variant leaves variants.
LEMMA TailOfLefts ==
    ASSUME NEW left \in Lefts, left # <<>>
    PROVE  Tail(left) \in Lefts /\ Head(left) \in Items
<1>1. CASE left = <<"dir">>
  BY <1>1 DEF Lefts, Items
<1>2. CASE left = <<"home">>
  BY <1>2 DEF Lefts, Items
<1>3. CASE left = <<"dir", "home">>
  <2>1. Head(left) = "dir" /\ Tail(left) = <<"home">>
    BY <1>3
  <2> QED BY <2>1 DEF Lefts, Items
<1> QED BY <1>1, <1>2, <1>3 DEF Lefts

\* A process that reads or writes has a file to do it with.
LEMMA ItemOfProc ==
    ASSUME TypeInv, NEW p \in Procs,
           \/ proc[p].pc \in {"read", "head", "tail"}
           \/ proc[p].pc \in {"stat", "save"} /\ proc[p].left # <<>>
    PROVE  /\ Item(p) \in Items
           /\ Tail(proc[p].left) \in Lefts
           /\ proc[p].left \in Lefts \ {<<>>}
<1>1. proc[p] \in Loads \cup Saves
  BY ProcKinds
<1>2. proc[p].left \in Lefts \ {<<>>}
  BY <1>1 DEF Loads, Saves
<1> QED BY <1>2, TailOfLefts DEF Item

\* The types are kept when one process takes a step that leaves the clock
\* and the .idx file alone.
LEMMA ProcTyped ==
    ASSUME TypeInv, NEW p \in Procs,
           NEW v \in {Idle} \cup Loads \cup Saves \cup Ends,
           v.pc \in {"read", "head", "tail"} => oft[Head(v.left)] # NoFile,
           proc' = [proc EXCEPT ![p] = v],
           UNCHANGED <<now, idxfile, oft>>, disturbed' \in BOOLEAN
    PROVE  TypeInv'
BY DEF TypeInv, Item

LEMMA OftInitIInv == OftInit => OftIInv
<1> SUFFICES ASSUME OftInit PROVE OftIInv
  OBVIOUS
<1> USE QuietAssumption DEF OftInit
<1>1. TypeInv
  <2>1. idxfile \in [ver : Versions, mtime : 0 .. now] /\ now \in 0 .. MaxTime
    BY DEF Versions
  <2>2. /\ oft \in [Items -> {NoFile} \cup OftFiles]
        /\ \A item \in Items : oft[item].mtime =< now
    BY DEF NoFile
  <2>3. /\ proc \in [Procs -> {Idle} \cup Loads \cup Saves \cup Ends]
        /\ \A p \in Procs : proc[p].pc = "idle"
    BY DEF Idle
  <2> QED BY <2>1, <2>2, <2>3 DEF TypeInv
<1>2. QuietInv
  BY DEF QuietInv, FreshFiles, BusyProcs, RecreateIfModified, Fresh, NoFile, Idle
<1>3. WholeInv
  BY DEF WholeInv, TailsComing, NoFile, Idle
<1> QED BY <1>1, <1>2, <1>3 DEF OftIInv

LEMMA TypeStep == TypeInv /\ [OftNext]_oftvars => TypeInv'
<1> SUFFICES ASSUME TypeInv, [OftNext]_oftvars PROVE TypeInv'
  OBVIOUS
<1> USE QuietAssumption
<1>1. ASSUME NEW p \in Procs, LoadCache(p) PROVE TypeInv'
  <2>1. PICK variants \in CacheVariants :
          proc' = [proc EXCEPT ![p] = [pc |-> "stat", ver |-> idxfile.ver, left |-> variants]]
    BY <1>1 DEF LoadCache
  <2>2. [pc |-> "stat", ver |-> idxfile.ver, left |-> variants] \in Loads
    BY DEF Loads, Lefts, CacheVariants, TypeInv
  <2>3. UNCHANGED <<now, idxfile, oft, disturbed>> /\ disturbed \in BOOLEAN
    BY <1>1 DEF LoadCache, TypeInv
  <2> QED BY <2>1, <2>2, <2>3, ProcTyped
<1>2. ASSUME NEW p \in Procs, StatCache(p) PROVE TypeInv'
  <2>1. proc[p] \in [pc : {"stat"}, ver : Versions, left : Lefts]
    BY <1>2, ProcKinds DEF StatCache, Loads
  <2>2. proc[p].left \in Lefts \ {<<>>} /\ Tail(proc[p].left) \in Lefts
    BY <1>2, ItemOfProc DEF StatCache
  <2>3. [proc[p] EXCEPT !.pc = "read"] \in Loads
    BY <2>1, <2>2 DEF Loads
  <2>4. NextItem(p) \in Loads
    BY <2>1, <2>2 DEF Loads, NextItem
  <2>5. UNCHANGED <<now, idxfile, oft, disturbed>> /\ disturbed \in BOOLEAN
    BY <1>2 DEF StatCache, TypeInv
  <2>6. \/ proc' = [proc EXCEPT ![p] = [proc[p] EXCEPT !.pc = "read"]] /\ oft[Item(p)] # NoFile
       \/ proc' = [proc EXCEPT ![p] = NextItem(p)]
    BY <1>2 DEF StatCache
  <2>7. NextItem(p).pc = "stat"
    BY <2>1 DEF NextItem
  <2>8. CASE proc' = [proc EXCEPT ![p] = NextItem(p)]
    BY <2>4, <2>5, <2>7, <2>8, ProcTyped
  <2>9. CASE proc' = [proc EXCEPT ![p] = [proc[p] EXCEPT !.pc = "read"]] /\ oft[Item(p)] # NoFile
    <3>1. [proc[p] EXCEPT !.pc = "read"].left = proc[p].left
      BY <2>1
    <3> QED BY <2>3, <2>5, <2>9, <3>1, ProcTyped DEF Item
  <2> QED BY <2>6, <2>8, <2>9
<1>3. ASSUME NEW p \in Procs, ReadCache(p) PROVE TypeInv'
  <2>1. proc[p] \in [pc : {"read"}, ver : Versions, left : Lefts \ {<<>>}]
    BY <1>3, ProcKinds DEF ReadCache, Loads
  <2>2. Item(p) \in Items /\ Tail(proc[p].left) \in Lefts
    BY <1>3, ItemOfProc DEF ReadCache
  <2>3. NextItem(p) \in Loads
    BY <2>1, <2>2 DEF Loads, NextItem
  <2>4. UNCHANGED <<now, idxfile, oft>> /\ disturbed' \in BOOLEAN
    BY <1>3 DEF ReadCache, TypeInv
  <2>5. CASE proc' = [proc EXCEPT ![p] = Idle] \/ proc' = [proc EXCEPT ![p] = NextItem(p)]
    <3>1. Idle.pc = "idle" /\ NextItem(p).pc = "stat"
      BY <2>1 DEF Idle, NextItem
    <3> QED BY <2>3, <2>4, <2>5, <3>1, ProcTyped
  <2>6. ASSUME oft[Item(p)].head \in Versions,
               proc' = [proc EXCEPT ![p] = [pc |-> "open", ver |-> proc[p].ver,
                          wordoffset |-> <<oft[Item(p)].head, oft[Item(p)].tail>>]]
        PROVE TypeInv'
    <3> DEFINE v == [pc |-> "open", ver |-> proc[p].ver,
                     wordoffset |-> <<oft[Item(p)].head, oft[Item(p)].tail>>]
    <3>1. oft[Item(p)] \in OftFiles
      BY <1>3, <2>2 DEF TypeInv, ReadCache
    <3>2. <<oft[Item(p)].head, oft[Item(p)].tail>> \in Offsets
      BY <2>6, <3>1 DEF OftFiles, Offsets
    <3>3. v \in Ends
      BY <2>1, <3>2 DEF Ends
    <3>4. v.pc = "open"
      OBVIOUS
    <3> HIDE DEF v
    <3>5. proc' = [proc EXCEPT ![p] = v]
      BY <2>6 DEF v
    <3> QED BY <2>4, <3>3, <3>4, <3>5, ProcTyped
  <2> QED BY <1>3, <2>5, <2>6 DEF ReadCache
<1>4. ASSUME NEW p \in Procs, Scan(p) PROVE TypeInv'
  <2>1. proc[p] \in [pc : {"stat"}, ver : Versions, left : Lefts]
    BY <1>4, ProcKinds DEF Scan, Loads
  <2>2. PICK variants \in CacheVariants :
          proc' = [proc EXCEPT ![p] = [pc |-> "save", ver |-> proc[p].ver, left |-> variants,
                                       wordoffset |-> <<idxfile.ver, idxfile.ver>>]]
    BY <1>4 DEF Scan
  <2>3. [pc |-> "save", ver |-> proc[p].ver, left |-> variants,
         wordoffset |-> <<idxfile.ver, idxfile.ver>>] \in Saves
    BY <2>1 DEF Saves, Lefts, CacheVariants, Offsets, TypeInv
  <2>4. UNCHANGED <<now, idxfile, oft, disturbed>> /\ disturbed \in BOOLEAN
    BY <1>4 DEF Scan, TypeInv
  <2> QED BY <2>2, <2>3, <2>4, ProcTyped
<1>5. ASSUME NEW p \in Procs, SaveOpen(p) PROVE TypeInv'
  <2>1. proc[p] \in [pc : {"save"}, ver : Versions, left : Lefts, wordoffset : Offsets]
    BY <1>5, ProcKinds DEF SaveOpen, Saves
  <2>2. Item(p) \in Items /\ proc[p].left \in Lefts \ {<<>>}
    BY <1>5, ItemOfProc DEF SaveOpen
  <2>3. [proc[p] EXCEPT !.pc = "head"] \in Saves
    BY <2>1, <2>2 DEF Saves
  <2>4. proc' \in [Procs -> {Idle} \cup Loads \cup Saves \cup Ends]
    BY <1>5, <2>3 DEF SaveOpen, TypeInv
  <2> DEFINE cached == [mtime |-> now, head |-> None, tail |-> None]
  <2>5. cached \in OftFiles /\ cached # NoFile /\ cached.mtime = now
    BY DEF OftFiles, Parts, NoFile, TypeInv
  <2> HIDE DEF cached
  <2>6. oft' = [oft EXCEPT ![Item(p)] = cached]
    BY <1>5 DEF SaveOpen, cached
  <2>7. \A q \in Procs : q # p => proc'[q] = proc[q]
    BY <1>5 DEF SaveOpen, TypeInv
  <2>8. proc'[p].left = proc[p].left
    BY <1>5, <2>1 DEF SaveOpen, TypeInv
  <2>9. \A q \in Procs : proc'[q].pc \in {"read", "head", "tail"}
                        => oft'[Head(proc'[q].left)] # NoFile
    BY <2>2, <2>5, <2>6, <2>7, <2>8 DEF TypeInv, Item
  <2>10. UNCHANGED <<now, idxfile, disturbed>>
    BY <1>5 DEF SaveOpen
  <2> QED BY <2>4, <2>5, <2>6, <2>9, <2>10, <2>2 DEF TypeInv, Item
<1>6. ASSUME NEW p \in Procs, SaveCannotOpen(p) PROVE TypeInv'
  <2>1. proc[p] \in [pc : {"save"}, ver : Versions, left : Lefts, wordoffset : Offsets]
    BY <1>6, ProcKinds DEF SaveCannotOpen, Saves
  <2>2. UNCHANGED <<now, idxfile, oft, disturbed>> /\ disturbed \in BOOLEAN
    BY <1>6 DEF SaveCannotOpen, TypeInv
  <2>3. Saved(p) \in Ends
    BY <2>1 DEF Saved, Ends
  <2>4. CASE proc[p].left = <<>>
    BY <1>6, <2>2, <2>3, <2>4, ProcTyped DEF SaveCannotOpen, Saved
  <2>5. CASE proc[p].left # <<>>
    <3>1. Tail(proc[p].left) \in Lefts
      BY <1>6, <2>5, ItemOfProc DEF SaveCannotOpen
    <3>2. [proc[p] EXCEPT !.left = Tail(@)] \in Saves
      BY <2>1, <3>1 DEF Saves
    <3>3. [proc[p] EXCEPT !.left = Tail(@)].pc = "save"
      BY <2>1
    <3> QED BY <1>6, <2>2, <2>5, <3>2, <3>3, ProcTyped DEF SaveCannotOpen
  <2> QED BY <2>4, <2>5
<1>7. ASSUME NEW p \in Procs, SaveHead(p) PROVE TypeInv'
  <2>1. proc[p] \in [pc : {"head"}, ver : Versions, left : Lefts \ {<<>>}, wordoffset : Offsets]
    BY <1>7, ProcKinds DEF SaveHead, Saves
  <2>2. Item(p) \in Items
    BY <1>7, ItemOfProc DEF SaveHead
  <2> DEFINE cached == [oft[Item(p)] EXCEPT !.head = proc[p].wordoffset[1], !.mtime = now]
  <2>3. oft[Item(p)] \in OftFiles
    BY <1>7, <2>2 DEF TypeInv, SaveHead
  <2>4. cached \in OftFiles /\ cached # NoFile /\ cached.mtime = now
    BY <2>1, <2>3 DEF OftFiles, Offsets, Parts, NoFile, TypeInv
  <2>5. oft' = [oft EXCEPT ![Item(p)] = cached]
    BY <1>7, <2>2, <2>3 DEF SaveHead, TypeInv, OftFiles
  <2> HIDE DEF cached
  <2>6. [proc[p] EXCEPT !.pc = "tail"] \in Saves
    BY <2>1 DEF Saves
  <2>7. UNCHANGED <<now, idxfile, disturbed>>
    BY <1>7 DEF SaveHead
  <2>8. proc' = [proc EXCEPT ![p] = [proc[p] EXCEPT !.pc = "tail"]]
    BY <1>7 DEF SaveHead
  <2> QED BY <2>2, <2>4, <2>5, <2>6, <2>7, <2>8 DEF TypeInv, Item
<1>8. ASSUME NEW p \in Procs, SaveTail(p) PROVE TypeInv'
  <2>1. proc[p] \in [pc : {"tail"}, ver : Versions, left : Lefts \ {<<>>}, wordoffset : Offsets]
    BY <1>8, ProcKinds DEF SaveTail, Saves
  <2>2. Item(p) \in Items
    BY <1>8, ItemOfProc DEF SaveTail
  <2> DEFINE cached == [mtime |-> now, tail |-> proc[p].wordoffset[2],
                      head |-> IF oft[Item(p)].head = None THEN Zeros ELSE oft[Item(p)].head]
  <2>3. oft[Item(p)] \in OftFiles
    BY <1>8, <2>2 DEF TypeInv, SaveTail
  <2>4. cached \in OftFiles /\ cached # NoFile /\ cached.mtime = now
    BY <2>1, <2>3 DEF OftFiles, Offsets, Parts, NoFile, TypeInv
  <2>5. oft' = [oft EXCEPT ![Item(p)] = cached]
    BY <1>8 DEF SaveTail
  <2> HIDE DEF cached
  <2>6. Saved(p) \in Ends /\ Saved(p).pc = "open"
    BY <2>1 DEF Saved, Ends
  <2>7. UNCHANGED <<now, idxfile, disturbed>>
    BY <1>8 DEF SaveTail
  <2>8. proc' = [proc EXCEPT ![p] = Saved(p)]
    BY <1>8 DEF SaveTail
  <2> QED BY <2>2, <2>4, <2>5, <2>6, <2>7, <2>8 DEF TypeInv, Item
<1>9. ASSUME NEW p \in Procs, SaveFails(p) PROVE TypeInv'
  <2>1. proc[p] \in [pc : {"head", "tail"}, ver : Versions, left : Lefts \ {<<>>}, wordoffset : Offsets]
    BY <1>9, ProcKinds DEF SaveFails, Saves
  <2>2. Tail(proc[p].left) \in Lefts
    BY <1>9, ItemOfProc DEF SaveFails
  <2> DEFINE v == [proc[p] EXCEPT !.pc = "save", !.left = Tail(@)]
  <2>3. v \in Saves /\ v.pc = "save"
    BY <2>1, <2>2 DEF Saves
  <2>4. proc' = [proc EXCEPT ![p] = v]
    BY <1>9, <2>1 DEF SaveFails, TypeInv
  <2>5. UNCHANGED <<now, idxfile, oft>> /\ disturbed' \in BOOLEAN
    BY <1>9 DEF SaveFails
  <2> HIDE DEF v
  <2> QED BY <2>3, <2>4, <2>5, ProcTyped
<1>10. ASSUME NEW p \in Procs, OpenIdx(p) PROVE TypeInv'
  <2>1. proc[p] \in [pc : {"open"}, ver : Versions, wordoffset : Offsets]
    BY <1>10, ProcKinds DEF OpenIdx, Ends
  <2> DEFINE v == [proc[p] EXCEPT !.pc = "loaded"]
  <2>2. v \in Ends /\ v.pc = "loaded"
    BY <2>1 DEF Ends
  <2>3. proc' = [proc EXCEPT ![p] = v]
    BY <1>10, <2>1 DEF OpenIdx, TypeInv
  <2>4. UNCHANGED <<now, idxfile, oft, disturbed>> /\ disturbed \in BOOLEAN
    BY <1>10 DEF OpenIdx, TypeInv
  <2> HIDE DEF v
  <2> QED BY <2>2, <2>3, <2>4, ProcTyped
<1>11. ASSUME NEW p \in Procs, Exit(p) PROVE TypeInv'
  <2>1. UNCHANGED <<now, idxfile, oft>> /\ disturbed' \in BOOLEAN /\ Idle.pc = "idle"
    BY <1>11 DEF Exit, TypeInv, Idle
  <2> QED BY <1>11, <2>1, ProcTyped DEF Exit
<1>12. ASSUME Modify PROVE TypeInv'
  <2>1. idxfile' \in [ver : Versions, mtime : 0 .. now]
    BY <1>12 DEF Modify, TypeInv, Versions
  <2> QED BY <1>12, <2>1 DEF Modify, TypeInv, Item
<1>13. ASSUME Tick PROVE TypeInv'
  <2>1. now' \in 0 .. MaxTime /\ now =< now' /\ now \in Int
    BY <1>13 DEF Tick, TypeInv
  <2>2. idxfile' \in [ver : Versions, mtime : 0 .. now']
    BY <1>13, <2>1 DEF Tick, TypeInv
  <2>3. \A item \in Items : oft[item].mtime \in Int
    BY DEF TypeInv, OftFiles, NoFile
  <2> QED BY <1>13, <2>1, <2>2, <2>3 DEF Tick, TypeInv, Item
<1>14. ASSUME UNCHANGED oftvars PROVE TypeInv'
  BY <1>14 DEF oftvars, TypeInv, Item
<1> QED BY <1>1, <1>2, <1>3, <1>4, <1>5, <1>6, <1>7, <1>8, <1>9, <1>10, <1>11, <1>12,
           <1>13, <1>14 DEF OftNext
-----------------------------------------------------------------------------
\* What a step of one process keeps when it touches no file: the other
\* processes, and all that is said of them.
LEMMA OneProcQuiet ==
    ASSUME TypeInv, QuietInv, NEW p \in Procs, NEW v,
           proc' = [proc EXCEPT ![p] = v], UNCHANGED <<now, idxfile, oft>>,
           v.pc \notin {"idle", "loaded"} => v.ver = idxfile.ver,
           v.pc \in {"save", "head", "tail", "open"} =>
             v.wordoffset \in {idxfile.ver, None} \X {idxfile.ver, None},
           v.pc \in {"read", "head", "tail"} => Fresh(Head(v.left)),
           v.pc = "loaded" => \A k \in 1 .. 2 :
             v.wordoffset[k] # None => v.wordoffset[k] >= v.ver
    PROVE  QuietInv'
<1>1. proc'[p] = v /\ \A q \in Procs : q # p => proc'[q] = proc[q]
  BY DEF TypeInv
<1>2. FreshFiles'
  BY DEF QuietInv, FreshFiles, Fresh
<1>3. BusyProcs'
  BY <1>1 DEF QuietInv, BusyProcs, Fresh, Item
<1>4. RecreateIfModified'
  BY <1>1 DEF QuietInv, RecreateIfModified
<1> QED BY <1>2, <1>3, <1>4 DEF QuietInv

\* What a process keeps that writes a file: the file is newer than the .idx
\* file, and has only parts of it.
LEMMA OneFileQuiet ==
    ASSUME TypeInv, QuietInv, NEW p \in Procs, NEW v, NEW item \in Items, NEW cached,
           proc' = [proc EXCEPT ![p] = v], UNCHANGED <<now, idxfile>>,
           oft' = [oft EXCEPT ![item] = cached], cached.mtime = now,
           cached.head \in {idxfile.ver, None, Zeros}, cached.tail \in {idxfile.ver, None},
           v.pc \in {"head", "tail", "open"}, v.ver = idxfile.ver,
           v.wordoffset \in {idxfile.ver, None} \X {idxfile.ver, None},
           v.pc \in {"head", "tail"} => Head(v.left) = item
    PROVE  QuietInv'
<1>1. proc'[p] = v /\ \A q \in Procs : q # p => proc'[q] = proc[q]
  BY DEF TypeInv
<1>2. oft'[item] = cached /\ \A i \in Items : i # item => oft'[i] = oft[i]
  BY DEF TypeInv
<1>3. cached.mtime >= idxfile.mtime
  BY DEF TypeInv
<1>4. \A i \in Items : i = item => Fresh(i)'
  BY <1>2, <1>3 DEF Fresh
<1>5. \A i \in Items : Fresh(i) => Fresh(i)'
  BY <1>2, <1>4 DEF Fresh
<1>6. FreshFiles'
  BY <1>2 DEF QuietInv, FreshFiles, Fresh
<1>7. BusyProcs'
  <2>1. ASSUME NEW q \in Procs, q # p, proc[q].pc \in {"read", "head", "tail"}
        PROVE Fresh(Item(q))'
    <3>1. Item(q) \in Items /\ Item(q)' = Item(q)
      BY <1>1, <2>1, ItemOfProc DEF Item
    <3> QED BY <1>5, <2>1, <3>1 DEF QuietInv, BusyProcs, Fresh
  <2> QED BY <1>1, <1>4, <2>1 DEF QuietInv, BusyProcs, Fresh, Item
<1>8. RecreateIfModified'
  BY <1>1 DEF QuietInv, RecreateIfModified
<1> QED BY <1>6, <1>7, <1>8 DEF QuietInv

LEMMA QuietStep == Quiet /\ TypeInv /\ QuietInv /\ [OftNext]_oftvars => QuietInv'
<1> SUFFICES ASSUME Quiet, TypeInv, QuietInv, [OftNext]_oftvars PROVE QuietInv'
  OBVIOUS
<1> USE QuietAssumption
<1>1. ASSUME NEW p \in Procs, LoadCache(p) PROVE QuietInv'
  <2>1. PICK variants \in CacheVariants :
          proc' = [proc EXCEPT ![p] = [pc |-> "stat", ver |-> idxfile.ver, left |-> variants]]
    BY <1>1 DEF LoadCache
  <2> DEFINE v == [pc |-> "stat", ver |-> idxfile.ver, left |-> variants]
  <2>2. v.pc = "stat" /\ v.ver = idxfile.ver /\ proc' = [proc EXCEPT ![p] = v]
    BY <2>1
  <2>3. UNCHANGED <<now, idxfile, oft>>
    BY <1>1 DEF LoadCache
  <2> HIDE DEF v
  <2> QED BY <2>2, <2>3, OneProcQuiet
<1>2. ASSUME NEW p \in Procs, StatCache(p) PROVE QuietInv'
  <2>1. proc[p] \in [pc : {"stat"}, ver : Versions, left : Lefts] /\ proc[p].ver = idxfile.ver
    BY <1>2, ProcKinds DEF StatCache, Loads, QuietInv, BusyProcs
  <2>2. UNCHANGED <<now, idxfile, oft>>
    BY <1>2 DEF StatCache
  <2>3. CASE proc' = [proc EXCEPT ![p] = NextItem(p)]
    <3>1. NextItem(p).pc = "stat" /\ NextItem(p).ver = idxfile.ver
      BY <2>1 DEF NextItem
    <3> QED BY <2>2, <2>3, <3>1, OneProcQuiet
  <2>4. CASE proc' = [proc EXCEPT ![p] = [proc[p] EXCEPT !.pc = "read"]] /\ Fresh(Item(p))
    <3> DEFINE v == [proc[p] EXCEPT !.pc = "read"]
    <3>1. v.pc = "read" /\ v.ver = idxfile.ver /\ v.left = proc[p].left
      BY <2>1
    <3>2. proc' = [proc EXCEPT ![p] = v] /\ Fresh(Head(v.left))
      BY <2>4, <3>1 DEF Item
    <3> HIDE DEF v
    <3> QED BY <2>2, <3>1, <3>2, OneProcQuiet
  <2> QED BY <1>2, <2>3, <2>4 DEF StatCache
<1>3. ASSUME NEW p \in Procs, ReadCache(p) PROVE QuietInv'
  <2>1. proc[p] \in [pc : {"read"}, ver : Versions, left : Lefts \ {<<>>}] /\ proc[p].ver = idxfile.ver
    BY <1>3, ProcKinds DEF ReadCache, Loads, QuietInv, BusyProcs
  <2>2. UNCHANGED <<now, idxfile, oft>>
    BY <1>3 DEF ReadCache
  <2>3. CASE proc' = [proc EXCEPT ![p] = Idle]
    BY <2>2, <2>3, OneProcQuiet DEF Idle
  <2>4. CASE proc' = [proc EXCEPT ![p] = NextItem(p)]
    <3>1. NextItem(p).pc = "stat" /\ NextItem(p).ver = idxfile.ver
      BY <2>1 DEF NextItem
    <3> QED BY <2>2, <2>4, <3>1, OneProcQuiet
  <2>5. ASSUME oft[Item(p)].head \in Versions,
               proc' = [proc EXCEPT ![p] = [pc |-> "open", ver |-> proc[p].ver,
                          wordoffset |-> <<oft[Item(p)].head, oft[Item(p)].tail>>]]
        PROVE QuietInv'
    <3> DEFINE v == [pc |-> "open", ver |-> proc[p].ver,
                     wordoffset |-> <<oft[Item(p)].head, oft[Item(p)].tail>>]
    <3>1. Item(p) \in Items /\ Fresh(Item(p))
      BY <1>3, ItemOfProc DEF ReadCache, QuietInv, BusyProcs
    <3>2. oft[Item(p)].head \in {idxfile.ver, None, Zeros} /\ oft[Item(p)].tail \in {idxfile.ver, None}
      BY <3>1 DEF QuietInv, FreshFiles
    <3>3. oft[Item(p)].head = idxfile.ver
      BY <2>5, <3>2 DEF Versions, None, Zeros
    <3>4. v.pc = "open" /\ v.ver = idxfile.ver /\ v.wordoffset \in {idxfile.ver, None} \X {idxfile.ver, None}
      BY <2>1, <3>2, <3>3
    <3>5. proc' = [proc EXCEPT ![p] = v]
      BY <2>5
    <3> HIDE DEF v
    <3> QED BY <2>2, <3>4, <3>5, OneProcQuiet
  <2> QED BY <1>3, <2>3, <2>4, <2>5 DEF ReadCache
<1>4. ASSUME NEW p \in Procs, Scan(p) PROVE QuietInv'
  <2>1. PICK variants \in CacheVariants :
          proc' = [proc EXCEPT ![p] = [pc |-> "save", ver |-> proc[p].ver, left |-> variants,
                                       wordoffset |-> <<idxfile.ver, idxfile.ver>>]]
    BY <1>4 DEF Scan
  <2> DEFINE v == [pc |-> "save", ver |-> proc[p].ver, left |-> variants,
                   wordoffset |-> <<idxfile.ver, idxfile.ver>>]
  <2>2. proc[p].ver = idxfile.ver
    BY <1>4 DEF Scan, QuietInv, BusyProcs
  <2>3. v.pc = "save" /\ v.ver = idxfile.ver /\ v.wordoffset \in {idxfile.ver, None} \X {idxfile.ver, None}
    BY <2>2
  <2>4. proc' = [proc EXCEPT ![p] = v] /\ UNCHANGED <<now, idxfile, oft>>
    BY <1>4, <2>1 DEF Scan
  <2> HIDE DEF v
  <2> QED BY <2>3, <2>4, OneProcQuiet
<1>5. ASSUME NEW p \in Procs, SaveOpen(p) PROVE QuietInv'
  <2>1. /\ proc[p] \in [pc : {"save"}, ver : Versions, left : Lefts, wordoffset : Offsets]
        /\ proc[p].ver = idxfile.ver
        /\ proc[p].wordoffset \in {idxfile.ver, None} \X {idxfile.ver, None}
    BY <1>5, ProcKinds DEF SaveOpen, Saves, QuietInv, BusyProcs
  <2> DEFINE v == [proc[p] EXCEPT !.pc = "head"]
             cached == [mtime |-> now, head |-> None, tail |-> None]
  <2>2. /\ v.pc = "head" /\ v.ver = idxfile.ver /\ Head(v.left) = Item(p)
        /\ v.wordoffset \in {idxfile.ver, None} \X {idxfile.ver, None}
    BY <2>1 DEF Item
  <2>3. cached.mtime = now /\ cached.head = None /\ cached.tail = None
    OBVIOUS
  <2>4. /\ proc' = [proc EXCEPT ![p] = v] /\ oft' = [oft EXCEPT ![Item(p)] = cached]
        /\ UNCHANGED <<now, idxfile>>
    BY <1>5 DEF SaveOpen, TypeInv
  <2>5. Item(p) \in Items
    BY <1>5, ItemOfProc DEF SaveOpen
  <2> HIDE DEF v, cached
  <2> QED BY <2>2, <2>3, <2>4, <2>5, OneFileQuiet
<1>6. ASSUME NEW p \in Procs, SaveCannotOpen(p) PROVE QuietInv'
  <2>1. /\ proc[p] \in [pc : {"save"}, ver : Versions, left : Lefts, wordoffset : Offsets]
        /\ proc[p].ver = idxfile.ver
        /\ proc[p].wordoffset \in {idxfile.ver, None} \X {idxfile.ver, None}
    BY <1>6, ProcKinds DEF SaveCannotOpen, Saves, QuietInv, BusyProcs
  <2>2. UNCHANGED <<now, idxfile, oft>>
    BY <1>6 DEF SaveCannotOpen
  <2>3. CASE proc' = [proc EXCEPT ![p] = Saved(p)]
    BY <2>1, <2>2, <2>3, OneProcQuiet DEF Saved
  <2>4. CASE proc' = [proc EXCEPT ![p] = [proc[p] EXCEPT !.left = Tail(@)]]
    <3> DEFINE v == [proc[p] EXCEPT !.left = Tail(@)]
    <3>1. /\ v.pc = "save" /\ v.ver = idxfile.ver
          /\ v.wordoffset \in {idxfile.ver, None} \X {idxfile.ver, None}
      BY <2>1
    <3>2. proc' = [proc EXCEPT ![p] = v]
      BY <2>4
    <3> HIDE DEF v
    <3> QED BY <2>2, <3>1, <3>2, OneProcQuiet
  <2> QED BY <1>6, <2>3, <2>4 DEF SaveCannotOpen
<1>7. ASSUME NEW p \in Procs, SaveHead(p) PROVE QuietInv'
  <2>1. /\ proc[p] \in [pc : {"head"}, ver : Versions, left : Lefts \ {<<>>}, wordoffset : Offsets]
        /\ proc[p].ver = idxfile.ver
        /\ proc[p].wordoffset \in {idxfile.ver, None} \X {idxfile.ver, None}
        /\ Fresh(Item(p))
    BY <1>7, ProcKinds DEF SaveHead, Saves, QuietInv, BusyProcs
  <2>2. Item(p) \in Items
    BY <1>7, ItemOfProc DEF SaveHead
  <2>3. oft[Item(p)] \in OftFiles /\ oft[Item(p)].tail \in {idxfile.ver, None}
    BY <1>7, <2>1, <2>2 DEF SaveHead, TypeInv, QuietInv, FreshFiles
  <2> DEFINE v == [proc[p] EXCEPT !.pc = "tail"]
             cached == [oft[Item(p)] EXCEPT !.head = proc[p].wordoffset[1], !.mtime = now]
  <2>4. /\ v.pc = "tail" /\ v.ver = idxfile.ver /\ Head(v.left) = Item(p)
        /\ v.wordoffset \in {idxfile.ver, None} \X {idxfile.ver, None}
    BY <2>1 DEF Item
  <2>5. /\ cached.mtime = now /\ cached.head \in {idxfile.ver, None, Zeros}
        /\ cached.tail \in {idxfile.ver, None}
    BY <2>1, <2>3 DEF OftFiles
  <2>6. /\ proc' = [proc EXCEPT ![p] = v] /\ oft' = [oft EXCEPT ![Item(p)] = cached]
        /\ UNCHANGED <<now, idxfile>>
    BY <1>7, <2>2, <2>3 DEF SaveHead, TypeInv, OftFiles
  <2> HIDE DEF v, cached
  <2> QED BY <2>2, <2>4, <2>5, <2>6, OneFileQuiet
<1>8. ASSUME NEW p \in Procs, SaveTail(p) PROVE QuietInv'
  <2>1. /\ proc[p] \in [pc : {"tail"}, ver : Versions, left : Lefts \ {<<>>}, wordoffset : Offsets]
        /\ proc[p].ver = idxfile.ver
        /\ proc[p].wordoffset \in {idxfile.ver, None} \X {idxfile.ver, None}
        /\ Fresh(Item(p))
    BY <1>8, ProcKinds DEF SaveTail, Saves, QuietInv, BusyProcs
  <2>2. Item(p) \in Items
    BY <1>8, ItemOfProc DEF SaveTail
  <2>3. oft[Item(p)].head \in {idxfile.ver, None, Zeros}
    BY <2>1, <2>2 DEF QuietInv, FreshFiles
  <2> DEFINE v == Saved(p)
             cached == [mtime |-> now, tail |-> proc[p].wordoffset[2],
                      head |-> IF oft[Item(p)].head = None THEN Zeros ELSE oft[Item(p)].head]
  <2>4. /\ v.pc = "open" /\ v.ver = idxfile.ver
        /\ v.wordoffset \in {idxfile.ver, None} \X {idxfile.ver, None}
    BY <2>1 DEF Saved
  <2>5. /\ cached.mtime = now /\ cached.head \in {idxfile.ver, None, Zeros}
        /\ cached.tail \in {idxfile.ver, None}
    BY <2>1, <2>3
  <2>6. /\ proc' = [proc EXCEPT ![p] = v] /\ oft' = [oft EXCEPT ![Item(p)] = cached]
        /\ UNCHANGED <<now, idxfile>>
    BY <1>8 DEF SaveTail
  <2> HIDE DEF v, cached
  <2> QED BY <2>2, <2>4, <2>5, <2>6, OneFileQuiet
<1>9. ASSUME NEW p \in Procs, SaveFails(p) PROVE QuietInv'
  <2>1. /\ proc[p] \in [pc : {"head", "tail"}, ver : Versions, left : Lefts \ {<<>>}, wordoffset : Offsets]
        /\ proc[p].ver = idxfile.ver
        /\ proc[p].wordoffset \in {idxfile.ver, None} \X {idxfile.ver, None}
    BY <1>9, ProcKinds DEF SaveFails, Saves, QuietInv, BusyProcs
  <2> DEFINE v == [proc[p] EXCEPT !.pc = "save", !.left = Tail(@)]
  <2>2. /\ v.pc = "save" /\ v.ver = idxfile.ver
        /\ v.wordoffset \in {idxfile.ver, None} \X {idxfile.ver, None}
    BY <2>1
  <2>3. proc' = [proc EXCEPT ![p] = v] /\ UNCHANGED <<now, idxfile, oft>>
    BY <1>9, <2>1 DEF SaveFails, TypeInv
  <2> HIDE DEF v
  <2> QED BY <2>2, <2>3, OneProcQuiet
<1>10. ASSUME NEW p \in Procs, OpenIdx(p) PROVE QuietInv'
  <2>1. /\ proc[p] \in [pc : {"open"}, ver : Versions, wordoffset : Offsets]
        /\ proc[p].ver = idxfile.ver
        /\ proc[p].wordoffset \in {idxfile.ver, None} \X {idxfile.ver, None}
    BY <1>10, ProcKinds DEF OpenIdx, Ends, QuietInv, BusyProcs
  <2> DEFINE v == [proc[p] EXCEPT !.pc = "loaded"]
  <2>2. v.pc = "loaded" /\ v.ver = idxfile.ver /\ v.wordoffset \in {idxfile.ver, None} \X {idxfile.ver, None}
    BY <2>1
  <2>3. v.ver \in Nat
    BY <2>2 DEF TypeInv, Versions
  <2>4. \A k \in 1 .. 2 : v.wordoffset[k] # None => v.wordoffset[k] >= v.ver
    BY <2>2, <2>3
  <2>5. proc' = [proc EXCEPT ![p] = v] /\ UNCHANGED <<now, idxfile, oft>>
    BY <1>10, <2>1 DEF OpenIdx, TypeInv
  <2> HIDE DEF v
  <2> QED BY <2>2, <2>4, <2>5, OneProcQuiet
<1>11. ASSUME NEW p \in Procs, Exit(p) PROVE QuietInv'
  <2>1. UNCHANGED <<now, idxfile, oft>> /\ Idle.pc = "idle" /\ proc' = [proc EXCEPT ![p] = Idle]
    BY <1>11 DEF Exit, Idle
  <2> QED BY <2>1, OneProcQuiet
<1>12. ASSUME Modify PROVE QuietInv'
  <2>1. /\ \A p \in Procs : proc[p].pc \in {"idle", "loaded"}
        /\ \A item \in Items : oft[item].mtime < now
        /\ idxfile'.mtime = now /\ UNCHANGED <<now, oft, proc>>
    BY <1>12 DEF Modify
  <2>2. \A item \in Items : ~Fresh(item)'
    BY <2>1 DEF Fresh, TypeInv, OftFiles, NoFile
  <2>3. FreshFiles'
    BY <2>1, <2>2 DEF FreshFiles, Fresh
  <2>4. BusyProcs'
    BY <2>1 DEF BusyProcs
  <2> QED BY <2>1, <2>3, <2>4 DEF QuietInv, RecreateIfModified
<1>13. ASSUME Tick PROVE QuietInv'
  BY <1>13 DEF Tick, QuietInv, FreshFiles, BusyProcs, RecreateIfModified, Fresh, Item
<1>14. ASSUME UNCHANGED oftvars PROVE QuietInv'
  BY <1>14 DEF oftvars, QuietInv, FreshFiles, BusyProcs, RecreateIfModified, Fresh, Item
<1> QED BY <1>1, <1>2, <1>3, <1>4, <1>5, <1>6, <1>7, <1>8, <1>9, <1>10, <1>11, <1>12,
           <1>13, <1>14 DEF OftNext
-----------------------------------------------------------------------------
\* A step that touches no file keeps the writers of the files, unless it ends
\* one of them.
LEMMA OneProcWhole ==
    ASSUME TypeInv, TailsComing, NEW p \in Procs, NEW v,
           proc' = [proc EXCEPT ![p] = v], UNCHANGED oft,
           proc[p].pc \notin {"head", "tail"},
           v.pc \in {"save", "head", "tail", "open", "loaded"} => v.wordoffset[2] # None
    PROVE  TailsComing'
<1>1. proc'[p] = v /\ \A q \in Procs : q # p => proc'[q] = proc[q]
  BY DEF TypeInv
<1>2. \A item \in Items : Writers(item) \subseteq Writers(item)'
  BY <1>1 DEF Writers, Item
<1> QED BY <1>1, <1>2 DEF TailsComing

\* A step that writes to a file either leaves its second part in it or is
\* not the last to write.
LEMMA OneFileWhole ==
    ASSUME TypeInv, TailsComing, NEW p \in Procs, NEW v, NEW item \in Items, NEW cached,
           proc' = [proc EXCEPT ![p] = v], oft' = [oft EXCEPT ![item] = cached],
           proc[p].pc \in {"head", "tail"} => item = Item(p),
           v.pc \in {"save", "head", "tail", "open", "loaded"}, v.wordoffset[2] # None,
           \/ v.pc \in {"head", "tail"} /\ Head(v.left) = item
           \/ cached.tail # None
    PROVE  TailsComing'
<1>1. proc'[p] = v /\ \A q \in Procs : q # p => proc'[q] = proc[q]
  BY DEF TypeInv
<1>2. oft'[item] = cached /\ \A i \in Items : i # item => oft'[i] = oft[i]
  BY DEF TypeInv
<1>3. ASSUME NEW i \in Items, i # item PROVE Writers(i) \subseteq Writers(i)'
  BY <1>1, <1>3 DEF Writers, Item
<1>4. v.pc \in {"head", "tail"} /\ Head(v.left) = item => p \in Writers(item)'
  BY <1>1 DEF Writers, Item
<1> QED BY <1>1, <1>2, <1>3, <1>4 DEF TailsComing

LEMMA WholeStep == TypeInv /\ WholeInv /\ [OftNext]_oftvars => WholeInv'
<1> SUFFICES ASSUME TypeInv, WholeInv, [OftNext]_oftvars, ~disturbed' PROVE TailsComing'
  BY DEF WholeInv
<1> USE QuietAssumption
<1>0. ~disturbed /\ TailsComing
  BY DEF OftNext, oftvars, LoadCache, StatCache, ReadCache, Scan, SaveOpen, SaveCannotOpen, SaveHead,
         SaveTail, SaveFails, OpenIdx, Exit, Modify, Tick, WholeInv, TypeInv
<1>1. ASSUME NEW p \in Procs, LoadCache(p) PROVE TailsComing'
  <2>1. PICK variants \in CacheVariants :
          proc' = [proc EXCEPT ![p] = [pc |-> "stat", ver |-> idxfile.ver, left |-> variants]]
    BY <1>1 DEF LoadCache
  <2> DEFINE v == [pc |-> "stat", ver |-> idxfile.ver, left |-> variants]
  <2>2. v.pc = "stat" /\ proc' = [proc EXCEPT ![p] = v]
    BY <2>1
  <2>3. UNCHANGED oft /\ proc[p].pc = "idle"
    BY <1>1 DEF LoadCache
  <2> HIDE DEF v
  <2> QED BY <1>0, <2>2, <2>3, OneProcWhole
<1>2. ASSUME NEW p \in Procs, StatCache(p) PROVE TailsComing'
  <2>1. proc[p] \in [pc : {"stat"}, ver : Versions, left : Lefts]
    BY <1>2, ProcKinds DEF StatCache, Loads
  <2>2. PICK v \in { NextItem(p), [proc[p] EXCEPT !.pc = "read"] } :
          proc' = [proc EXCEPT ![p] = v]
    BY <1>2 DEF StatCache
  <2>3. v.pc \in {"stat", "read"}
    BY <2>1, <2>2 DEF NextItem
  <2>4. UNCHANGED oft /\ proc[p].pc = "stat"
    BY <1>2 DEF StatCache
  <2> QED BY <1>0, <2>2, <2>3, <2>4, OneProcWhole
<1>3. ASSUME NEW p \in Procs, ReadCache(p) PROVE TailsComing'
  <2>1. proc[p] \in [pc : {"read"}, ver : Versions, left : Lefts \ {<<>>}]
    BY <1>3, ProcKinds DEF ReadCache, Loads
  <2>2. UNCHANGED oft /\ proc[p].pc = "read" /\ Writers(Item(p)) = {}
    BY <1>3 DEF ReadCache
  <2>3. CASE proc' = [proc EXCEPT ![p] = Idle]
    BY <1>0, <2>2, <2>3, OneProcWhole DEF Idle
  <2>4. CASE proc' = [proc EXCEPT ![p] = NextItem(p)]
    <3>1. NextItem(p).pc = "stat"
      BY <2>1 DEF NextItem
    <3> QED BY <1>0, <2>2, <2>4, <3>1, OneProcWhole
  <2>5. CASE proc' = [proc EXCEPT ![p] = [pc |-> "open", ver |-> proc[p].ver,
                        wordoffset |-> <<oft[Item(p)].head, oft[Item(p)].tail>>]]
    <3> DEFINE v == [pc |-> "open", ver |-> proc[p].ver,
                     wordoffset |-> <<oft[Item(p)].head, oft[Item(p)].tail>>]
    <3>1. Item(p) \in Items /\ oft[Item(p)] # NoFile
      BY <1>3, <2>2, ItemOfProc DEF TypeInv
    <3>2. oft[Item(p)].tail # None
      BY <1>0, <2>2, <3>1 DEF TailsComing
    <3>3. v.pc = "open" /\ v.wordoffset[2] # None /\ proc' = [proc EXCEPT ![p] = v]
      BY <2>5, <3>2
    <3> HIDE DEF v
    <3> QED BY <1>0, <2>2, <3>3, OneProcWhole
  <2> QED BY <1>3, <2>3, <2>4, <2>5 DEF ReadCache
<1>4. ASSUME NEW p \in Procs, Scan(p) PROVE TailsComing'
  <2>1. PICK variants \in CacheVariants :
          proc' = [proc EXCEPT ![p] = [pc |-> "save", ver |-> proc[p].ver, left |-> variants,
                                       wordoffset |-> <<idxfile.ver, idxfile.ver>>]]
    BY <1>4 DEF Scan
  <2> DEFINE v == [pc |-> "save", ver |-> proc[p].ver, left |-> variants,
                   wordoffset |-> <<idxfile.ver, idxfile.ver>>]
  <2>2. v.wordoffset[2] # None
    BY DEF TypeInv, Versions, None
  <2>3. proc' = [proc EXCEPT ![p] = v] /\ UNCHANGED oft /\ proc[p].pc = "stat"
    BY <1>4, <2>1 DEF Scan
  <2> HIDE DEF v
  <2> QED BY <1>0, <2>2, <2>3, OneProcWhole
<1>5. ASSUME NEW p \in Procs, SaveOpen(p) PROVE TailsComing'
  <2>1. /\ proc[p] \in [pc : {"save"}, ver : Versions, left : Lefts, wordoffset : Offsets]
        /\ proc[p].wordoffset[2] # None
    BY <1>0, <1>5, ProcKinds DEF SaveOpen, Saves, TailsComing
  <2> DEFINE v == [proc[p] EXCEPT !.pc = "head"]
             cached == [mtime |-> now, head |-> None, tail |-> None]
  <2>2. v.pc = "head" /\ v.wordoffset[2] # None /\ Head(v.left) = Item(p)
    BY <2>1 DEF Item
  <2>3. /\ proc' = [proc EXCEPT ![p] = v] /\ oft' = [oft EXCEPT ![Item(p)] = cached]
        /\ proc[p].pc = "save"
    BY <1>5 DEF SaveOpen, TypeInv
  <2>4. Item(p) \in Items
    BY <1>5, ItemOfProc DEF SaveOpen
  <2> HIDE DEF v, cached
  <2> QED BY <1>0, <2>2, <2>3, <2>4, OneFileWhole
<1>6. ASSUME NEW p \in Procs, SaveCannotOpen(p) PROVE TailsComing'
  <2>1. /\ proc[p] \in [pc : {"save"}, ver : Versions, left : Lefts, wordoffset : Offsets]
        /\ proc[p].wordoffset[2] # None
    BY <1>0, <1>6, ProcKinds DEF SaveCannotOpen, Saves, TailsComing
  <2>2. PICK v \in { Saved(p), [proc[p] EXCEPT !.left = Tail(@)] } :
          proc' = [proc EXCEPT ![p] = v]
    BY <1>6 DEF SaveCannotOpen
  <2>3. v.wordoffset[2] # None
    BY <2>1, <2>2 DEF Saved
  <2>4. UNCHANGED oft /\ proc[p].pc = "save"
    BY <1>6 DEF SaveCannotOpen
  <2> QED BY <1>0, <2>2, <2>3, <2>4, OneProcWhole
<1>7. ASSUME NEW p \in Procs, SaveHead(p) PROVE TailsComing'
  <2>1. /\ proc[p] \in [pc : {"head"}, ver : Versions, left : Lefts \ {<<>>}, wordoffset : Offsets]
        /\ proc[p].wordoffset[2] # None
    BY <1>0, <1>7, ProcKinds DEF SaveHead, Saves, TailsComing
  <2>2. Item(p) \in Items
    BY <1>7, ItemOfProc DEF SaveHead
  <2>3. PICK cached : oft' = [oft EXCEPT ![Item(p)] = cached]
    BY <1>7, <2>2 DEF SaveHead, TypeInv
  <2> DEFINE v == [proc[p] EXCEPT !.pc = "tail"]
  <2>4. v.pc = "tail" /\ v.wordoffset[2] # None /\ Head(v.left) = Item(p)
    BY <2>1 DEF Item
  <2>5. proc' = [proc EXCEPT ![p] = v]
    BY <1>7 DEF SaveHead, TypeInv
  <2> HIDE DEF v
  <2> QED BY <1>0, <2>2, <2>3, <2>4, <2>5, OneFileWhole
<1>8. ASSUME NEW p \in Procs, SaveTail(p) PROVE TailsComing'
  <2>1. proc[p].wordoffset[2] # None
    BY <1>0, <1>8 DEF SaveTail, TailsComing
  <2>2. Item(p) \in Items
    BY <1>8, ItemOfProc DEF SaveTail
  <2> DEFINE v == Saved(p)
             cached == [mtime |-> now, tail |-> proc[p].wordoffset[2],
                      head |-> IF oft[Item(p)].head = None THEN Zeros ELSE oft[Item(p)].head]
  <2>3. v.pc = "open" /\ v.wordoffset[2] # None /\ cached.tail # None
    BY <2>1 DEF Saved
  <2>4. proc' = [proc EXCEPT ![p] = v] /\ oft' = [oft EXCEPT ![Item(p)] = cached]
    BY <1>8 DEF SaveTail
  <2> HIDE DEF v, cached
  <2> QED BY <1>0, <2>2, <2>3, <2>4, OneFileWhole
<1>9. ASSUME NEW p \in Procs, SaveFails(p) PROVE TailsComing'
  BY <1>9 DEF SaveFails
<1>10. ASSUME NEW p \in Procs, OpenIdx(p) PROVE TailsComing'
  <2>1. /\ proc[p] \in [pc : {"open"}, ver : Versions, wordoffset : Offsets]
        /\ proc[p].wordoffset[2] # None
    BY <1>0, <1>10, ProcKinds DEF OpenIdx, Ends, TailsComing
  <2> DEFINE v == [proc[p] EXCEPT !.pc = "loaded"]
  <2>2. v.pc = "loaded" /\ v.wordoffset[2] # None
    BY <2>1
  <2>3. proc' = [proc EXCEPT ![p] = v] /\ UNCHANGED oft /\ proc[p].pc = "open"
    BY <1>10, <2>1 DEF OpenIdx, TypeInv
  <2> HIDE DEF v
  <2> QED BY <1>0, <2>2, <2>3, OneProcWhole
<1>11. ASSUME NEW p \in Procs, Exit(p) PROVE TailsComing'
  <2>1. /\ UNCHANGED oft /\ Idle.pc = "idle" /\ proc' = [proc EXCEPT ![p] = Idle]
        /\ proc[p].pc \notin {"head", "tail"}
    BY <1>11 DEF Exit, Idle
  <2> QED BY <1>0, <2>1, OneProcWhole
<1>12. ASSUME Modify \/ Tick \/ UNCHANGED oftvars PROVE TailsComing'
  BY <1>0, <1>12 DEF Modify, Tick, oftvars, TailsComing, Writers, Item
<1> QED BY <1>1, <1>2, <1>3, <1>4, <1>5, <1>6, <1>7, <1>8, <1>9, <1>10, <1>11, <1>12 DEF OftNext
-----------------------------------------------------------------------------
\* The inductive invariant holds in every reachable state.
THEOREM OftInvariance == OftSpec => []OftIInv
<1>1. OftIInv /\ [OftNext]_oftvars => OftIInv'
  BY TypeStep, QuietStep, WholeStep DEF OftIInv
<1> QED BY OftInitIInv, <1>1, PTL DEF OftSpec

\* "Recreate cache if idx file was modified" (NEWS), for any number of
\* processes that load, save and end at any step: no load ends with offsets
\* of an .idx file that had been replaced when it began.
THEOREM CacheIsRecreated == OftSpec /\ Quiet => []RecreateIfModified
<1>1. CASE Quiet
  <2>1. OftIInv => RecreateIfModified
    BY <1>1 DEF OftIInv, QuietInv
  <2> QED BY OftInvariance, <2>1, PTL
<1>2. CASE ~Quiet
  BY <1>2
<1> QED BY <1>1, <1>2

\* A load that ends has both parts of the offsets, unless a save was cut short
\* or an .oft file was read while it was written, whatever happens to the
\* .idx file.
THEOREM CacheIsWhole == OftSpec => []LoadedWhole
<1>1. OftIInv => LoadedWhole
  BY DEF OftIInv, WholeInv, TailsComing, LoadedWhole
<1> QED BY OftInvariance, <1>1, PTL
=============================================================================
