----------------------------- MODULE OffsetIndex -----------------------------
(***************************************************************************)
(* class OffsetIndex: the index of a dictionary whose .idx file stays on   *)
(* disk.  load() keeps the offset of every page of ENTR_PER_PAGE entries   *)
(* and the first words of three pages; lookup() searches the first words   *)
(* of the pages, then the entries of one page, which stays cached.         *)
(*                                                                         *)
(* An offset into the file is counted in entries, so file.word[o] is the   *)
(* word at offset o, and the place of its article is the entry's number o. *)
(***************************************************************************)
EXTENDS IdxFile

CONSTANT ENTR_PER_PAGE      \* 32 in the code

ASSUME EntrPerPageAssumption == ENTR_PER_PAGE \in Nat \ {0}

VARIABLES
    file,           \* the .idx file; it does not change while it is open
    wordoffset,     \* offset of the first entry of each page, and of the end
    first, middle, last,    \* number and first word of three pages
    real_last,      \* number and word of the last entry
    page,           \* the cached page: its number and its entries
    wordentry,      \* wordentry_offset and wordentry_size
    pc,             \* "new": not loaded, "idle": no call is being served
    req,            \* the call being served
    iFrom, iTo, iThisIndex, idx,    \* the locals of lookup()
    ans             \* the last call served, with its results

loaded == <<wordoffset, first, middle, last, real_last>>
locals == <<iFrom, iTo, iThisIndex, idx>>
vars == <<file, loaded, page, wordentry, pc, req, locals, ans>>

NoReq == [op |-> "none"]
NoAns == [op |-> "none"]

LookupReqs == [op : {"lookup"}, str : Words, cmp : Cmps]
GetReqs == [op : {"get_key"}, idx : 0 .. file.wc - 1]

\* Key values not assigned yet: the word is never read before load() ends.
NoEntry == [idx |-> -1]
NoPage == [idx |-> -1]
NOffsets(wc) == (wc - 1) \div ENTR_PER_PAGE + 2
LastPage == NOffsets(file.wc) - 2
-----------------------------------------------------------------------------
\* load() walks the file and notes the offset of every ENTR_PER_PAGE-th entry
\* and, last, the offset of the end.
ScanOffsets ==
    [p \in 0 .. NOffsets(file.wc) - 1 |->
        IF p < NOffsets(file.wc) - 1 THEN p * ENTR_PER_PAGE ELSE file.wc]

ReadFirstOnPageKey(offsets, p) == file.word[offsets[p]]

\* Number of entries of a page, as load_page() counts them.
NEntries(p) ==
    IF p = LastPage /\ file.wc % ENTR_PER_PAGE # 0
    THEN file.wc % ENTR_PER_PAGE
    ELSE ENTR_PER_PAGE

\* A slip this specification rules out: fill() starting from offset 0.
FilledWithoutBase(offsets, p) ==
    [idx |-> p,
     keystr |-> [i \in 0 .. NEntries(p) - 1 |-> file.word[offsets[p] + i]],
     off |-> [i \in 0 .. NEntries(p) - 1 |-> i]]

\* page_t::fill from the bytes between two offsets.
Filled(offsets, p) ==
    [idx |-> p,
     keystr |-> [i \in 0 .. NEntries(p) - 1 |-> file.word[offsets[p] + i]],
     off |-> [i \in 0 .. NEntries(p) - 1 |-> offsets[p] + i]]

\* load_page() reads the page only when another one is cached.
LoadPage(offsets, p) == IF p = page.idx THEN page ELSE Filled(offsets, p)

\* A slip: the upper half answered with the first word of the last page.
FirstOnPageFromLast(p) ==
    IF p < middle.idx
    THEN IF p = first.idx THEN first.keystr ELSE ReadFirstOnPageKey(wordoffset, p)
    ELSE IF p > middle.idx THEN last.keystr ELSE middle.keystr

GetFirstOnPageKey(p) ==
    IF p < middle.idx
    THEN IF p = first.idx THEN first.keystr ELSE ReadFirstOnPageKey(wordoffset, p)
    ELSE IF p > middle.idx
    THEN IF p = last.idx THEN last.keystr ELSE ReadFirstOnPageKey(wordoffset, p)
    ELSE middle.keystr
-----------------------------------------------------------------------------
Init ==
    /\ file \in Files
    /\ wordoffset = <<>>
    /\ first = NoEntry /\ middle = NoEntry /\ last = NoEntry
    /\ real_last = NoEntry
    /\ page = NoPage
    /\ wordentry = -1
    /\ pc = "new"
    /\ req = NoReq
    /\ iFrom = 0 /\ iTo = 0 /\ iThisIndex = 0 /\ idx = 0
    /\ ans = NoAns

\* load(): the offsets (scanned here; module OftCache has those of a cache
\* file), three first words, and the last word, which caches the last page.
Load ==
    /\ pc = "new"
    /\ LET offsets == ScanOffsets
           mid == LastPage \div 2
           pg == LoadPage(offsets, (file.wc - 1) \div ENTR_PER_PAGE)
           at == (file.wc - 1) % ENTR_PER_PAGE
       IN /\ wordoffset' = offsets
          /\ first' = [idx |-> 0, keystr |-> ReadFirstOnPageKey(offsets, 0)]
          /\ last' = [idx |-> LastPage,
                      keystr |-> ReadFirstOnPageKey(offsets, LastPage)]
          /\ middle' = [idx |-> mid,
                        keystr |-> ReadFirstOnPageKey(offsets, mid)]
          /\ page' = pg
          /\ real_last' = [idx |-> file.wc - 1, keystr |-> pg.keystr[at]]
          /\ wordentry' = pg.off[at]
    /\ pc' = "idle"
    /\ UNCHANGED <<file, req, locals, ans>>

\* load() when the .idx file cannot be opened: the offsets are dropped, and
\* Libs::load_dict deletes the dictionary, so that no call is ever made.
LoadFails ==
    /\ pc = "new"
    /\ wordoffset' = <<>>
    /\ pc' = "failed"
    /\ UNCHANGED <<file, first, middle, last, real_last, page, wordentry, req,
                   locals, ans>>

Call(r) ==
    /\ pc = "idle"
    /\ req' = r
    /\ pc' = r.op
    /\ UNCHANGED <<file, loaded, page, wordentry, locals, ans>>

\* A call returns; its locals go out of scope.
Return(a) ==
    /\ ans' = a
    /\ req' = NoReq
    /\ pc' = "idle"
    /\ iFrom' = 0 /\ iTo' = 0 /\ iThisIndex' = 0 /\ idx' = 0

LookupResult(found, i) ==
    [op |-> "lookup", str |-> req.str, cmp |-> req.cmp,
     found |-> found, idx |-> i]

\* A slip: get_key() returning before wordentry_offset is set.
GetKeyStaleEntry ==
    /\ pc = "get_key"
    /\ LET pg == LoadPage(wordoffset, req.idx \div ENTR_PER_PAGE)
           at == req.idx % ENTR_PER_PAGE
       IN /\ page' = pg
          /\ wordentry' = wordentry
          /\ Return([op |-> "get_key", idx |-> req.idx,
                     key |-> pg.keystr[at], entry |-> wordentry])
    /\ UNCHANGED <<file, loaded>>

\* get_key() and get_data().
GetKey ==
    /\ pc = "get_key"
    /\ LET pg == LoadPage(wordoffset, req.idx \div ENTR_PER_PAGE)
           at == req.idx % ENTR_PER_PAGE
       IN /\ page' = pg
          /\ wordentry' = pg.off[at]
          /\ Return([op |-> "get_key", idx |-> req.idx,
                     key |-> pg.keystr[at], entry |-> pg.off[at]])
    /\ UNCHANGED <<file, loaded>>

\* cmp(str, key), of which lookup() uses the sign.
Less(key) == Rank(req.cmp, req.str) < Rank(req.cmp, key)
Greater(key) == Rank(req.cmp, req.str) > Rank(req.cmp, key)

LookupBelowFirst ==
    /\ pc = "lookup"
    /\ Less(first.keystr)
    /\ Return(LookupResult(FALSE, 0))
    /\ UNCHANGED <<file, loaded, page, wordentry>>

LookupAboveLast ==
    /\ pc = "lookup"
    /\ ~Less(first.keystr)
    /\ Greater(real_last.keystr)
    /\ Return(LookupResult(FALSE, INVALID_INDEX))
    /\ UNCHANGED <<file, loaded, page, wordentry>>

LookupPages ==
    /\ pc = "lookup"
    /\ ~Less(first.keystr)
    /\ ~Greater(real_last.keystr)
    /\ iFrom' = 0
    /\ iTo' = LastPage
    /\ iThisIndex' = 0
    /\ pc' = "pages"
    /\ UNCHANGED <<file, loaded, page, wordentry, req, idx, ans>>

Mid == (iFrom + iTo) \div 2

GoRight ==
    /\ iFrom' = Mid + 1
    /\ iThisIndex' = Mid
    /\ UNCHANGED <<iTo, idx, pc, req, ans>>

GoLeft ==
    /\ iTo' = Mid - 1
    /\ iThisIndex' = Mid
    /\ UNCHANGED <<iFrom, idx, pc, req, ans>>

\* One turn of the loop over the first words of the pages.
PagesTurn ==
    /\ pc = "pages"
    /\ iFrom <= iTo
    /\ LET key == GetFirstOnPageKey(Mid) IN
         \/ Greater(key) /\ GoRight
         \/ Less(key) /\ GoLeft
         \/ /\ ~Greater(key) /\ ~Less(key)
            /\ Return(LookupResult(TRUE, Mid * ENTR_PER_PAGE))
    /\ UNCHANGED <<file, loaded, page, wordentry>>

\* The loop ends without a match: str can only be on page iTo.
PagesEnd ==
    /\ pc = "pages"
    /\ iFrom > iTo
    /\ idx' = iTo
    /\ page' = LoadPage(wordoffset, iTo)
    /\ iFrom' = 1       \* the first word has been compared already
    /\ iTo' = NEntries(iTo) - 1
    /\ iThisIndex' = 0
    /\ pc' = "entries"
    /\ UNCHANGED <<file, loaded, wordentry, req, ans>>

\* One turn of the loop over the entries of the page.
EntriesTurn ==
    /\ pc = "entries"
    /\ iFrom <= iTo
    /\ LET key == page.keystr[Mid] IN
         \/ Greater(key) /\ GoRight
         \/ Less(key) /\ GoLeft
         \/ /\ ~Greater(key) /\ ~Less(key)
            /\ Return(LookupResult(TRUE, idx * ENTR_PER_PAGE + Mid))
    /\ UNCHANGED <<file, loaded, page, wordentry>>

\* No entry matches: the answer is the next one, if need be on the next page.
EntriesEnd ==
    /\ pc = "entries"
    /\ iFrom > iTo
    /\ Return(LookupResult(FALSE, idx * ENTR_PER_PAGE + iFrom))
    /\ UNCHANGED <<file, loaded, page, wordentry>>

\* The steps of the program inside a call.
Step ==
    \/ GetKey
    \/ LookupBelowFirst \/ LookupAboveLast \/ LookupPages
    \/ PagesTurn \/ PagesEnd
    \/ EntriesTurn \/ EntriesEnd

Next ==
    \/ Load
    \/ LoadFails
    \/ \E r \in LookupReqs \cup GetReqs : Call(r)
    \/ Step

Spec == Init /\ [][Next]_vars

\* The thread that made a call runs it: nothing in lookup() or get_key() waits.
FairSpec == Spec /\ WF_vars(Step)
-----------------------------------------------------------------------------
Pcs == {"new", "failed", "idle", "lookup", "get_key", "pages", "entries"}
IsLoaded == pc \notin {"new", "failed"}

LookupAnswers(f) ==
    [op : {"lookup"}, str : Words, cmp : Cmps, found : BOOLEAN,
     idx : {INVALID_INDEX} \cup 0 .. f.wc - 1]
KeyAnswers(f) ==
    [op : {"get_key"}, idx : 0 .. f.wc - 1, key : Words,
     entry : 0 .. f.wc - 1]

\* Type invariant: what lookup() hands out is an index of the file or
\* INVALID_INDEX, and every local is an index the code can use.
TypeOK ==
    /\ file \in Files
    /\ pc \in Pcs
    /\ req \in LookupReqs \cup GetReqs \cup {NoReq}
    /\ pc \in {"lookup", "pages", "entries"} => req \in LookupReqs
    /\ pc = "get_key" => req \in GetReqs
    /\ pc \notin {"lookup", "get_key", "pages", "entries"} => req = NoReq
    /\ iFrom \in Int /\ iTo \in Int /\ iThisIndex \in Int /\ idx \in Int
    /\ wordentry \in {-1} \cup 0 .. file.wc - 1
    /\ ans \in LookupAnswers(file) \cup KeyAnswers(file) \cup {NoAns}

\* What load() prepared stays what the file says.
LoadedCoherent ==
    IsLoaded =>
        /\ wordoffset = ScanOffsets
        /\ first = [idx |-> 0, keystr |-> file.word[0]]
        /\ middle = [idx |-> LastPage \div 2,
                     keystr |-> file.word[(LastPage \div 2) * ENTR_PER_PAGE]]
        /\ last = [idx |-> LastPage,
                   keystr |-> file.word[LastPage * ENTR_PER_PAGE]]
        /\ real_last = [idx |-> file.wc - 1, keystr |-> file.word[file.wc - 1]]

\* pg holds the entries of page p.
IsPage(pg, p) ==
    /\ pg.idx = p
    /\ pg.keystr = [i \in 0 .. NEntries(p) - 1 |->
                       file.word[p * ENTR_PER_PAGE + i]]
    /\ pg.off = [i \in 0 .. NEntries(p) - 1 |-> p * ENTR_PER_PAGE + i]

\* The cached page is the one its number says, word for word and article for
\* article: what load_page() skips reading is never out of date or of another
\* page, whatever sequence of lookups and get_keys came before.
PageCoherent ==
    IF IsLoaded THEN page.idx \in 0 .. LastPage /\ IsPage(page, page.idx)
                ELSE page = NoPage

StrLess(i) == Rank(req.cmp, req.str) < Rank(req.cmp, file.word[i])
StrGreater(i) == Rank(req.cmp, req.str) > Rank(req.cmp, file.word[i])

PagesWindow ==
    pc = "pages" =>
        /\ 0 <= iFrom /\ iFrom <= iTo + 1 /\ 0 <= iTo /\ iTo <= LastPage
        /\ ~StrLess(0) /\ ~StrGreater(file.wc - 1)
        /\ \A p \in 0 .. iFrom - 1 : StrGreater(p * ENTR_PER_PAGE)
        /\ \A p \in iTo + 1 .. LastPage : StrLess(p * ENTR_PER_PAGE)

EntriesWindow ==
    pc = "entries" =>
        /\ idx \in 0 .. LastPage
        /\ page.idx = idx
        /\ 1 <= iFrom /\ iFrom <= iTo + 1 /\ iTo < NEntries(idx)
        /\ ~StrGreater(file.wc - 1)
        /\ \A i \in 0 .. iFrom - 1 : StrGreater(idx * ENTR_PER_PAGE + i)
        /\ \A i \in iTo + 1 .. NEntries(idx) - 1 :
               StrLess(idx * ENTR_PER_PAGE + i)
        /\ idx < LastPage => StrLess((idx + 1) * ENTR_PER_PAGE)

\* Both searches keep str inside their window, and the window inside the
\* file: neither reads an offset past the end of wordoffset nor an entry that
\* page_t::fill never wrote, also on a last page that is not full.
SearchWindow == PagesWindow /\ EntriesWindow

\* A lookup that returned told the truth about the whole file: an equal
\* entry if there is one, else the first greater one, else INVALID_INDEX.
LookupCorrect ==
    ans.op = "lookup" =>
        LookupAnswer(file, ans.cmp, ans.str, ans.found, ans.idx)

\* get_key(i) returned word i, and wordentry_offset/size are of article i.
KeyCorrect ==
    ans.op = "get_key" =>
        ans.key = file.word[ans.idx] /\ ans.entry = ans.idx

\* The inductive invariant.
IInv ==
    /\ TypeOK
    /\ LoadedCoherent
    /\ PageCoherent
    /\ SearchWindow
    /\ LookupCorrect
    /\ KeyCorrect

\* Every call returns: both loops of lookup() shrink their window.
Termination == req # NoReq ~> req = NoReq

\* Seen from outside, OffsetIndex is KeyIndex: the two searches, the cached
\* words and the cached page cannot be told from one look at the whole list.
KI == INSTANCE KeyIndex
Implements == KI!Spec
==============================================================================
