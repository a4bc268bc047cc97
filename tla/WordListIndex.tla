---------------------------- MODULE WordListIndex ----------------------------
(***************************************************************************)
(* class WordListIndex: the index of a dictionary whose .idx.gz file is    *)
(* unpacked into memory.  wordlist[i] points at entry i of the buffer and  *)
(* wordlist[wc] at its end; a pointer is the number of the entry it points *)
(* at, so the word it points at is file.word[wordlist[i]].                 *)
(***************************************************************************)
EXTENDS IdxFile

VARIABLES
    file,           \* the unpacked .idx.gz file, in idxdatabuf
    wordlist,       \* pointers into it
    wordentry,      \* wordentry_offset and wordentry_size
    pc,
    req,            \* the call being served
    iFrom, iTo, iThisIndex,     \* the locals of lookup()
    ans             \* the last call served, with its results

locals == <<iFrom, iTo, iThisIndex>>
vars == <<file, wordlist, wordentry, pc, req, locals, ans>>

NoReq == [op |-> "none"]
NoAns == [op |-> "none"]

LookupReqs == [op : {"lookup"}, str : Words, cmp : Cmps]
GetReqs == [op : {"get_key"}, idx : 0 .. file.wc - 1]

Key(i) == file.word[wordlist[i]]
Less(i) == Rank(req.cmp, req.str) < Rank(req.cmp, Key(i))
Greater(i) == Rank(req.cmp, req.str) > Rank(req.cmp, Key(i))

\* wordlist.size() - 2
LastIndex == file.wc - 1

Init ==
    /\ file \in Files
    /\ wordlist = <<>>
    /\ wordentry = -1
    /\ pc = "new"
    /\ req = NoReq
    /\ iFrom = 0 /\ iTo = 0 /\ iThisIndex = 0
    /\ ans = NoAns

\* load() walks the buffer, one entry at a time.
Load ==
    /\ pc = "new"
    /\ wordlist' = [i \in 0 .. file.wc |-> i]
    /\ pc' = "idle"
    /\ UNCHANGED <<file, wordentry, req, locals, ans>>

\* The file cannot be opened or unpacked to idxfilesize bytes; the dictionary
\* is deleted.
LoadFails ==
    /\ pc = "new"
    /\ pc' = "failed"
    /\ UNCHANGED <<file, wordlist, wordentry, req, locals, ans>>

Call(r) ==
    /\ pc = "idle"
    /\ req' = r
    /\ pc' = r.op
    /\ UNCHANGED <<file, wordlist, wordentry, locals, ans>>

\* A call returns; its locals go out of scope.
Return(a) ==
    /\ ans' = a
    /\ req' = NoReq
    /\ pc' = "idle"
    /\ iFrom' = 0 /\ iTo' = 0 /\ iThisIndex' = 0

LookupResult(found, i) ==
    [op |-> "lookup", str |-> req.str, cmp |-> req.cmp,
     found |-> found, idx |-> i]

\* get_key_and_data()
GetKeyAndData ==
    /\ pc = "get_key"
    /\ wordentry' = wordlist[req.idx]
    /\ Return([op |-> "get_key", idx |-> req.idx, key |-> Key(req.idx),
               entry |-> wordlist[req.idx]])
    /\ UNCHANGED <<file, wordlist>>

LookupBelowFirst ==
    /\ pc = "lookup"
    /\ Less(0)
    /\ Return(LookupResult(FALSE, 0))
    /\ UNCHANGED <<file, wordlist, wordentry>>

LookupAboveLast ==
    /\ pc = "lookup"
    /\ ~Less(0)
    /\ Greater(LastIndex)
    /\ Return(LookupResult(FALSE, INVALID_INDEX))
    /\ UNCHANGED <<file, wordlist, wordentry>>

\* A slip: the sentinel taken for an entry.
LookupSearchWithSentinel ==
    /\ pc = "lookup"
    /\ ~Less(0)
    /\ ~Greater(LastIndex)
    /\ iFrom' = 0
    /\ iTo' = LastIndex + 1
    /\ iThisIndex' = 0
    /\ pc' = "search"
    /\ UNCHANGED <<file, wordlist, wordentry, req, ans>>

LookupSearch ==
    /\ pc = "lookup"
    /\ ~Less(0)
    /\ ~Greater(LastIndex)
    /\ iFrom' = 0
    /\ iTo' = LastIndex
    /\ iThisIndex' = 0
    /\ pc' = "search"
    /\ UNCHANGED <<file, wordlist, wordentry, req, ans>>

Mid == (iFrom + iTo) \div 2

\* A slip: the middle stays in the window.
SearchTurnKeepMid ==
    /\ pc = "search"
    /\ iFrom <= iTo
    /\ \/ /\ Greater(Mid)
          /\ iFrom' = Mid
          /\ iThisIndex' = Mid
          /\ UNCHANGED <<iTo, pc, req, ans>>
       \/ /\ Less(Mid)
          /\ iTo' = Mid - 1
          /\ iThisIndex' = Mid
          /\ UNCHANGED <<iFrom, pc, req, ans>>
       \/ /\ ~Greater(Mid) /\ ~Less(Mid)
          /\ Return(LookupResult(TRUE, Mid))
    /\ UNCHANGED <<file, wordlist, wordentry>>

\* One turn of the loop.
SearchTurn ==
    /\ pc = "search"
    /\ iFrom <= iTo
    /\ \/ /\ Greater(Mid)
          /\ iFrom' = Mid + 1
          /\ iThisIndex' = Mid
          /\ UNCHANGED <<iTo, pc, req, ans>>
       \/ /\ Less(Mid)
          /\ iTo' = Mid - 1
          /\ iThisIndex' = Mid
          /\ UNCHANGED <<iFrom, pc, req, ans>>
       \/ /\ ~Greater(Mid) /\ ~Less(Mid)
          /\ Return(LookupResult(TRUE, Mid))
    /\ UNCHANGED <<file, wordlist, wordentry>>

\* A slip: the entry before the next one.
SearchEndBefore ==
    /\ pc = "search"
    /\ iFrom > iTo
    /\ Return(LookupResult(FALSE, iTo))
    /\ UNCHANGED <<file, wordlist, wordentry>>

\* No entry matches: the answer is the next one.
SearchEnd ==
    /\ pc = "search"
    /\ iFrom > iTo
    /\ Return(LookupResult(FALSE, iFrom))
    /\ UNCHANGED <<file, wordlist, wordentry>>

Step ==
    \/ GetKeyAndData
    \/ LookupBelowFirst \/ LookupAboveLast \/ LookupSearch
    \/ SearchTurn \/ SearchEnd

Next ==
    \/ Load
    \/ LoadFails
    \/ \E r \in LookupReqs \cup GetReqs : Call(r)
    \/ Step

Spec == Init /\ [][Next]_vars

\* The thread that made a call runs it: nothing in lookup() or get_key() waits.
FairSpec == Spec /\ WF_vars(Step)
-----------------------------------------------------------------------------
\* Type invariant.
TypeOK ==
    /\ file \in Files
    /\ pc \in {"new", "failed", "idle", "lookup", "get_key", "search"}
    /\ pc \in {"lookup", "search"} => req \in LookupReqs
    /\ pc = "get_key" => req \in GetReqs
    /\ pc \notin {"lookup", "get_key", "search"} => req = NoReq
    /\ pc \notin {"new", "failed"} => wordlist = [i \in 0 .. file.wc |-> i]
    /\ iFrom \in Int /\ iTo \in Int /\ iThisIndex \in Int

\* lookup() keeps str inside the window and the window inside the list: the
\* sentinel wordlist[wc], which points past the last word, is never compared.
SearchWindow ==
    pc = "search" =>
        /\ 0 <= iFrom /\ iFrom <= iTo + 1 /\ iTo < file.wc
        /\ ~Less(0) /\ ~Greater(file.wc - 1)
        /\ \A i \in 0 .. iFrom - 1 : Greater(i)
        /\ \A i \in iTo + 1 .. file.wc - 1 : Less(i)

\* A lookup that returned told the truth about the whole list.
LookupCorrect ==
    ans.op = "lookup" =>
        LookupAnswer(file, ans.cmp, ans.str, ans.found, ans.idx)

\* get_key_and_data(i) returned word i, and wordentry_offset/size of article i.
KeyCorrect ==
    ans.op = "get_key" =>
        ans.key = file.word[ans.idx] /\ ans.entry = ans.idx

\* The inductive invariant.
IInv == TypeOK /\ SearchWindow /\ LookupCorrect /\ KeyCorrect

\* Every call returns: the loop shrinks its window.
Termination == req # NoReq ~> req = NoReq

\* Seen from outside, WordListIndex and OffsetIndex are the same KeyIndex.
KI == INSTANCE KeyIndex
Implements == KI!Spec
==============================================================================
