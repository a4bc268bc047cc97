------------------------------ MODULE KeyIndex ------------------------------
(***************************************************************************)
(* What an IIndexFile promises to its caller, whichever class implements   *)
(* it: one call at a time, answered from the word list alone, whatever was *)
(* asked before.                                                           *)
(***************************************************************************)
EXTENDS IdxFile

VARIABLES
    file,   \* the word list on disk
    req,    \* the call being served, or NoReq
    ans     \* the last call served, with its results

vars == <<file, req, ans>>

NoReq == [op |-> "none"]
NoAns == [op |-> "none"]

LookupReqs == [op : {"lookup"}, str : Words, cmp : Cmps]
GetReqs(f) == [op : {"get_key"}, idx : 0 .. f.wc - 1]

Init ==
    /\ file \in Files
    /\ req = NoReq
    /\ ans = NoAns

Call(r) ==
    /\ req = NoReq
    /\ req' = r
    /\ UNCHANGED <<file, ans>>

\* lookup() returns: any answer that is right for the word list.
ReturnLookup ==
    /\ req.op = "lookup"
    /\ \E found \in BOOLEAN, idx \in {INVALID_INDEX} \cup 0 .. file.wc - 1 :
         /\ LookupAnswer(file, req.cmp, req.str, found, idx)
         /\ ans' = [op |-> "lookup", str |-> req.str, cmp |-> req.cmp,
                    found |-> found, idx |-> idx]
    /\ req' = NoReq
    /\ UNCHANGED file

\* get_key(idx) returns the word of entry idx and leaves the place of its
\* article, entry idx's own, in wordentry_offset and wordentry_size.
ReturnKey ==
    /\ req.op = "get_key"
    /\ ans' = [op |-> "get_key", idx |-> req.idx,
               key |-> file.word[req.idx], entry |-> req.idx]
    /\ req' = NoReq
    /\ UNCHANGED file

Next ==
    \/ \E r \in LookupReqs : Call(r)
    \/ \E r \in GetReqs(file) : Call(r)
    \/ ReturnLookup
    \/ ReturnKey

Spec == Init /\ [][Next]_vars
=============================================================================
