------------------------------ MODULE DictFile ------------------------------
(***************************************************************************)
(* What a .dict file promises to the code above it: a request for size     *)
(* bytes at an offset is answered with those bytes, whatever was read      *)
(* before.  Byte o of the file is the number o, so an article is the       *)
(* sequence of the offsets it stands at.                                   *)
(***************************************************************************)
EXTENDS Integers

CONSTANT Lengths        \* the sizes of .dict files

VARIABLES
    length,     \* the size of the file
    req,        \* the request being served, or NoReq
    ans         \* the last one served, with its bytes

vars == <<length, req, ans>>

NoReq == [op |-> "none"]
NoAns == [op |-> "none"]

Requests(len) == { [op |-> "read", start |-> s, size |-> n] :
                     s \in 0 .. len, n \in 0 .. len }
InFile(r, len) == r.start + r.size <= len

\* The bytes of the file from start on.
Bytes(start, size) == [i \in 1 .. size |-> start + i - 1]

Init ==
    /\ length \in Lengths
    /\ req = NoReq
    /\ ans = NoAns

Call(r) ==
    /\ req = NoReq
    /\ InFile(r, length)
    /\ req' = r
    /\ UNCHANGED <<length, ans>>

Return ==
    /\ req # NoReq
    /\ ans' = [op |-> "read", start |-> req.start, size |-> req.size,
               data |-> Bytes(req.start, req.size)]
    /\ req' = NoReq
    /\ UNCHANGED length

Next ==
    \/ \E r \in Requests(length) : Call(r)
    \/ Return

Spec == Init /\ [][Next]_vars
=============================================================================
