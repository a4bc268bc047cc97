---------------------------- MODULE WordDataCache ----------------------------
(***************************************************************************)
(* DictBase::GetWordData: the articles of a dictionary, read from its      *)
(* .dict or .dict.dz file and kept in WORDDATA_CACHE_NUM slots that are    *)
(* filled in turn.  A slot is found by the offset of its article alone.    *)
(* Bytes are numbered, and files read, as in DictFile.                     *)
(***************************************************************************)
EXTENDS Integers

CONSTANTS
    Lengths,                \* the sizes of .dict files
    WORDDATA_CACHE_NUM      \* 10 in the code

ASSUME LengthsAssumption == Lengths \subseteq Nat
ASSUME CacheNumAssumption == WORDDATA_CACHE_NUM \in Nat \ {0}

VARIABLES
    kind,           \* "dict": dictfile is open, "dict.dz": dictdzfile is
    length,         \* the size of the file
    sizeAt,         \* the size the index gives the article at each offset
    cache,          \* cache[i]: offset and data of slot i
    cache_cur,      \* the slot to fill next
    req, ans,       \* the call being served and the last one served
    exited          \* an exception ended the program

vars == <<kind, length, sizeAt, cache, cache_cur, req, ans, exited>>

NoReq == [op |-> "none"]
NoAns == [op |-> "none"]
NoData == [op |-> "null"]       \* a slot whose data is nullptr
Slots == 0 .. WORDDATA_CACHE_NUM - 1

Bytes(start, size) == [i \in 1 .. size |-> start + i - 1]
Article(start, size) == [op |-> "data", bytes |-> Bytes(start, size)]

\* The indexes of dictionaries: where an article begins says how long it is.
Indexes(len) == { f \in [0 .. len -> 0 .. len] : \A o \in 0 .. len : o + f[o] <= len }

Init ==
    /\ kind \in {"dict", "dict.dz"}
    /\ length \in Lengths
    /\ sizeAt \in Indexes(length)
    /\ cache = [i \in Slots |-> [offset |-> 0, data |-> NoData]]
    /\ cache_cur = 0
    /\ req = NoReq
    /\ ans = NoAns
    /\ exited = FALSE

Call(offset) ==
    /\ ~exited
    /\ req = NoReq
    /\ req' = [op |-> "read", start |-> offset, size |-> sizeAt[offset]]
    /\ UNCHANGED <<kind, length, sizeAt, cache, cache_cur, ans, exited>>

\* A slip: any article will do.
HitsAny == { i \in Slots : cache[i].data # NoData }

Hits == { i \in Slots : cache[i].data # NoData /\ cache[i].offset = req.start }

Return(data) ==
    /\ ans' = [op |-> "read", start |-> req.start, size |-> req.size,
               data |-> data.bytes]
    /\ req' = NoReq

GetWordDataHit ==
    /\ req # NoReq /\ ~exited
    /\ \E i \in Hits :
         /\ \A j \in Hits : i <= j
         /\ Return(cache[i].data)
    /\ UNCHANGED <<kind, length, sizeAt, cache, cache_cur, exited>>

\* fread() of one item of no bytes returns 0: GetWordData throws.
Throws == kind = "dict" /\ req.size = 0

\* The bytes read go into the next slot and to the caller.
Fill(bytes) ==
    /\ req # NoReq /\ ~exited
    /\ Hits = {}
    /\ ~Throws
    /\ LET data == [op |-> "data", bytes |-> bytes] IN
         /\ cache' = [cache EXCEPT ![cache_cur] = [offset |-> req.start, data |-> data]]
         /\ Return(data)
    /\ cache_cur' = IF cache_cur + 1 = WORDDATA_CACHE_NUM THEN 0 ELSE cache_cur + 1
    /\ UNCHANGED <<kind, length, sizeAt, exited>>

\* The bytes the file has there; module DictData has the steps that read them
\* out of a .dict.dz file.
GetWordDataMiss == Fill(Bytes(req.start, req.size))

GetWordDataThrows ==
    /\ req # NoReq /\ ~exited
    /\ Hits = {}
    /\ Throws
    /\ exited' = TRUE
    /\ UNCHANGED <<kind, length, sizeAt, cache, cache_cur, req, ans>>

Step == GetWordDataHit \/ GetWordDataMiss \/ GetWordDataThrows

Next ==
    \/ \E offset \in 0 .. length : Call(offset)
    \/ Step

Spec == Init /\ [][Next]_vars
-----------------------------------------------------------------------------
\* Type invariant.
TypeOK ==
    /\ kind \in {"dict", "dict.dz"}
    /\ length \in Lengths
    /\ sizeAt \in Indexes(length)
    /\ cache_cur \in Slots
    /\ DOMAIN cache = Slots
    /\ \A i \in Slots : cache[i].offset \in 0 .. length
    /\ req = NoReq \/ \E o \in 0 .. length :
                        req = [op |-> "read", start |-> o, size |-> sizeAt[o]]
    /\ exited \in BOOLEAN

\* Every slot holds the article its offset says, of the size the index says,
\* whatever order articles were asked for and replaced in; and no article
\* takes two slots.
SlotsCoherent ==
    /\ \A i \in Slots : cache[i].data # NoData =>
           cache[i].data = Article(cache[i].offset, sizeAt[cache[i].offset])
    /\ \A i, j \in Slots : cache[i].data # NoData /\ cache[j].data # NoData
           /\ cache[i].offset = cache[j].offset => i = j

\* The inductive invariant.
IInv == TypeOK /\ SlotsCoherent

\* Seen from outside the articles are read from the file every time.
DF == INSTANCE DictFile
Implements == DF!Spec
=============================================================================
