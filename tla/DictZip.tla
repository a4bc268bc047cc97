------------------------------ MODULE DictZip ------------------------------
(***************************************************************************)
(* class DictData on a .dict.dz file: open() reads where the chunks are,   *)
(* and read() unpacks those that hold the bytes asked for, one at a time,  *)
(* and keeps the last ones unpacked in DICT_CACHE_SIZE slots, of which the *)
(* least recently used is replaced.  Bytes are numbered as in DictFile.    *)
(***************************************************************************)
EXTENDS DzHeader

CONSTANTS
    Lengths,            \* the sizes of the unpacked files
    ChunkLength,
    Flags,              \* the flags of the headers of .dict.dz files
    DICT_CACHE_SIZE,    \* 5 in the code
    MaxStamp            \* bound: no read begins after so many chunk visits

VARIABLES
    length,         \* the size of the unpacked file
    dz,             \* the bytes of the .dict.dz file
    header,         \* what read_header() found
    cache,          \* cache[j]: chunk, stamp, count and inBuffer of slot j
    stamp,          \* the static counter of read()
    zStream,        \* the inflate state: "none" before inflateInit2
    pc,
    req, i, buffer, \* the call being served: the chunk it is at, its output
    ans

vars == <<length, dz, header, cache, stamp, zStream, pc, req, i, buffer, ans>>

NoReq == [op |-> "none"]
NoAns == [op |-> "none"]
NoHeader == [type |-> "none"]
Slots == 0 .. DICT_CACHE_SIZE - 1
Unwritten == -1             \* a byte of a buffer nothing was written to

ChunkCount == header.chunkCount
Least(a, b) == IF a < b THEN a ELSE b

\* The bytes that chunk c has when unpacked; the last one may be short.
ChunkSize(c) == Least(ChunkLength, length - c * ChunkLength)

FirstChunk == req.start \div header.chunkLength
FirstOffset == req.start - FirstChunk * header.chunkLength
LastChunk == (req.start + req.size) \div header.chunkLength
LastOffset == req.start + req.size - LastChunk * header.chunkLength
-----------------------------------------------------------------------------
Init ==
    /\ length \in Lengths
    /\ \/ \E flags \in Flags : dz = DzFile(length, ChunkLength, flags)
       \/ dz = TextFile(length)
    /\ header = NoHeader
    /\ cache = <<>>
    /\ stamp = 0
    /\ zStream = "none"
    /\ pc = "closed"
    /\ req = NoReq /\ i = 0 /\ buffer = <<>>
    /\ ans = NoAns

\* open(): the header is read, the file mapped and the slots emptied.  A header
\* without chunks is refused.
Open ==
    /\ pc = "closed"
    /\ header' = ReadHeader(dz)
    /\ header'.type = "DICT_DZIP" => header'.chunkCount > 0
    /\ cache' = [j \in Slots |->
                   [chunk |-> -1, stamp |-> -1, count |-> 0,
                    inBuffer |-> [b \in 0 .. ChunkLength - 1 |-> Unwritten]]]
    /\ pc' = "idle"
    /\ UNCHANGED <<length, dz, stamp, zStream, req, i, buffer, ans>>

\* The file cannot be opened or mapped; the dictionary is deleted.
OpenFails ==
    /\ pc = "closed"
    /\ pc' = "failed"
    /\ UNCHANGED <<length, dz, header, cache, stamp, zStream, req, i, buffer, ans>>

\* read(buffer, start, size) begins.
Call(start, size) ==
    /\ pc = "idle"
    /\ stamp < MaxStamp
    /\ start + size <= length
    /\ req' = [op |-> "read", start |-> start, size |-> size]
    /\ buffer' = <<>>
    /\ IF header.type = "DICT_TEXT"
       THEN pc' = "text" /\ UNCHANGED <<i, zStream>>
       ELSE /\ i' = start \div header.chunkLength
            /\ zStream' = IF zStream = "none" THEN "ok" ELSE zStream
            /\ pc' = "chunk"
    /\ UNCHANGED <<length, dz, header, cache, stamp, ans>>

\* A file that is not compressed is mapped as it is.
ReadText ==
    /\ pc = "text"
    /\ ans' = [op |-> "read", start |-> req.start, size |-> req.size,
               data |-> SubSeq(dz, req.start + 1, req.start + req.size)]
    /\ req' = NoReq
    /\ pc' = "idle"
    /\ UNCHANGED <<length, dz, header, cache, stamp, zStream, i, buffer>>

Found == \E j \in Slots : cache[j].chunk = i
HitSlot == CHOOSE j \in Slots : cache[j].chunk = i
                 /\ \A k \in Slots : cache[k].chunk = i => j <= k

\* The slot to replace: the first of those with the least stamp.
OldestSlot ==
    CHOOSE j \in Slots : \A k \in Slots :
        \/ cache[j].stamp < cache[k].stamp
        \/ cache[j].stamp = cache[k].stamp /\ j <= k

\* A slip: the first offset cut off every chunk of the read.
PartOfEach(b) ==
    LET from == FirstOffset
        to == IF i = LastChunk THEN LastOffset ELSE header.chunkLength
    IN [k \in 1 .. to - from |-> b[from + k - 1]]

\* What memcpy takes out of an unpacked chunk.
Part(b) ==
    LET from == IF i = FirstChunk THEN FirstOffset ELSE 0
        to == IF i = LastChunk THEN LastOffset ELSE header.chunkLength
    IN [k \in 1 .. to - from |-> b[from + k - 1]]

\* The turn for chunk i ends with slot j at entry.
EndTurn(j, entry) ==
    /\ cache' = [cache EXCEPT ![j] = entry]
    /\ stamp' = stamp + 1
    /\ buffer' = buffer \o Part(entry.inBuffer)
    /\ i' = i + 1

InLoop == pc = "chunk" /\ i <= LastChunk

ChunkHit ==
    /\ InLoop
    /\ Found
    /\ EndTurn(HitSlot, [cache[HitSlot] EXCEPT !.stamp = stamp + 1])
    /\ UNCHANGED <<length, dz, header, zStream, pc, req, ans>>

\* inflate() returns without output: the slot is renamed all the same.
Nothing(j) == [chunk |-> i, stamp |-> stamp + 1, count |-> 0,
               inBuffer |-> cache[j].inBuffer]

\* A slip: a buffer that exists is not filled again.
InflatedOnce(j) ==
    [chunk |-> i, stamp |-> stamp + 1, count |-> ChunkSize(i),
     inBuffer |-> [b \in 0 .. ChunkLength - 1 |->
                     IF b < ChunkSize(i) /\ cache[j].inBuffer[b] = Unwritten
                     THEN i * ChunkLength + b ELSE cache[j].inBuffer[b]]]

Inflated(j) ==
    [chunk |-> i, stamp |-> stamp + 1, count |-> ChunkSize(i),
     inBuffer |-> [b \in 0 .. ChunkLength - 1 |->
                     IF b < ChunkSize(i) THEN i * ChunkLength + b
                                         ELSE cache[j].inBuffer[b]]]

\* The bytes handed to inflate() for chunk i are those of that chunk.
GoodInput ==
    SubSeq(dz, header.offsets[i] + 1, header.offsets[i] + header.chunks[i])
        = Deflated(i)

ChunkMiss ==
    /\ InLoop
    /\ ~Found
    /\ i < ChunkCount
    /\ zStream = "ok"
    /\ EndTurn(OldestSlot, IF GoodInput THEN Inflated(OldestSlot)
                                       ELSE Nothing(OldestSlot))
    /\ UNCHANGED <<length, dz, header, zStream, pc, req, ans>>

\* The read ends where a full last chunk ends, so LastChunk is one more than
\* there are: chunks[] and offsets[] are read past their end.  Here the number
\* found there is 0 and nothing is inflated; module DictZipHeap has the rest.
ChunkPastEnd ==
    /\ InLoop
    /\ ~Found
    /\ i >= ChunkCount
    /\ zStream = "ok"
    /\ EndTurn(OldestSlot, Nothing(OldestSlot))
    /\ UNCHANGED <<length, dz, header, zStream, pc, req, ans>>

\* A slip: i < lastChunk + 2.
ReturnLate ==
    /\ pc = "chunk"
    /\ i > LastChunk + 1
    /\ ans' = [op |-> "read", start |-> req.start, size |-> req.size,
               data |-> buffer]
    /\ req' = NoReq /\ i' = 0 /\ buffer' = <<>>
    /\ pc' = "idle"
    /\ UNCHANGED <<length, dz, header, cache, stamp, zStream>>

Return ==
    /\ pc = "chunk"
    /\ i > LastChunk
    /\ ans' = [op |-> "read", start |-> req.start, size |-> req.size,
               data |-> buffer]
    /\ req' = NoReq /\ i' = 0 /\ buffer' = <<>>
    /\ pc' = "idle"
    /\ UNCHANGED <<length, dz, header, cache, stamp, zStream>>

Step == ReadText \/ ChunkHit \/ ChunkMiss \/ ChunkPastEnd \/ Return

Next ==
    \/ Open
    \/ OpenFails
    \/ \E start, size \in 0 .. length : Call(start, size)
    \/ Step

Spec == Init /\ [][Next]_vars

\* read() waits for nothing.
FairSpec == Spec /\ WF_vars(Step)
-----------------------------------------------------------------------------
IsOpen == pc \notin {"closed", "failed"}
IsDzip == IsOpen /\ header.type = "DICT_DZIP"

\* Whatever optional fields the header of a file has, open() knows where each
\* chunk begins and how long it is, compressed and unpacked; a file that is
\* not compressed is known for what it is.
HeaderRight ==
    /\ IsOpen => header.length = length
    /\ IsOpen /\ ~IsDzip => header.type = "DICT_TEXT" /\ dz = TextFile(length)
    /\ IsDzip =>
         /\ header.chunkLength = ChunkLength
         /\ header.chunkCount = CountOfChunks(length, ChunkLength)
         /\ \A c \in 0 .. header.chunkCount - 1 :
              SubSeq(dz, header.offsets[c] + 1, header.offsets[c] + header.chunks[c])
                  = Deflated(c)

\* A slot that bears the number of a chunk of the file holds that chunk, all
\* of it, whichever chunks its buffer held before; and no chunk has two slots.
CacheCoherent ==
    IsDzip => \A j \in Slots :
        LET c == cache[j].chunk IN
        /\ c \in 0 .. ChunkCount - 1 =>
             /\ cache[j].count = ChunkSize(c)
             /\ \A b \in 0 .. ChunkSize(c) - 1 :
                  cache[j].inBuffer[b] = c * ChunkLength + b
        /\ \A k \in Slots : cache[k].chunk = c => j = k \/ c = -1

\* Every read returns.
Termination == req # NoReq ~> req = NoReq

\* Seen from outside, a .dict.dz file is a plain file of bytes.
DF == INSTANCE DictFile
Implements == DF!Spec
=============================================================================
