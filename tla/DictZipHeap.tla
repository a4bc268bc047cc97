---------------------------- MODULE DictZipHeap ----------------------------
(***************************************************************************)
(* DictZip with the other outcomes of reading chunks[chunkCount]: the heap *)
(* behind the array holds a number that is not 0, and inflate() is given   *)
(* bytes that are not a chunk.                                             *)
(***************************************************************************)
EXTENDS DictZip

\* inflate() reports an error, which read() does not look at.
PastEndError ==
    /\ InLoop
    /\ ~Found
    /\ i >= ChunkCount
    /\ zStream = "ok"
    /\ zStream' = "error"
    /\ EndTurn(OldestSlot, Nothing(OldestSlot))
    /\ UNCHANGED <<length, dz, header, pc, req, ans>>

\* From then on inflate() returns that error again and unpacks nothing.
ChunkMissAfterError ==
    /\ InLoop
    /\ ~Found
    /\ zStream = "error"
    /\ EndTurn(OldestSlot, Nothing(OldestSlot))
    /\ UNCHANGED <<length, dz, header, zStream, pc, req, ans>>

NextHeap == Next \/ PastEndError \/ ChunkMissAfterError

SpecHeap == Init /\ [][NextHeap]_vars
-----------------------------------------------------------------------------
\* The assertion of read(): a chunk that is neither the first nor the last of
\* a read has ChunkLength bytes.
MiddleChunkIsFull ==
    pc = "chunk" /\ i - 1 > FirstChunk /\ i - 1 < LastChunk =>
        \E j \in Slots : cache[j].chunk = i - 1 /\ cache[j].count = ChunkLength
=============================================================================
