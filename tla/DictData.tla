------------------------------ MODULE DictData ------------------------------
(***************************************************************************)
(* The articles of a dictionary with everything under them: GetWordData    *)
(* and its cache of articles (WordDataCache), which on a miss reads a      *)
(* .dict.dz file through DictData and its cache of chunks (DictZip), or a  *)
(* .dict file at once.  The variables of DictZip begin with z.             *)
(***************************************************************************)
EXTENDS WordDataCache

CONSTANTS
    ChunkLength, Flags, DICT_CACHE_SIZE, MaxStamp,  \* of DictZip
    ArticleSizes    \* bound: the sizes of the articles an index knows

ASSUME SizesAssumption == ChunkLength \in Nat \ {0} /\ DICT_CACHE_SIZE \in Nat \ {0}

\* What dictzip can write: the length of a chunk and of the extra field, in
\* which a chunk has two bytes, are numbers of 16 bits, the length of the file
\* one of 32 bits, and the flags are a byte.
ASSUME FieldsAssumption ==
    /\ ChunkLength < 65536
    /\ \A n \in Lengths : /\ n \div 65536 < 65536
                          /\ 10 + 2 * ((n + ChunkLength - 1) \div ChunkLength) < 65536
    /\ Flags \subseteq 0 .. 255

VARIABLES dz, header, zcache, stamp, zStream, zpc, zreq, i, buffer, zans

zvars == <<length, dz, header, zcache, stamp, zStream, zpc, zreq, i, buffer, zans>>
datavars == <<vars, zvars>>

Z == INSTANCE DictZip WITH cache <- zcache, pc <- zpc, req <- zreq, ans <- zans

Least(a, b) == IF a < b THEN a ELSE b

\* Articles of one size at even offsets and of another at odd ones.
DataInit ==
    /\ length \in Lengths
    /\ \E n \in [{0, 1} -> ArticleSizes] :
         sizeAt = [o \in 0 .. length |-> Least(n[o % 2], length - o)]
    /\ Init
    /\ Z!Init
    /\ kind = "dict" => dz = Z!TextFile(length)

\* GetWordData misses and calls dictdzfile->read().
Read ==
    /\ kind = "dict.dz"
    /\ req # NoReq /\ Hits = {}
    /\ Z!Call(req.start, req.size)
    /\ UNCHANGED vars

\* One more chunk is copied.
ReadChunk ==
    /\ Z!ChunkHit \/ Z!ChunkMiss \/ Z!ChunkPastEnd
    /\ UNCHANGED vars

\* read() returns, and what it copied becomes an article.
ReadReturns ==
    /\ Z!ReadText \/ Z!Return
    /\ Fill(zans'.data)

\* A hit, and a .dict file, which the C library reads at once.
Plain ==
    /\ \/ GetWordDataHit
       \/ GetWordDataThrows
       \/ kind = "dict" /\ GetWordDataMiss
    /\ UNCHANGED zvars

Serve == Read \/ ReadChunk \/ ReadReturns \/ Plain

\* Dict::load opens the file; GetWordData is called on a loaded dictionary.
Loaded == kind = "dict.dz" => zpc \notin {"closed", "failed"}

DataNext ==
    \/ kind = "dict.dz" /\ (Z!Open \/ Z!OpenFails) /\ UNCHANGED vars
    \/ /\ Loaded
       /\ kind = "dict.dz" => stamp < MaxStamp
       /\ \E offset \in 0 .. length : Call(offset)
       /\ UNCHANGED zvars
    \/ Serve

DataSpec == DataInit /\ [][DataNext]_datavars

\* Nothing in GetWordData or read() waits.
FairDataSpec == DataSpec /\ WF_datavars(Serve)
-----------------------------------------------------------------------------
\* open() knows where every chunk of the .dict.dz file is.
ChunksFound == Z!HeaderRight

\* Every slot of read() holds the chunk it is named after.
ChunksCoherent == Z!CacheCoherent

\* Every call returns, or ends the program as the code means it to.
Termination == req # NoReq ~> req = NoReq \/ exited
=============================================================================
