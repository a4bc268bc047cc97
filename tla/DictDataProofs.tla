--------------------------- MODULE DictDataProofs ---------------------------
(***************************************************************************)
(* The articles of a dictionary with everything under them, for files,     *)
(* chunks, articles and caches of any size: open() finds the chunks where  *)
(* dictzip wrote them, every slot of read() holds the chunk it is named    *)
(* after, read() gives the bytes asked for, and GetWordData answers like a *)
(* read of the file itself.                                                *)
(***************************************************************************)
EXTENDS DictData, Sorting, SequenceTheorems
-----------------------------------------------------------------------------
(* GetWordData and its cache of articles, over a read that is one step.     *)

\* A file of length bytes and the sizes its index gives.
LEMMA SizeFacts ==
    ASSUME TypeOK, NEW o \in 0 .. length
    PROVE  /\ length \in Nat
           /\ sizeAt[o] \in 0 .. length
           /\ o + sizeAt[o] <= length
BY LengthsAssumption DEF TypeOK, Indexes

\* Initially no slot is filled.
LEMMA InitIInv == Init => IInv
<1> SUFFICES ASSUME Init PROVE IInv
  OBVIOUS
<1>1. length \in Nat /\ 0 \in 0 .. length
  BY LengthsAssumption DEF Init
<1>2. \A j \in Slots : cache[j] = [offset |-> 0, data |-> NoData]
  BY DEF Init
<1>3. TypeOK
  <2>1. cache_cur \in Slots
    BY CacheNumAssumption DEF Init, Slots
  <2>2. DOMAIN cache = Slots /\ \A j \in Slots : cache[j].offset \in 0 .. length
    BY <1>1, <1>2 DEF Init
  <2> QED
    BY <2>1, <2>2 DEF Init, TypeOK
<1>4. SlotsCoherent
  BY <1>2 DEF SlotsCoherent
<1> QED
  BY <1>3, <1>4 DEF IInv

\* Filling one slot with the article asked for, which no slot has, keeps the
\* slots coherent.
LEMMA MissKeepsSlots ==
    ASSUME IInv, GetWordDataMiss
    PROVE  SlotsCoherent'
<1> DEFINE data == Article(req.start, req.size)
           entry == [offset |-> req.start, data |-> data]
<1>1. /\ cache' = [cache EXCEPT ![cache_cur] = entry]
      /\ sizeAt' = sizeAt /\ cache_cur \in Slots
      /\ req.size = sizeAt[req.start]
  BY DEF GetWordDataMiss, Fill, Article, IInv, TypeOK
<1>2. DOMAIN cache = Slots
  BY DEF IInv, TypeOK
<1>3. \A j \in Slots : cache'[j] = IF j = cache_cur THEN entry ELSE cache[j]
  BY <1>1, <1>2
<1>4. \A j \in Slots : cache[j].data # NoData => cache[j].offset # req.start
  BY DEF GetWordDataMiss, Fill, Hits
<1>5. ASSUME NEW j \in Slots, cache'[j].data # NoData
      PROVE  cache'[j].data = Article(cache'[j].offset, sizeAt[cache'[j].offset])
  <2>1. CASE j = cache_cur
    BY <1>1, <1>3, <2>1
  <2>2. CASE j # cache_cur
    BY <1>3, <1>5, <2>2 DEF IInv, SlotsCoherent
  <2> QED
    BY <2>1, <2>2
<1>6. ASSUME NEW j \in Slots, NEW k \in Slots,
             cache'[j].data # NoData, cache'[k].data # NoData,
             cache'[j].offset = cache'[k].offset
      PROVE  j = k
  <2>1. CASE j # cache_cur /\ k # cache_cur
    BY <1>3, <1>6, <2>1 DEF IInv, SlotsCoherent
  <2>2. CASE j = cache_cur /\ k # cache_cur
    BY <1>3, <1>4, <1>6, <2>2
  <2>3. CASE j # cache_cur /\ k = cache_cur
    BY <1>3, <1>4, <1>6, <2>3
  <2> QED
    BY <2>1, <2>2, <2>3
<1> QED
  BY <1>1, <1>5, <1>6 DEF SlotsCoherent, Article, Bytes

\* Filling a slot keeps the types.
LEMMA MissKeepsTypes ==
    ASSUME IInv, GetWordDataMiss
    PROVE  TypeOK'
<1>1. /\ cache' = [cache EXCEPT ![cache_cur] =
                     [offset |-> req.start, data |-> Article(req.start, req.size)]]
      /\ req' = NoReq
      /\ cache_cur' = IF cache_cur + 1 = WORDDATA_CACHE_NUM THEN 0 ELSE cache_cur + 1
      /\ UNCHANGED <<kind, length, sizeAt, exited>>
  BY DEF GetWordDataMiss, Fill, Article, Return
<1>2. req.start \in 0 .. length
  BY DEF IInv, TypeOK, GetWordDataMiss, Fill
<1>3. DOMAIN cache' = Slots /\ \A j \in Slots : cache'[j].offset \in 0 .. length
  BY <1>1, <1>2 DEF IInv, TypeOK
<1>4. cache_cur' \in Slots
  BY <1>1, CacheNumAssumption DEF IInv, TypeOK, Slots
<1> QED
  BY <1>1, <1>3, <1>4 DEF IInv, TypeOK

\* The invariant is kept by every step.
LEMMA NextKeepsIInv == IInv /\ [Next]_vars => IInv'
<1> SUFFICES ASSUME IInv, [Next]_vars PROVE IInv'
  OBVIOUS
<1>1. ASSUME NEW offset \in 0 .. length, Call(offset)
      PROVE  IInv'
  BY <1>1 DEF IInv, TypeOK, SlotsCoherent, Call
<1>2. CASE GetWordDataHit
  BY <1>2 DEF IInv, TypeOK, SlotsCoherent, GetWordDataHit, Return
<1>3. CASE GetWordDataMiss
  BY <1>3, MissKeepsSlots, MissKeepsTypes DEF IInv
<1>4. CASE GetWordDataThrows
  BY <1>4 DEF IInv, TypeOK, SlotsCoherent, GetWordDataThrows
<1>5. CASE UNCHANGED vars
  BY <1>5 DEF IInv, TypeOK, SlotsCoherent, vars
<1> QED
  BY <1>1, <1>2, <1>3, <1>4, <1>5 DEF Next, Step

\* Every slot always holds the article at its offset, and no article has two.
THEOREM SlotsStayCoherent == Spec => []SlotsCoherent
<1>1. IInv => SlotsCoherent
  BY DEF IInv
<1> QED
  BY InitIInv, NextKeepsIInv, <1>1, PTL DEF Spec

\* A step of GetWordData is a call or a return of DictFile.
LEMMA StepsRefine == IInv /\ [Next]_vars => [DF!Next]_(DF!vars)
<1> SUFFICES ASSUME IInv, [Next]_vars PROVE [DF!Next]_(DF!vars)
  OBVIOUS
<1>1. ASSUME NEW offset \in 0 .. length, Call(offset)
      PROVE  DF!Next
  <2> DEFINE r == [op |-> "read", start |-> offset, size |-> sizeAt[offset]]
  <2>1. sizeAt[offset] \in 0 .. length /\ offset + sizeAt[offset] <= length
    BY SizeFacts DEF IInv
  <2>2. r \in DF!Requests(length) /\ DF!InFile(r, length)
    BY <2>1 DEF DF!Requests, DF!InFile
  <2>3. DF!Call(r)
    BY <1>1, <2>2 DEF Call, DF!Call, NoReq, DF!NoReq
  <2> QED
    BY <2>2, <2>3 DEF DF!Next
<1>2. ASSUME NEW data, req # NoReq, Return(data), UNCHANGED length,
             data = Article(req.start, req.size)
      PROVE  DF!Next
  <2>1. data.bytes = DF!Bytes(req.start, req.size)
    BY <1>2 DEF Article, Bytes, DF!Bytes
  <2> QED
    BY <1>2, <2>1 DEF Return, DF!Next, DF!Return, NoReq, DF!NoReq
<1>3. CASE GetWordDataHit
  <2>1. PICK j \in Hits : Return(cache[j].data)
    BY <1>3 DEF GetWordDataHit
  <2>2. cache[j].data = Article(req.start, req.size)
    BY <1>3, <2>1 DEF GetWordDataHit, Hits, IInv, TypeOK, SlotsCoherent
  <2> QED
    BY <1>2, <1>3, <2>1, <2>2 DEF GetWordDataHit
<1>4. CASE GetWordDataMiss
  BY <1>2, <1>4 DEF GetWordDataMiss, Fill, Article
<1>5. CASE GetWordDataThrows
  BY <1>5 DEF GetWordDataThrows, DF!vars
<1>6. CASE UNCHANGED vars
  BY <1>6 DEF vars, DF!vars
<1> QED
  BY <1>1, <1>3, <1>4, <1>5, <1>6 DEF Next, Step

\* GetWordData, with its slots found by offset alone and replaced in turn,
\* answers like a read of the file itself.
THEOREM WordDataRefinement == Spec => Implements
<1>1. Init => DF!Init
  BY DEF Init, DF!Init, NoReq, NoAns, DF!NoReq, DF!NoAns
<1> QED
  BY InitIInv, NextKeepsIInv, StepsRefine, <1>1, PTL DEF Spec, Implements, DF!Spec
-----------------------------------------------------------------------------
(* With the reads of a .dict.dz file and their cache of chunks under it.    *)

Entries == [chunk : Int, stamp : Int, count : Int, inBuffer : [0 .. ChunkLength - 1 -> Int]]

\* What the variables of DictZip may be.
ZTypes ==
    /\ zpc \in {"closed", "failed", "idle", "text", "chunk"}
    /\ stamp \in Int
    /\ Z!IsOpen => zcache \in [Z!Slots -> Entries]
    /\ zpc = "text" => ~Z!IsDzip
    /\ zpc = "chunk" => Z!IsDzip

\* How many bytes read() has copied when it comes to chunk i.
Copied ==
    IF i > Z!LastChunk THEN zreq.size
    ELSE IF i = Z!FirstChunk THEN 0 ELSE i * ChunkLength - zreq.start

\* A read in progress is for the article that GetWordData did not find, and
\* has copied the first bytes of it.
Reading ==
    /\ zpc \notin {"text", "chunk"} => zreq = Z!NoReq
    /\ zpc \in {"text", "chunk"} =>
         /\ zreq = req /\ req # NoReq /\ ~exited
         /\ Hits = {} /\ kind = "dict.dz"
    /\ zpc = "chunk" =>
         /\ i \in Z!FirstChunk .. Z!LastChunk + 1
         /\ buffer = Bytes(zreq.start, Copied)
    /\ kind = "dict" => zpc = "closed"
    /\ exited => kind = "dict"

DataInv == IInv /\ ZTypes /\ ChunksCoherent /\ Reading
-----------------------------------------------------------------------------
(* The chunks that hold a place, and what read() copies of each.            *)

\* A place is in the chunk it is divided into.
LEMMA DivFacts ==
    ASSUME NEW a \in Nat, NEW c \in Nat \ {0}
    PROVE  /\ a \div c \in Nat
           /\ (a \div c) * c =< a
           /\ a < (a \div c) * c + c
OBVIOUS

\* Chunks follow one another.
LEMMA Products ==
    ASSUME NEW a \in Nat, NEW b \in Nat, NEW c \in Nat \ {0}
    PROVE  /\ a * c \in Nat /\ b * c \in Nat
           /\ (a + 1) * c = a * c + c
           /\ a =< b => a * c =< b * c
           /\ a < b => a * c + c =< b * c
           /\ a * c < b * c => a < b
OBVIOUS

\* Bytes that follow bytes.
LEMMA BytesConcat ==
    ASSUME NEW a \in Nat, NEW n \in Nat, NEW m \in Nat
    PROVE  Bytes(a, n) \o [k \in 1 .. m |-> a + n + k - 1] = Bytes(a, n + m)
<1> DEFINE t == [k \in 1 .. m |-> a + n + k - 1]
<1>1. Bytes(a, n) \in Seq(Int) /\ Len(Bytes(a, n)) = n
  BY DEF Bytes
<1>2. t \in Seq(Int) /\ Len(t) = m
  OBVIOUS
<1>3. Bytes(a, n) \o t = Bytes(a, n + m)
  BY <1>1, <1>2 DEF Bytes
<1> QED BY <1>3

\* The numbers read() computes for a request of an article.
LEMMA ReadFacts ==
    ASSUME DataInv, ChunksFound, zpc = "chunk"
    PROVE  /\ zreq.start \in Nat /\ zreq.size \in Nat /\ length \in Nat
           /\ zreq.start + zreq.size =< length
           /\ header.chunkLength = ChunkLength
           /\ Z!FirstChunk \in Nat /\ Z!LastChunk \in Nat
           /\ Z!FirstChunk =< Z!LastChunk /\ i \in Nat
           /\ Z!FirstChunk * ChunkLength + Z!FirstOffset = zreq.start
           /\ Z!LastChunk * ChunkLength + Z!LastOffset = zreq.start + zreq.size
           /\ Z!FirstOffset \in 0 .. ChunkLength - 1
           /\ Z!LastOffset \in 0 .. ChunkLength - 1
<1>1. /\ zreq.start \in Nat /\ zreq.size \in Nat /\ length \in Nat
      /\ zreq.start + zreq.size =< length
  <2>1. PICK o \in 0 .. length : zreq = [op |-> "read", start |-> o, size |-> sizeAt[o]]
    BY DEF DataInv, IInv, TypeOK, Reading, NoReq
  <2> QED BY <2>1, SizeFacts DEF DataInv, IInv
<1>2. header.chunkLength = ChunkLength /\ ChunkLength \in Nat \ {0}
  BY SizesAssumption DEF ChunksFound, Z!HeaderRight, Z!IsDzip, DataInv, ZTypes
<1>3. Z!FirstChunk = zreq.start \div ChunkLength
      /\ Z!LastChunk = (zreq.start + zreq.size) \div ChunkLength
  BY <1>2 DEF Z!FirstChunk, Z!LastChunk
<1>4. /\ Z!FirstChunk \in Nat
      /\ Z!FirstChunk * ChunkLength =< zreq.start
      /\ zreq.start < Z!FirstChunk * ChunkLength + ChunkLength
  BY <1>1, <1>2, <1>3, DivFacts
<1>5. /\ Z!LastChunk \in Nat
      /\ Z!LastChunk * ChunkLength =< zreq.start + zreq.size
      /\ zreq.start + zreq.size < Z!LastChunk * ChunkLength + ChunkLength
  <2>1. zreq.start + zreq.size \in Nat
    BY <1>1
  <2> QED BY <1>2, <1>3, <2>1, DivFacts
<1>6. Z!FirstChunk =< Z!LastChunk
  <2>1. Z!FirstChunk * ChunkLength < (Z!LastChunk + 1) * ChunkLength
    BY <1>1, <1>2, <1>4, <1>5, Products
  <2>2. Z!FirstChunk < Z!LastChunk + 1
    BY <1>2, <1>4, <1>5, <2>1, Products
  <2> QED BY <1>4, <1>5, <2>2
<1>7. i \in Nat
  BY <1>4, <1>5 DEF DataInv, Reading
<1>8. /\ Z!FirstOffset = zreq.start - Z!FirstChunk * ChunkLength
      /\ Z!LastOffset = zreq.start + zreq.size - Z!LastChunk * ChunkLength
  BY <1>2 DEF Z!FirstOffset, Z!LastOffset
<1>9. Z!FirstChunk * ChunkLength \in Nat /\ Z!LastChunk * ChunkLength \in Nat
  BY <1>2, <1>4, <1>5, Products
<1> HIDE DEF Z!FirstChunk, Z!LastChunk, Z!FirstOffset, Z!LastOffset
<1> QED BY <1>1, <1>2, <1>4, <1>5, <1>6, <1>7, <1>8, <1>9

\* The chunks there are.
LEMMA ChunkFacts ==
    ASSUME DataInv, ChunksFound, Z!IsDzip, NEW c \in Nat
    PROVE  /\ Z!ChunkCount \in Nat
           /\ c * ChunkLength \in Nat
           /\ c < Z!ChunkCount => c * ChunkLength < length
           /\ c >= Z!ChunkCount => c * ChunkLength >= length
           /\ length \in Nat
           /\ c < Z!ChunkCount => Z!ChunkSize(c) \in 1 .. ChunkLength
<1>1. length \in Nat /\ ChunkLength \in Nat \ {0}
  BY SizesAssumption, LengthsAssumption DEF DataInv, IInv, TypeOK
<1> DEFINE n == (length + ChunkLength - 1) \div ChunkLength
<1>2. Z!ChunkCount = n
  BY DEF ChunksFound, Z!HeaderRight, Z!ChunkCount, Z!CountOfChunks
<1>3. /\ n \in Nat /\ n * ChunkLength =< length + ChunkLength - 1
      /\ length + ChunkLength - 1 < n * ChunkLength + ChunkLength
  BY <1>1, DivFacts
<1> HIDE DEF n
<1>4. c * ChunkLength \in Nat /\ n * ChunkLength \in Nat
  BY <1>1, <1>3, Products
<1>5. c < n => c * ChunkLength < length
  BY <1>1, <1>3, <1>4, Products
<1>6. c >= n => c * ChunkLength >= length
  BY <1>1, <1>3, <1>4, Products
<1>7. c < n => Z!ChunkSize(c) \in 1 .. ChunkLength
  BY <1>1, <1>4, <1>5 DEF Z!ChunkSize, Z!Least
<1> QED BY <1>1, <1>2, <1>3, <1>4, <1>5, <1>6, <1>7

\* What one turn of read() copies are the bytes that come next.
LEMMA TurnCopies ==
    ASSUME DataInv, ChunksFound, zpc = "chunk", i <= Z!LastChunk, NEW b,
           i < Z!ChunkCount => \A k \in 0 .. Z!ChunkSize(i) - 1 : b[k] = i * ChunkLength + k
    PROVE  buffer \o Z!Part(b) =
             Bytes(zreq.start, IF i + 1 > Z!LastChunk THEN zreq.size
                               ELSE (i + 1) * ChunkLength - zreq.start)
<1> DEFINE from == IF i = Z!FirstChunk THEN Z!FirstOffset ELSE 0
           to == IF i = Z!LastChunk THEN Z!LastOffset ELSE ChunkLength
           n == IF i = Z!FirstChunk THEN 0 ELSE i * ChunkLength - zreq.start
           at == i * ChunkLength
           stop == zreq.start + zreq.size
<1>1. /\ i \in Nat /\ i >= Z!FirstChunk /\ buffer = Bytes(zreq.start, n)
  BY ReadFacts DEF DataInv, Reading, Copied
<1>2. Z!IsDzip
  BY DEF DataInv, ZTypes
<1>3. /\ ChunkLength \in Nat \ {0} /\ at \in Nat /\ (i + 1) * ChunkLength = at + ChunkLength
      /\ Z!FirstChunk < i => Z!FirstChunk * ChunkLength + ChunkLength =< at
      /\ i < Z!LastChunk => at + ChunkLength =< Z!LastChunk * ChunkLength
      /\ Z!FirstChunk * ChunkLength \in Nat /\ Z!LastChunk * ChunkLength \in Nat
  BY <1>1, ReadFacts, Products, SizesAssumption
<1>4. /\ zreq.start \in Nat /\ zreq.size \in Nat /\ length \in Nat /\ stop \in Nat /\ stop =< length
  BY ReadFacts
<1>5. n \in Nat /\ zreq.start + n = at + from
  <2>1. CASE i = Z!FirstChunk
    BY <1>4, <2>1, ReadFacts
  <2>2. CASE i # Z!FirstChunk
    <3>1. Z!FirstChunk < i
      BY <1>1, <2>2, ReadFacts
    <3>2. zreq.start =< at
      BY <1>3, <1>4, <3>1, ReadFacts
    <3> QED BY <1>3, <1>4, <2>2, <3>2
  <2> QED BY <2>1, <2>2
<1>6. /\ at + to =< stop /\ to \in 0 .. ChunkLength /\ from \in 0 .. ChunkLength - 1
      /\ i = Z!LastChunk => at + to = stop
      /\ i # Z!LastChunk => at + to = at + ChunkLength
  <2>1. CASE i = Z!LastChunk
    BY <1>3, <1>4, <2>1, ReadFacts
  <2>2. CASE i # Z!LastChunk
    <3>1. i < Z!LastChunk
      BY <1>1, <2>2, ReadFacts
    <3> QED BY <1>3, <1>4, <2>2, <3>1, ReadFacts
  <2> QED BY <2>1, <2>2
<1>7. from =< to
  <2>1. CASE i # Z!FirstChunk
    BY <1>6, <2>1
  <2>2. CASE i = Z!FirstChunk /\ i = Z!LastChunk
    BY <1>3, <1>4, <2>2, ReadFacts
  <2>3. CASE i = Z!FirstChunk /\ i # Z!LastChunk
    BY <1>6, <2>3
  <2> QED BY <2>1, <2>2, <2>3
<1> HIDE DEF from, to, n, at, stop
<1> DEFINE m == to - from
<1>8. m \in Nat
  BY <1>6, <1>7
<1>9. Z!Part(b) = [k \in 1 .. m |-> b[from + k - 1]]
  BY ReadFacts DEF Z!Part, from, to
<1>10. ASSUME NEW k \in 1 .. m PROVE b[from + k - 1] = zreq.start + n + k - 1
  <2>1. at + to =< length /\ to >= 1
    BY <1>4, <1>6, <1>8, <1>10, <1>3
  <2>2. i < Z!ChunkCount /\ length - at \in Nat
    <3>1. at < length
      BY <1>3, <1>4, <1>6, <2>1
    <3> QED BY <1>1, <1>2, <1>3, <1>4, <3>1, ChunkFacts DEF at
  <2>3. Z!ChunkSize(i) \in Int /\ to =< Z!ChunkSize(i)
    BY <1>3, <1>4, <1>6, <2>1, <2>2 DEF Z!ChunkSize, Z!Least, at
  <2>4. from + k - 1 \in 0 .. Z!ChunkSize(i) - 1
    BY <1>6, <1>8, <2>3
  <2>5. b[from + k - 1] = at + (from + k - 1)
    BY <2>2, <2>4 DEF at
  <2> QED BY <1>3, <1>4, <1>5, <1>6, <2>5
<1>11. Z!Part(b) = [k \in 1 .. m |-> zreq.start + n + k - 1]
  BY <1>9, <1>10
<1>12. buffer \o Z!Part(b) = Bytes(zreq.start, n + m)
  <2> HIDE DEF m
  <2>1. zreq.start \in Nat /\ n \in Nat /\ m \in Nat
    BY <1>4, <1>5, <1>8
  <2>2. Bytes(zreq.start, n) \o Z!Part(b) = Bytes(zreq.start, n + m)
    <3> HIDE DEF n
    <3>1. Bytes(zreq.start, n) \o [k \in 1 .. m |-> zreq.start + n + k - 1] = Bytes(zreq.start, n + m)
      BY <2>1, BytesConcat
    <3> QED BY <1>11, <3>1
  <2> QED BY <1>1, <2>2
<1>13. n + m = IF i + 1 > Z!LastChunk THEN zreq.size
               ELSE (i + 1) * ChunkLength - zreq.start
  <2>1. zreq.start + (n + m) = at + to
    BY <1>3, <1>4, <1>5, <1>6
  <2>2. CASE i = Z!LastChunk
    BY <1>1, <1>4, <1>5, <1>6, <1>8, <2>1, <2>2 DEF stop
  <2>3. CASE i # Z!LastChunk
    <3>1. i + 1 =< Z!LastChunk
      BY <1>1, <2>3, ReadFacts
    <3> QED BY <1>1, <1>3, <1>4, <1>5, <1>6, <1>8, <2>1, <2>3, <3>1, ReadFacts
  <2> QED BY <2>2, <2>3
<1> QED BY <1>12, <1>13
-----------------------------------------------------------------------------
(* Sequences one behind the other.                                          *)

\* Two more bytes.
LEMMA TwoMore ==
    ASSUME NEW s \in Seq(Int), NEW p \in Seq(Int), Len(p) = 2
    PROVE  /\ s \o p \in Seq(Int) /\ Len(s \o p) = Len(s) + 2
           /\ \A k \in 1 .. Len(s) : (s \o p)[k] = s[k]
           /\ (s \o p)[Len(s) + 1] = p[1] /\ (s \o p)[Len(s) + 2] = p[2]
<1> DEFINE t == s \o p
<1>1. 1 \in 1 .. Len(p) /\ 2 \in 1 .. Len(p)
  OBVIOUS
<1>2. /\ t \in Seq(Int) /\ Len(t) = Len(s) + Len(p)
      /\ \A k \in 1 .. Len(s) : t[k] = s[k]
      /\ \A k \in 1 .. Len(p) : t[Len(s) + k] = p[k]
  BY CatFacts
<1> HIDE DEF t
<1>3. t[Len(s) + 1] = p[1] /\ t[Len(s) + 2] = p[2]
  BY ONLY <1>1, <1>2
<1> QED BY <1>2, <1>3 DEF t

\* FlattenSeq puts all of them together.
LEMMA FlattenTogether ==
    ASSUME NEW n \in Nat, NEW s \in [1 .. n -> Seq(Int)], NEW g, Together(g, s, n)
    PROVE  Z!FlattenSeq(s) = g[n]
<1>0. Len(s) = n
  OBVIOUS
<1>1. CASE n = 0
  <2>1. s = <<>>
    BY <1>1
  <2> QED BY <1>0, <1>1, <2>1 DEF Z!FlattenSeq, Together
<1>2. CASE n # 0
  <2>1. Z!FlattenSeq(s) = Chosen(s, n)[n]
    BY <1>0, <1>2 DEF Z!FlattenSeq, Chosen
  <2> QED BY <1>2, <2>1, ChosenTogether
<1> QED BY <1>1, <1>2

-----------------------------------------------------------------------------
(* What open() finds in a .dict.dz file.                                    *)

\* Numbers of two and of four bytes.
LEMMA Halves ==
    ASSUME NEW v \in Nat, NEW m \in Nat \ {0}
    PROVE  v % m \in Nat /\ v \div m \in Nat /\ (v % m) + m * (v \div m) = v
OBVIOUS

\* The two bytes that are written of a number give that number.
LEMMA Low16Is ==
    ASSUME NEW v \in Nat
    PROVE  /\ Z!Low16(v) \in Seq(Int) /\ Len(Z!Low16(v)) = 2
           /\ Z!Low16(v)[1] + 256 * Z!Low16(v)[2] = v
<1>1. v % 256 \in Nat /\ v \div 256 \in Nat /\ (v % 256) + 256 * (v \div 256) = v
  BY Halves
<1>2. Z!Low16(v) = <<v % 256, v \div 256>>
  BY DEF Z!Low16
<1> QED BY <1>1, <1>2

\* And so do the four of a longer one.
LEMMA Low32Is ==
    ASSUME NEW v \in Nat
    PROVE  /\ Z!Low32(v) \in Seq(Int) /\ Len(Z!Low32(v)) = 4
           /\ (Z!Low32(v)[1] + 256 * Z!Low32(v)[2])
                + 65536 * (Z!Low32(v)[3] + 256 * Z!Low32(v)[4]) = v
<1> DEFINE a == Z!Low16(v % 65536)
           b == Z!Low16(v \div 65536)
<1>1. v % 65536 \in Nat /\ v \div 65536 \in Nat /\ (v % 65536) + 65536 * (v \div 65536) = v
  BY Halves
<1>2. /\ a \in Seq(Int) /\ Len(a) = 2 /\ a[1] + 256 * a[2] = v % 65536
      /\ b \in Seq(Int) /\ Len(b) = 2 /\ b[1] + 256 * b[2] = v \div 65536
  BY <1>1, Low16Is
<1>3. Z!Low32(v) = a \o b
  BY DEF Z!Low32
<1> HIDE DEF a, b
<1>4. /\ a \o b \in Seq(Int) /\ Len(a \o b) = 4
      /\ (a \o b)[1] = a[1] /\ (a \o b)[2] = a[2] /\ (a \o b)[3] = b[1] /\ (a \o b)[4] = b[2]
  <2>1. 1 \in 1 .. 2 /\ 2 \in 1 .. 2 /\ 2 + 1 = 3 /\ 2 + 2 = 4
    OBVIOUS
  <2>2. /\ a \o b \in Seq(Int) /\ Len(a \o b) = Len(a) + Len(b)
        /\ \A k \in 1 .. Len(a) : (a \o b)[k] = a[k]
        /\ \A k \in 1 .. Len(b) : (a \o b)[Len(a) + k] = b[k]
    <3>1. a \in Seq(Int) /\ b \in Seq(Int)
      BY <1>2
    <3> QED BY ONLY <3>1, CatFacts
  <2>3. Len(a) = 2 /\ Len(b) = 2
    BY <1>2
  <2> QED BY ONLY <2>1, <2>2, <2>3
<1> DEFINE w == a \o b
<1>5. (w[1] + 256 * w[2]) + 65536 * (w[3] + 256 * w[4]) = v
  <2> DEFINE lo == v % 65536
             hi == v \div 65536
  <2>1. a[1] + 256 * a[2] = lo /\ b[1] + 256 * b[2] = hi
    BY <1>2
  <2>2. lo + 65536 * hi = v
    BY <1>1
  <2>3. w[1] = a[1] /\ w[2] = a[2] /\ w[3] = b[1] /\ w[4] = b[2]
    BY <1>4
  <2> HIDE DEF w, lo, hi
  <2> QED BY ONLY <2>1, <2>2, <2>3
<1> HIDE DEF w
<1>6. Z!Low32(v) = w /\ w \in Seq(Int) /\ Len(w) = 4
  BY <1>3, <1>4 DEF w
<1> QED BY <1>5, <1>6

\* A chunk, compressed, is one or two bytes.
LEMMA DeflatedIs ==
    ASSUME NEW c \in Nat
    PROVE  Z!Deflated(c) \in Seq(Int) /\ Len(Z!Deflated(c)) \in Nat
<1> DEFINE z == [k \in 1 .. c % 2 |-> 0]
<1>1. c % 2 \in Nat
  OBVIOUS
<1>2. z \in Seq(Int) /\ <<200 + c>> \in Seq(Int)
  BY <1>1
<1> HIDE DEF z
<1>3. <<200 + c>> \o z \in Seq(Int)
  BY <1>2
<1> QED BY <1>3 DEF Z!Deflated, z

\* The string at a place of a file ends with the first zero.
LEMMA StringEnds ==
    ASSUME NEW f \in Seq(Int), NEW at \in Nat, NEW n \in Nat, at + n < Len(f),
           f[at + n + 1] = 0, \A k \in 1 .. n : f[at + k] # 0
    PROVE  Z!StringLength(f, at) = n
<1> DEFINE Ends(k) == Z!GetC(f, k) = 0 /\ \A m \in at .. k - 1 : Z!GetC(f, m) # 0
           e == CHOOSE k \in at .. Len(f) - 1 : Ends(k)
<1>1. \A k \in at .. at + n : Z!GetC(f, k) = f[k + 1]
  BY DEF Z!GetC
<1>2. at + n \in at .. Len(f) - 1 /\ Z!GetC(f, at + n) = 0
  BY <1>1
<1>3. \A k \in at .. at + n - 1 : Z!GetC(f, k) # 0
  <2>1. ASSUME NEW k \in at .. at + n - 1 PROVE Z!GetC(f, k) # 0
    <3>1. (k - at) + 1 \in 1 .. n /\ at + ((k - at) + 1) = k + 1 /\ k \in at .. at + n
      OBVIOUS
    <3> QED BY <1>1, <3>1
  <2> QED BY <2>1
<1>4. Ends(at + n)
  BY <1>2, <1>3
<1>5. \A k \in at .. Len(f) - 1 : Ends(k) => k = at + n
  BY <1>2, <1>3
<1>6. Z!StringLength(f, at) = e - at
  BY DEF Z!StringLength
<1> HIDE DEF Ends
<1>7. e = at + n
  BY <1>2, <1>4, <1>5
<1> HIDE DEF e
<1> QED BY <1>6, <1>7

\* The places of the chunks, as read_header() adds their sizes up.
LEMMA OffsetsAddUp ==
    ASSUME NEW f, NEW n \in Nat, Z!Get16(f, 20) = n, NEW g,
           g[0] = Z!HeaderLength(f) + 1,
           \A c \in 1 .. n : g[c] = g[c - 1] + Z!ChunkSizes(f)[c - 1]
    PROVE  \A c \in 0 .. n - 1 : Z!Offsets(f)[c] = g[c]
<1> DEFINE sizes == Z!ChunkSizes(f)
           first == Z!HeaderLength(f) + 1
           Is(h) == h = [c \in 0 .. Z!Get16(f, 20) |->
                         IF c = 0 THEN first ELSE h[c - 1] + sizes[c - 1]]
           o == CHOOSE h : Is(h)
           r == [c \in 0 .. n |-> g[c]]
<1>1. DOMAIN sizes = 0 .. n - 1
  BY DEF Z!ChunkSizes
<1>2. Z!Offsets(f) = [c \in 0 .. n - 1 |-> o[c]]
  BY <1>1 DEF Z!Offsets
<1> HIDE DEF sizes, first
<1>3. \A c \in 0 .. n : r[c] = IF c = 0 THEN first ELSE r[c - 1] + sizes[c - 1]
  <2>1. \A c \in 0 .. n : r[c] = g[c]
    OBVIOUS
  <2>2. \A c \in 0 .. n : c # 0 => c \in 1 .. n /\ c - 1 \in 0 .. n
    OBVIOUS
  <2> HIDE DEF r
  <2>3. g[0] = first /\ \A c \in 1 .. n : g[c] = g[c - 1] + sizes[c - 1]
    BY DEF sizes, first
  <2> QED BY <2>1, <2>2, <2>3
<1>4. Is(r)
  BY <1>3
<1>5. Is(o)
  BY <1>4
<1>6. \A c \in 0 .. n : o[c] = IF c = 0 THEN first ELSE o[c - 1] + sizes[c - 1]
  BY <1>5
<1> HIDE DEF o, r, Is
<1>7. ASSUME NEW c \in 0 .. n - 1 PROVE o[c] = g[c]
  <2> DEFINE S == { k \in Nat : k <= c => o[k] = g[k] }
  <2>1. 0 \in S
    BY <1>6 DEF first
  <2>2. ASSUME NEW k \in 0 .. c - 1, k \in S PROVE k + 1 \in S
    <3>1. o[k] = g[k]
      BY <2>2
    <3>2. k + 1 \in 1 .. n /\ k + 1 \in 0 .. n /\ k + 1 # 0 /\ (k + 1) - 1 = k /\ k + 1 \in Nat
      OBVIOUS
    <3>3. o[k + 1] = o[k] + sizes[k] /\ g[k + 1] = g[k] + sizes[k]
      BY <1>6, <3>2 DEF sizes
    <3>4. o[k + 1] = g[k + 1]
      BY <3>1, <3>3
    <3> QED BY <3>2, <3>4
  <2> HIDE DEF S
  <2>3. c \in Nat
    OBVIOUS
  <2>4. c \in S
    BY <2>1, <2>2, <2>3, UpTo
  <2> QED BY <2>3, <2>4 DEF S
<1> QED BY <1>2, <1>7
-----------------------------------------------------------------------------
(* The parts of the file that dictzip writes.                               *)

Start(n, chunkLength, flags) ==
    <<31, 139, 8, flags, 0, 0, 0, 0, 2, 3>> \o Z!Low16(10 + 2 * n) \o <<82, 65>>
    \o Z!Low16(6 + 2 * n) \o Z!Low16(1) \o Z!Low16(chunkLength) \o Z!Low16(n)
SizesOf(n) == [c \in 1 .. n |-> Z!Low16(Len(Z!Deflated(c - 1)))]
ChunksOf(n) == [c \in 1 .. n |-> Z!Deflated(c - 1)]
Name(flags) == IF Z!HasFlag(flags, 8) THEN <<100, 105, 0>> ELSE <<>>
Comment(flags) == IF Z!HasFlag(flags, 16) THEN <<99, 0>> ELSE <<>>
Checksum(flags) == IF Z!HasFlag(flags, 2) THEN <<7, 7>> ELSE <<>>

\* The bytes of fixed place.
LEMMA StartIs ==
    ASSUME NEW n \in Nat, NEW chunkLength \in Nat, NEW flags \in Int
    PROVE  LET s == Start(n, chunkLength, flags) IN
           /\ s \in Seq(Int) /\ Len(s) = 22
           /\ s[1] = 31 /\ s[2] = 139 /\ s[4] = flags
           /\ s[11] + 256 * s[12] = 10 + 2 * n
           /\ s[19] + 256 * s[20] = chunkLength
           /\ s[21] + 256 * s[22] = n
<1> DEFINE s0 == <<31, 139, 8, flags, 0, 0, 0, 0, 2, 3>>
           p1 == Z!Low16(10 + 2 * n)
           p2 == <<82, 65>>
           p3 == Z!Low16(6 + 2 * n)
           p4 == Z!Low16(1)
           p5 == Z!Low16(chunkLength)
           p6 == Z!Low16(n)
           s1 == s0 \o p1
           s2 == s1 \o p2
           s3 == s2 \o p3
           s4 == s3 \o p4
           s5 == s4 \o p5
           s6 == s5 \o p6
<1>0. Start(n, chunkLength, flags) = s6
  BY DEF Start
<1>1. s0 \in Seq(Int) /\ Len(s0) = 10 /\ s0[1] = 31 /\ s0[2] = 139 /\ s0[4] = flags
  OBVIOUS
<1>2. p2 \in Seq(Int) /\ Len(p2) = 2
  OBVIOUS
<1>3. 10 + 2 * n \in Nat /\ 6 + 2 * n \in Nat /\ 1 \in Nat
  OBVIOUS
<1>4. /\ p1 \in Seq(Int) /\ Len(p1) = 2 /\ p1[1] + 256 * p1[2] = 10 + 2 * n
      /\ p3 \in Seq(Int) /\ Len(p3) = 2
      /\ p4 \in Seq(Int) /\ Len(p4) = 2
      /\ p5 \in Seq(Int) /\ Len(p5) = 2 /\ p5[1] + 256 * p5[2] = chunkLength
      /\ p6 \in Seq(Int) /\ Len(p6) = 2 /\ p6[1] + 256 * p6[2] = n
  BY <1>3, Low16Is
<1> HIDE DEF s0, p1, p2, p3, p4, p5, p6
<1>5. /\ s1 \in Seq(Int) /\ Len(s1) = 12 /\ s1[11] = p1[1] /\ s1[12] = p1[2]
      /\ \A k \in 1 .. 10 : s1[k] = s0[k]
  <2>1. s0 \in Seq(Int) /\ p1 \in Seq(Int) /\ Len(p1) = 2
    BY <1>1, <1>4
  <2>2. /\ s1 \in Seq(Int) /\ Len(s1) = Len(s0) + 2
        /\ \A k \in 1 .. Len(s0) : s1[k] = s0[k]
        /\ s1[Len(s0) + 1] = p1[1] /\ s1[Len(s0) + 2] = p1[2]
    BY ONLY <2>1, TwoMore
  <2>3. Len(s0) = 10
    BY <1>1
  <2> HIDE DEF s1
  <2> QED BY <2>2, <2>3
<1> HIDE DEF s1
<1>6. /\ s2 \in Seq(Int) /\ Len(s2) = 14 /\ s2[13] = p2[1] /\ s2[14] = p2[2]
      /\ \A k \in 1 .. 12 : s2[k] = s1[k]
  <2>1. s1 \in Seq(Int) /\ p2 \in Seq(Int) /\ Len(p2) = 2
    BY <1>5, <1>2
  <2>2. /\ s2 \in Seq(Int) /\ Len(s2) = Len(s1) + 2
        /\ \A k \in 1 .. Len(s1) : s2[k] = s1[k]
        /\ s2[Len(s1) + 1] = p2[1] /\ s2[Len(s1) + 2] = p2[2]
    BY ONLY <2>1, TwoMore
  <2>3. Len(s1) = 12
    BY <1>5
  <2> HIDE DEF s2
  <2> QED BY <2>2, <2>3
<1> HIDE DEF s2
<1>7. /\ s3 \in Seq(Int) /\ Len(s3) = 16 /\ s3[15] = p3[1] /\ s3[16] = p3[2]
      /\ \A k \in 1 .. 14 : s3[k] = s2[k]
  <2>1. s2 \in Seq(Int) /\ p3 \in Seq(Int) /\ Len(p3) = 2
    BY <1>6, <1>4
  <2>2. /\ s3 \in Seq(Int) /\ Len(s3) = Len(s2) + 2
        /\ \A k \in 1 .. Len(s2) : s3[k] = s2[k]
        /\ s3[Len(s2) + 1] = p3[1] /\ s3[Len(s2) + 2] = p3[2]
    BY ONLY <2>1, TwoMore
  <2>3. Len(s2) = 14
    BY <1>6
  <2> HIDE DEF s3
  <2> QED BY <2>2, <2>3
<1> HIDE DEF s3
<1>8. /\ s4 \in Seq(Int) /\ Len(s4) = 18 /\ s4[17] = p4[1] /\ s4[18] = p4[2]
      /\ \A k \in 1 .. 16 : s4[k] = s3[k]
  <2>1. s3 \in Seq(Int) /\ p4 \in Seq(Int) /\ Len(p4) = 2
    BY <1>7, <1>4
  <2>2. /\ s4 \in Seq(Int) /\ Len(s4) = Len(s3) + 2
        /\ \A k \in 1 .. Len(s3) : s4[k] = s3[k]
        /\ s4[Len(s3) + 1] = p4[1] /\ s4[Len(s3) + 2] = p4[2]
    BY ONLY <2>1, TwoMore
  <2>3. Len(s3) = 16
    BY <1>7
  <2> HIDE DEF s4
  <2> QED BY <2>2, <2>3
<1> HIDE DEF s4
<1>9. /\ s5 \in Seq(Int) /\ Len(s5) = 20 /\ s5[19] = p5[1] /\ s5[20] = p5[2]
      /\ \A k \in 1 .. 18 : s5[k] = s4[k]
  <2>1. s4 \in Seq(Int) /\ p5 \in Seq(Int) /\ Len(p5) = 2
    BY <1>8, <1>4
  <2>2. /\ s5 \in Seq(Int) /\ Len(s5) = Len(s4) + 2
        /\ \A k \in 1 .. Len(s4) : s5[k] = s4[k]
        /\ s5[Len(s4) + 1] = p5[1] /\ s5[Len(s4) + 2] = p5[2]
    BY ONLY <2>1, TwoMore
  <2>3. Len(s4) = 18
    BY <1>8
  <2> HIDE DEF s5
  <2> QED BY <2>2, <2>3
<1> HIDE DEF s5
<1>10. /\ s6 \in Seq(Int) /\ Len(s6) = 22 /\ s6[21] = p6[1] /\ s6[22] = p6[2]
      /\ \A k \in 1 .. 20 : s6[k] = s5[k]
  <2>1. s5 \in Seq(Int) /\ p6 \in Seq(Int) /\ Len(p6) = 2
    BY <1>9, <1>4
  <2>2. /\ s6 \in Seq(Int) /\ Len(s6) = Len(s5) + 2
        /\ \A k \in 1 .. Len(s5) : s6[k] = s5[k]
        /\ s6[Len(s5) + 1] = p6[1] /\ s6[Len(s5) + 2] = p6[2]
    BY ONLY <2>1, TwoMore
  <2>3. Len(s5) = 20
    BY <1>9
  <2> HIDE DEF s6
  <2> QED BY <2>2, <2>3
<1> HIDE DEF s6
<1>11. ASSUME NEW k \in 1 .. 10 PROVE s6[k] = s0[k]
  <2>1. k \in 1 .. 12 /\ k \in 1 .. 14 /\ k \in 1 .. 16 /\ k \in 1 .. 18 /\ k \in 1 .. 20
    OBVIOUS
  <2>2. s1[k] = s0[k] /\ s2[k] = s1[k] /\ s3[k] = s2[k]
    BY <2>1, <1>5, <1>6, <1>7
  <2>3. s4[k] = s3[k] /\ s5[k] = s4[k] /\ s6[k] = s5[k]
    BY <2>1, <1>8, <1>9, <1>10
  <2> QED BY <2>2, <2>3
<1>12. s6[11] = p1[1] /\ s6[12] = p1[2] /\ s6[19] = p5[1] /\ s6[20] = p5[2]
  <2>1. ASSUME NEW k \in 11 .. 12 PROVE s6[k] = s1[k]
    <3>1. k \in 1 .. 12 /\ k \in 1 .. 14 /\ k \in 1 .. 16 /\ k \in 1 .. 18 /\ k \in 1 .. 20
      OBVIOUS
    <3>2. s2[k] = s1[k] /\ s3[k] = s2[k] /\ s4[k] = s3[k]
      BY <3>1, <1>6, <1>7, <1>8
    <3>3. s5[k] = s4[k] /\ s6[k] = s5[k]
      BY <3>1, <1>9, <1>10
    <3> QED BY <3>2, <3>3
  <2>2. s6[11] = s1[11] /\ s6[12] = s1[12]
    BY <2>1
  <2>3. s6[19] = s5[19] /\ s6[20] = s5[20]
    BY <1>10
  <2> QED BY <2>2, <2>3, <1>5, <1>9
<1>13. s6[1] = 31 /\ s6[2] = 139 /\ s6[4] = flags
  BY <1>1, <1>11
<1>14. s6[11] + 256 * s6[12] = 10 + 2 * n /\ s6[19] + 256 * s6[20] = chunkLength
       /\ s6[21] + 256 * s6[22] = n
  BY <1>4, <1>10, <1>12
<1> QED BY <1>0, <1>10, <1>13, <1>14

\* The sizes of the chunks, two bytes each.
LEMMA SizesAre ==
    ASSUME NEW n \in Nat
    PROVE  /\ Z!FlattenSeq(SizesOf(n)) \in Seq(Int) /\ Len(Z!FlattenSeq(SizesOf(n))) = 2 * n
           /\ \A c \in 0 .. n - 1 :
                Z!FlattenSeq(SizesOf(n))[2 * c + 1] + 256 * Z!FlattenSeq(SizesOf(n))[2 * c + 2]
                    = Len(Z!Deflated(c))
<1> DEFINE s == SizesOf(n)
<1>1. /\ s \in [1 .. n -> Seq(Int)]
      /\ \A c \in 1 .. n : /\ s[c] \in Seq(Int) /\ Len(s[c]) = 2
                           /\ s[c][1] + 256 * s[c][2] = Len(Z!Deflated(c - 1))
  <2>1. \A c \in 1 .. n : s[c] = Z!Low16(Len(Z!Deflated(c - 1))) /\ c - 1 \in Nat
    BY DEF SizesOf
  <2>2. ASSUME NEW c \in 1 .. n
        PROVE  /\ s[c] \in Seq(Int) /\ Len(s[c]) = 2
               /\ s[c][1] + 256 * s[c][2] = Len(Z!Deflated(c - 1))
    <3>1. Len(Z!Deflated(c - 1)) \in Nat
      BY <2>1, DeflatedIs
    <3> DEFINE v == Len(Z!Deflated(c - 1))
    <3>2. s[c] = Z!Low16(v)
      BY <2>1
    <3> HIDE DEF v
    <3>3. v \in Nat
      BY <3>1 DEF v
    <3>4. /\ Z!Low16(v) \in Seq(Int) /\ Len(Z!Low16(v)) = 2
          /\ Z!Low16(v)[1] + 256 * Z!Low16(v)[2] = v
      BY ONLY <3>3, Low16Is
    <3> QED BY <3>2, <3>4 DEF v
  <2>3. s = [c \in 1 .. n |-> s[c]]
    BY DEF SizesOf
  <2> HIDE DEF s
  <2> QED BY <2>2, <2>3
<1> HIDE DEF s
<1>2. PICK g : Together(g, s, n)
  BY <1>1, TogetherExists
<1>3. Z!FlattenSeq(s) = g[n]
  BY <1>1, <1>2, FlattenTogether
<1>4. ASSUME NEW c \in 0 .. n PROVE Len(g[c]) = 2 * c
  <2> DEFINE S == { k \in Nat : k <= n => Len(g[k]) = 2 * k }
  <2>1. 0 \in S
    <3>1. g[0] = <<>>
      BY <1>2 DEF Together
    <3> QED BY <3>1
  <2>2. ASSUME NEW k \in 0 .. c - 1, k \in S PROVE k + 1 \in S
    <3>1. k + 1 \in 1 .. n /\ (k + 1) - 1 = k /\ k \in 0 .. n /\ k + 1 \in Nat
      OBVIOUS
    <3>2. g[k + 1] = g[k] \o s[k + 1] /\ g[k] \in Seq(Int) /\ s[k + 1] \in Seq(Int)
      BY <1>1, <1>2, <3>1 DEF Together
    <3>3. Len(g[k + 1]) = Len(g[k]) + 2
      <4> DEFINE a == g[k]
                 b == s[k + 1]
      <4>1. a \in Seq(Int) /\ b \in Seq(Int) /\ Len(b) = 2 /\ g[k + 1] = a \o b
        BY <1>1, <3>1, <3>2
      <4> HIDE DEF a, b
      <4>2. Len(a \o b) = Len(a) + Len(b)
        BY ONLY <4>1, CatFacts
      <4>3. Len(g[k + 1]) = Len(a) + 2
        BY <4>1, <4>2
      <4> QED BY <4>3 DEF a
    <3>4. Len(g[k]) = 2 * k
      BY <2>2, <3>1
    <3>5. Len(g[k + 1]) = 2 * (k + 1)
      BY <3>3, <3>4
    <3> QED BY <3>1, <3>5
  <2> HIDE DEF S
  <2>3. c \in Nat
    OBVIOUS
  <2>4. c \in S
    BY <2>1, <2>2, <2>3, UpTo
  <2> QED BY <2>3, <2>4 DEF S
<1>5. g[n] \in Seq(Int)
  BY <1>2 DEF Together
<1>6. ASSUME NEW c \in 0 .. n - 1
      PROVE  g[n][2 * c + 1] + 256 * g[n][2 * c + 2] = Len(Z!Deflated(c))
  <2>1. c + 1 \in 1 .. n /\ (c + 1) - 1 = c /\ c \in 0 .. n
    OBVIOUS
  <2>2. \A p \in 1 .. Len(s[c + 1]) : g[n][Len(g[(c + 1) - 1]) + p] = s[c + 1][p]
    <3> DEFINE k == c + 1
    <3>1. k \in 1 .. n
      BY <2>1
    <3>2. s \in [1 .. n -> Seq(Int)]
      BY <1>1
    <3> HIDE DEF k
    <3>3. FoundIn(g[n], Len(g[k - 1]), s[k])
      BY ONLY n \in Nat, <1>2, <3>1, <3>2, EachIsFound
    <3> QED BY <3>3 DEF FoundIn, k
  <2>3. Len(g[c]) = 2 * c /\ Len(s[c + 1]) = 2
    BY <1>1, <1>4, <2>1
  <2>4. g[n][2 * c + 1] = s[c + 1][1] /\ g[n][2 * c + 2] = s[c + 1][2]
    BY <2>1, <2>2, <2>3
  <2>5. s[c + 1][1] + 256 * s[c + 1][2] = Len(Z!Deflated((c + 1) - 1))
    BY <1>1, <2>1
  <2> QED BY <2>1, <2>4, <2>5
<1>7. Len(g[n]) = 2 * n
  BY <1>4
<1> QED BY <1>3, <1>5, <1>6, <1>7 DEF s

\* Where the parts of the file are.
WellPlaced(f, len, chunkLength, flags, n, name, comment, crc, chunks) ==
    /\ f \in Seq(Int) /\ FoundIn(f, 0, Start(n, chunkLength, flags))
    /\ FoundIn(f, 22, Z!FlattenSeq(SizesOf(n)))
    /\ FoundIn(f, 22 + 2 * n, name)
    /\ FoundIn(f, 22 + 2 * n + Len(name), comment)
    /\ FoundIn(f, 22 + 2 * n + Len(name) + Len(comment) + Len(crc), chunks)
    /\ Len(f) >= 22 + 2 * n + Len(name) + Len(comment) + Len(crc)
    /\ FoundIn(f, Len(f) - 4, Z!Low32(len))

\* What is found where in a file.
LEMMA FileIs ==
    ASSUME NEW len \in Nat, NEW chunkLength \in Nat, NEW flags \in Int,
           NEW n \in Nat, n = Z!CountOfChunks(len, chunkLength),
           NEW f, f = Z!DzFile(len, chunkLength, flags),
           NEW name, name = Name(flags), NEW comment, comment = Comment(flags),
           NEW crc, crc = Checksum(flags), NEW chunks, chunks = Z!FlattenSeq(ChunksOf(n)),
           chunks \in Seq(Int)
    PROVE  WellPlaced(f, len, chunkLength, flags, n, name, comment, crc, chunks)
<1> DEFINE q1 == Start(n, chunkLength, flags)
           sizes == Z!FlattenSeq(SizesOf(n))
           empty == <<3, 0>>
           sum == <<9, 9, 9, 9>>
           size == Z!Low32(len)
           q2 == q1 \o sizes
           q3 == q2 \o name
           q4 == q3 \o comment
           q5 == q4 \o crc
           q6 == q5 \o chunks
           q7 == q6 \o empty
           q8 == q7 \o sum
           q9 == q8 \o size
<1>1. f = q9
  <2> DEFINE k == Z!CountOfChunks(len, chunkLength)
  <2>1. f = Start(k, chunkLength, flags) \o Z!FlattenSeq(SizesOf(k)) \o Name(flags)
            \o Comment(flags) \o Checksum(flags) \o Z!FlattenSeq(ChunksOf(k))
            \o <<3, 0>> \o <<9, 9, 9, 9>> \o Z!Low32(len)
    BY DEF Z!DzFile, Z!Concat, Start, SizesOf, ChunksOf, Name, Comment, Checksum, Z!GZ_MAGIC1,
       Z!GZ_MAGIC2, Z!GZ_RND_S1, Z!GZ_RND_S2, Z!GZ_FNAME, Z!GZ_COMMENT, Z!GZ_FHCRC
  <2>2. k = n
    OBVIOUS
  <2> HIDE DEF k
  <2> QED
    BY <2>1, <2>2
<1>2. /\ q1 \in Seq(Int) /\ Len(q1) = 22
      /\ sizes \in Seq(Int) /\ Len(sizes) = 2 * n
      /\ size \in Seq(Int) /\ Len(size) = 4
  <2>1. q1 \in Seq(Int) /\ Len(q1) = 22
    BY StartIs
  <2>2. sizes \in Seq(Int) /\ Len(sizes) = 2 * n
    BY SizesAre
  <2>3. size \in Seq(Int) /\ Len(size) = 4
    BY Low32Is
  <2> HIDE DEF q1, sizes, size
  <2> QED BY <2>1, <2>2, <2>3
<1>3. name \in Seq(Int) /\ comment \in Seq(Int) /\ crc \in Seq(Int)
      /\ empty \in Seq(Int) /\ sum \in Seq(Int)
  BY DEF Name, Comment, Checksum
<1> HIDE DEF q1, sizes, empty, sum, size
<1>4. /\ q2 \in Seq(Int) /\ Len(q2) = Len(q1) + Len(sizes)
      /\ FoundIn(q2, 0, q1) /\ FoundIn(q2, Len(q1), sizes)
  BY ONLY <1>2, FoundBehind
<1> HIDE DEF q2
<1>5. /\ q3 \in Seq(Int) /\ Len(q3) = Len(q2) + Len(name)
      /\ FoundIn(q3, 0, q2) /\ FoundIn(q3, Len(q2), name)
  BY ONLY <1>3, <1>4, FoundBehind
<1> HIDE DEF q3
<1>6. /\ q4 \in Seq(Int) /\ Len(q4) = Len(q3) + Len(comment)
      /\ FoundIn(q4, 0, q3) /\ FoundIn(q4, Len(q3), comment)
  BY ONLY <1>3, <1>5, FoundBehind
<1> HIDE DEF q4
<1>7. /\ q5 \in Seq(Int) /\ Len(q5) = Len(q4) + Len(crc)
      /\ FoundIn(q5, 0, q4)
  BY ONLY <1>3, <1>6, FoundBehind
<1> HIDE DEF q5
<1>8. /\ q6 \in Seq(Int) /\ Len(q6) = Len(q5) + Len(chunks)
      /\ FoundIn(q6, 0, q5) /\ FoundIn(q6, Len(q5), chunks)
  BY ONLY chunks \in Seq(Int), <1>7, FoundBehind
<1> HIDE DEF q6
<1>9. q7 \in Seq(Int) /\ FoundIn(q7, 0, q6) /\ Len(q7) = Len(q6) + Len(empty)
  BY ONLY <1>3, <1>8, FoundBehind
<1> HIDE DEF q7
<1>10. q8 \in Seq(Int) /\ FoundIn(q8, 0, q7) /\ Len(q8) = Len(q7) + Len(sum)
  BY ONLY <1>3, <1>9, FoundBehind
<1> HIDE DEF q8
<1>11. /\ q9 \in Seq(Int) /\ Len(q9) = Len(q8) + Len(size)
       /\ FoundIn(q9, 0, q8) /\ FoundIn(q9, Len(q8), size)
  BY ONLY <1>2, <1>10, FoundBehind
<1> HIDE DEF q9
<1>12. \A q, in, p : FoundIn(q9, 0, q) /\ FoundIn(q, in, p) => FoundIn(q9, in, p)
  <2>1. ASSUME NEW q, NEW in, NEW p, FoundIn(q9, 0, q), FoundIn(q, in, p)
        PROVE  FoundIn(q9, in, p)
    <3>1. FoundIn(q9, 0 + in, p)
      BY ONLY <2>1, PartOfPart
    <3>2. in \in Nat
      BY <2>1 DEF FoundIn
    <3>3. 0 + in = in
      BY <3>2
    <3> QED BY <3>1, <3>3
  <2> QED BY <2>1
<1>13. FoundIn(q9, 0, q7) /\ FoundIn(q9, 0, q6)
  BY <1>9, <1>10, <1>11, <1>12
<1>14. FoundIn(q9, 0, q5) /\ FoundIn(q9, 0, q4)
  BY <1>7, <1>8, <1>12, <1>13
<1>15. FoundIn(q9, 0, q3) /\ FoundIn(q9, 0, q2)
  BY <1>5, <1>6, <1>12, <1>14
<1>16. /\ FoundIn(q9, 0, q1) /\ FoundIn(q9, Len(q1), sizes) /\ FoundIn(q9, Len(q2), name)
       /\ FoundIn(q9, Len(q3), comment) /\ FoundIn(q9, Len(q5), chunks)
  BY <1>4, <1>5, <1>6, <1>8, <1>12, <1>13, <1>14, <1>15
<1>17. Len(name) \in Nat /\ Len(comment) \in Nat /\ Len(crc) \in Nat /\ Len(chunks) \in Nat
       /\ Len(q5) \in Nat /\ Len(q8) \in Nat /\ Len(q9) \in Nat
  BY <1>3, <1>7, <1>10, <1>11
<1>18. /\ Len(q2) = 22 + 2 * n /\ Len(q3) = 22 + 2 * n + Len(name)
       /\ Len(q5) = 22 + 2 * n + Len(name) + Len(comment) + Len(crc)
  BY <1>2, <1>4, <1>5, <1>6, <1>7, <1>17
<1>19. Len(q5) <= Len(q9)
  BY <1>14, <1>17 DEF FoundIn
<1>20. Len(q8) = Len(q9) - 4
  BY <1>2, <1>11, <1>17
<1> QED BY <1>1, <1>2, <1>11, <1>16, <1>18, <1>19, <1>20 DEF WellPlaced, q1, sizes, size
-----------------------------------------------------------------------------
(* What read_header() makes of it.                                          *)

\* A number of two bytes in a part of a file.
LEMMA Get16Is ==
    ASSUME NEW f, NEW at, NEW part, FoundIn(f, at, part),
           NEW p \in Nat \ {0}, p + 1 <= Len(part)
    PROVE  /\ Z!GetC(f, at + p - 1) = part[p]
           /\ Z!Get16(f, at + p - 1) = part[p] + 256 * part[p + 1]
<1>1. /\ at \in Nat /\ Len(part) \in Nat /\ Len(f) \in Nat /\ at + Len(part) <= Len(f)
      /\ p \in 1 .. Len(part) /\ p + 1 \in 1 .. Len(part)
  BY DEF FoundIn
<1>2. f[at + p] = part[p] /\ f[at + (p + 1)] = part[p + 1]
  BY <1>1 DEF FoundIn
<1>3. /\ at + p - 1 < Len(f) /\ (at + p - 1) + 1 = at + p
      /\ (at + p - 1) + 1 < Len(f) /\ ((at + p - 1) + 1) + 1 = at + (p + 1)
  BY <1>1
<1>4. Z!GetC(f, at + p - 1) = part[p]
  BY <1>2, <1>3 DEF Z!GetC
<1>5. Z!GetC(f, (at + p - 1) + 1) = part[p + 1]
  BY <1>2, <1>3 DEF Z!GetC
<1> QED BY <1>4, <1>5 DEF Z!Get16

\* The strings that may follow the sizes of the chunks.
LEMMA NamesEnd ==
    ASSUME NEW f, NEW at, NEW flags
    PROVE  /\ Z!HasFlag(flags, 8) /\ FoundIn(f, at, Name(flags))
                => Z!StringLength(f, at) \in Nat /\ Z!StringLength(f, at) + 1 = Len(Name(flags))
           /\ Z!HasFlag(flags, 16) /\ FoundIn(f, at, Comment(flags))
                => Z!StringLength(f, at) \in Nat /\ Z!StringLength(f, at) + 1 = Len(Comment(flags))
<1>1. ASSUME Z!HasFlag(flags, 8), FoundIn(f, at, Name(flags))
      PROVE  Z!StringLength(f, at) \in Nat /\ Z!StringLength(f, at) + 1 = Len(Name(flags))
  <2>1. Name(flags) = <<100, 105, 0>>
    BY <1>1 DEF Name
  <2>2. Len(Name(flags)) = 3 /\ Name(flags)[1] = 100 /\ Name(flags)[2] = 105 /\ Name(flags)[3] = 0
    BY <2>1
  <2>3. /\ f \in Seq(Int) /\ at \in Nat /\ at + 3 <= Len(f)
        /\ \A p \in 1 .. 3 : f[at + p] = Name(flags)[p]
    BY <1>1, <2>2 DEF FoundIn
  <2>4. f[at + 1] = 100 /\ f[at + 2] = 105 /\ f[at + 3] = 0
    BY <2>2, <2>3
  <2>5. /\ at + 2 < Len(f) /\ at + 2 + 1 = at + 3 /\ 2 \in Nat
        /\ \A k \in 1 .. 2 : k = 1 \/ k = 2
    BY <2>3
  <2>6. f[at + 2 + 1] = 0 /\ \A k \in 1 .. 2 : f[at + k] # 0
    BY <2>4, <2>5
  <2>7. Z!StringLength(f, at) = 2
    BY <2>3, <2>5, <2>6, StringEnds
  <2> QED BY <2>2, <2>7
<1>2. ASSUME Z!HasFlag(flags, 16), FoundIn(f, at, Comment(flags))
      PROVE  Z!StringLength(f, at) \in Nat /\ Z!StringLength(f, at) + 1 = Len(Comment(flags))
  <2>1. Comment(flags) = <<99, 0>>
    BY <1>2 DEF Comment
  <2>2. Len(Comment(flags)) = 2 /\ Comment(flags)[1] = 99 /\ Comment(flags)[2] = 0
    BY <2>1
  <2>3. /\ f \in Seq(Int) /\ at \in Nat /\ at + 2 <= Len(f)
        /\ \A p \in 1 .. 2 : f[at + p] = Comment(flags)[p]
    BY <1>2, <2>2 DEF FoundIn
  <2>4. f[at + 1] = 99 /\ f[at + 2] = 0
    BY <2>2, <2>3
  <2>5. at + 1 < Len(f) /\ at + 1 + 1 = at + 2 /\ 1 \in Nat /\ \A k \in 1 .. 1 : k = 1
    BY <2>3
  <2>6. f[at + 1 + 1] = 0 /\ \A k \in 1 .. 1 : f[at + k] # 0
    BY <2>4, <2>5
  <2>7. Z!StringLength(f, at) = 1
    BY <2>3, <2>5, <2>6, StringEnds
  <2> QED BY <2>2, <2>7
<1> QED BY <1>1, <1>2

\* The header that read_header() returns for a file of dictzip.
LEMMA ReadsHeader ==
    ASSUME NEW len \in Nat, NEW chunkLength \in Nat \ {0}, NEW flags \in Int,
           NEW n \in Nat, n = Z!CountOfChunks(len, chunkLength),
           NEW f, f = Z!DzFile(len, chunkLength, flags),
           NEW h, h = Z!ReadHeader(f)
    PROVE  /\ h.type = "DICT_DZIP" /\ h.length = len
           /\ h.chunkLength = chunkLength /\ h.chunkCount = n
           /\ \A c \in 0 .. n - 1 :
                SubSeq(f, h.offsets[c] + 1, h.offsets[c] + h.chunks[c]) = Z!Deflated(c)
<1> DEFINE name == Name(flags)
           comment == Comment(flags)
           crc == Checksum(flags)
           parts == ChunksOf(n)
           chunks == Z!FlattenSeq(parts)
           start == Start(n, chunkLength, flags)
           sizes == Z!FlattenSeq(SizesOf(n))
           first == 22 + 2 * n + Len(name) + Len(comment) + Len(crc)
           size == Z!Low32(len)
\* The chunks, one behind the other.
<1>1. /\ parts \in [1 .. n -> Seq(Int)]
      /\ \A c \in 1 .. n : parts[c] = Z!Deflated(c - 1) /\ Len(parts[c]) \in Nat
  <2>1. \A c \in 1 .. n : Z!Deflated(c - 1) \in Seq(Int)
    <3>1. \A c \in 1 .. n : c - 1 \in Nat
      OBVIOUS
    <3> QED BY <3>1, DeflatedIs
  <2>2. parts \in [1 .. n -> Seq(Int)] /\ \A c \in 1 .. n : parts[c] = Z!Deflated(c - 1)
    BY <2>1 DEF ChunksOf
  <2> HIDE DEF parts
  <2> QED BY <2>2
<1> HIDE DEF parts
<1>2. PICK g : Together(g, parts, n)
  BY <1>1, TogetherExists
<1>3. chunks = g[n] /\ chunks \in Seq(Int)
  <2>1. chunks = g[n]
    BY <1>1, <1>2, FlattenTogether
  <2>2. g[n] \in Seq(Int)
    BY <1>2 DEF Together
  <2> HIDE DEF chunks
  <2> QED BY <2>1, <2>2
\* Where everything is in the file.
<1>4. /\ f \in Seq(Int) /\ FoundIn(f, 0, start) /\ FoundIn(f, 22, sizes)
      /\ FoundIn(f, 22 + 2 * n, name) /\ FoundIn(f, 22 + 2 * n + Len(name), comment)
      /\ FoundIn(f, first, chunks) /\ Len(f) >= first /\ FoundIn(f, Len(f) - 4, size)
  <2>1. chunks = Z!FlattenSeq(ChunksOf(n)) /\ chunkLength \in Nat
    BY DEF parts
  <2>2. name = Name(flags) /\ comment = Comment(flags) /\ crc = Checksum(flags)
    OBVIOUS
  <2> HIDE DEF chunks, name, comment, crc
  <2>3. WellPlaced(f, len, chunkLength, flags, n, name, comment, crc, chunks)
    BY ONLY len \in Nat, flags \in Int, n \in Nat, n = Z!CountOfChunks(len, chunkLength),
            f = Z!DzFile(len, chunkLength, flags), <1>3, <2>1, <2>2, FileIs
  <2> QED BY <2>3 DEF WellPlaced
<1>5. /\ start \in Seq(Int) /\ Len(start) = 22
      /\ start[1] = 31 /\ start[2] = 139 /\ start[4] = flags
      /\ start[11] + 256 * start[12] = 10 + 2 * n
      /\ start[19] + 256 * start[20] = chunkLength /\ start[21] + 256 * start[22] = n
  <2>1. chunkLength \in Nat
    OBVIOUS
  <2> QED BY ONLY n \in Nat, flags \in Int, <2>1, StartIs
<1>6. /\ Len(sizes) = 2 * n
      /\ \A c \in 0 .. n - 1 : sizes[2 * c + 1] + 256 * sizes[2 * c + 2] = Len(Z!Deflated(c))
  BY SizesAre
<1>7. /\ Len(size) = 4
      /\ (size[1] + 256 * size[2]) + 65536 * (size[3] + 256 * size[4]) = len
  BY Low32Is
<1>8. /\ Len(name) \in Nat /\ Len(comment) \in Nat /\ Len(crc) \in Nat
      /\ ~Z!HasFlag(flags, 8) => Len(name) = 0
      /\ ~Z!HasFlag(flags, 16) => Len(comment) = 0
      /\ Len(crc) = IF Z!HasFlag(flags, 2) THEN 2 ELSE 0
  BY DEF Name, Comment, Checksum
<1> HIDE DEF name, comment, crc, chunks, start, sizes, first, size
<1>a. Len(name) \in Nat /\ Len(comment) \in Nat /\ Len(crc) \in Nat
  BY <1>8
\* The numbers of the header.
<1>9. /\ Z!GetC(f, 0) = 31 /\ Z!GetC(f, 1) = 139 /\ Z!GetC(f, 3) = flags
      /\ Z!Get16(f, 10) = 10 + 2 * n /\ Z!Get16(f, 18) = chunkLength /\ Z!Get16(f, 20) = n
  <2>1. \A p \in 1 .. 21 : /\ Z!GetC(f, 0 + p - 1) = start[p]
                           /\ Z!Get16(f, 0 + p - 1) = start[p] + 256 * start[p + 1]
    <3>1. ASSUME NEW p \in 1 .. 21
          PROVE  /\ Z!GetC(f, 0 + p - 1) = start[p]
                 /\ Z!Get16(f, 0 + p - 1) = start[p] + 256 * start[p + 1]
      <4>1. p \in Nat \ {0} /\ p + 1 <= Len(start)
        <5>1. Len(start) = 22
          BY <1>5
        <5> QED BY ONLY p \in 1 .. 21, <5>1
      <4>2. FoundIn(f, 0, start)
        BY <1>4
      <4> QED BY ONLY <4>1, <4>2, Get16Is
    <3> QED BY <3>1
  <2>2. Z!GetC(f, 0) = start[1] /\ Z!GetC(f, 1) = start[2] /\ Z!GetC(f, 3) = start[4]
    <3>1. 0 + 1 - 1 = 0 /\ 0 + 2 - 1 = 1 /\ 0 + 4 - 1 = 3
      OBVIOUS
    <3> QED BY <2>1, <3>1
  <2>3. /\ Z!Get16(f, 10) = start[11] + 256 * start[12]
        /\ Z!Get16(f, 18) = start[19] + 256 * start[20]
        /\ Z!Get16(f, 20) = start[21] + 256 * start[22]
    <3>1. 0 + 11 - 1 = 10 /\ 0 + 19 - 1 = 18 /\ 0 + 21 - 1 = 20
          /\ 11 + 1 = 12 /\ 19 + 1 = 20 /\ 21 + 1 = 22
      OBVIOUS
    <3> QED BY <2>1, <3>1
  <2> QED BY <1>5, <2>2, <2>3
<1>10. Z!Get32(f, Len(f) - 4) = len
  <2> DEFINE at == Len(f) - 4
  <2>1. at \in Nat
    BY <1>4 DEF FoundIn
  <2>2. FoundIn(f, at, size)
    BY <1>4
  <2> HIDE DEF at
  <2>3. /\ Z!Get16(f, at + 1 - 1) = size[1] + 256 * size[1 + 1]
        /\ Z!Get16(f, at + 3 - 1) = size[3] + 256 * size[3 + 1]
    <3>1. 1 \in Nat \ {0} /\ 1 + 1 <= Len(size) /\ 3 \in Nat \ {0} /\ 3 + 1 <= Len(size)
      BY <1>7
    <3> QED BY <2>2, <3>1, Get16Is
  <2>4. at + 1 - 1 = at /\ at + 3 - 1 = at + 2 /\ 1 + 1 = 2 /\ 3 + 1 = 4
    BY <2>1
  <2>5. Z!Get32(f, at) = (size[1] + 256 * size[2]) + 65536 * (size[3] + 256 * size[4])
    BY <2>3, <2>4 DEF Z!Get32
  <2> QED BY <1>7, <2>5 DEF at
<1>11. /\ h.type = "DICT_DZIP" /\ h.length = len
       /\ h.chunkLength = chunkLength /\ h.chunkCount = n
       /\ h.chunks = Z!ChunkSizes(f) /\ h.offsets = Z!Offsets(f)
  BY <1>9, <1>10 DEF Z!ReadHeader, Z!DzipHeader, Z!GZ_MAGIC1, Z!GZ_MAGIC2
\* The chunks begin behind the header.
<1>12. Z!HeaderLength(f) + 1 = first
  <2> DEFINE extra == 11 + Z!Get16(f, 10)
             named == IF Z!HasFlag(Z!GetC(f, 3), 8)
                      THEN extra + Z!StringLength(f, extra + 1) + 1 ELSE extra
             commented == IF Z!HasFlag(Z!GetC(f, 3), 16)
                          THEN named + Z!StringLength(f, named + 1) + 1 ELSE named
  <2>1. Z!HeaderLength(f) = IF Z!HasFlag(Z!GetC(f, 3), 2) THEN commented + 2 ELSE commented
    BY DEF Z!HeaderLength, Z!GZ_FNAME, Z!GZ_COMMENT, Z!GZ_FHCRC
  <2>2. extra \in Nat /\ extra + 1 = 22 + 2 * n
    BY <1>9
  <2> HIDE DEF extra
  <2>3. named \in Int /\ named + 1 = 22 + 2 * n + Len(name)
    <3>1. CASE Z!HasFlag(flags, 8)
      <4>1. FoundIn(f, extra + 1, Name(flags))
        BY <1>4, <2>2 DEF name
      <4>2. Z!StringLength(f, extra + 1) \in Nat /\ Z!StringLength(f, extra + 1) + 1 = Len(name)
        BY <3>1, <4>1, NamesEnd DEF name
      <4>3. named = extra + Z!StringLength(f, extra + 1) + 1
        BY <1>9, <3>1
      <4> DEFINE l == Z!StringLength(f, extra + 1)
      <4>4. l \in Nat /\ l + 1 = Len(name) /\ named = extra + l + 1
        BY <4>2, <4>3
      <4> HIDE DEF named, l
      <4> QED BY ONLY n \in Nat, <1>a, <2>2, <4>4
    <3>2. CASE ~Z!HasFlag(flags, 8)
      BY <1>8, <1>9, <2>2, <3>2
    <3> QED BY <3>1, <3>2
  <2> HIDE DEF named
  <2>4. commented \in Int /\ commented + 1 = 22 + 2 * n + Len(name) + Len(comment)
    <3>1. CASE Z!HasFlag(flags, 16)
      <4>1. FoundIn(f, named + 1, Comment(flags))
        BY <1>4, <2>3 DEF comment
      <4>2. Z!StringLength(f, named + 1) \in Nat /\ Z!StringLength(f, named + 1) + 1 = Len(comment)
        BY <3>1, <4>1, NamesEnd DEF comment
      <4>3. commented = named + Z!StringLength(f, named + 1) + 1
        BY <1>9, <3>1
      <4> DEFINE l == Z!StringLength(f, named + 1)
      <4>4. l \in Nat /\ l + 1 = Len(comment) /\ commented = named + l + 1
        BY <4>2, <4>3
      <4> HIDE DEF commented, l
      <4> QED BY ONLY n \in Nat, <1>a, <2>3, <4>4
    <3>2. CASE ~Z!HasFlag(flags, 16)
      BY <1>8, <1>9, <2>3, <3>2
    <3> QED BY <3>1, <3>2
  <2> HIDE DEF commented
  <2>5. first = 22 + 2 * n + Len(name) + Len(comment) + Len(crc)
    BY DEF first
  <2>6. Z!HeaderLength(f) = commented + Len(crc)
    <3>1. Len(crc) = IF Z!HasFlag(Z!GetC(f, 3), 2) THEN 2 ELSE 0
      BY <1>8, <1>9
    <3>2. commented \in Int
      BY <2>4
    <3> QED BY ONLY <2>1, <3>1, <3>2
  <2> QED BY ONLY n \in Nat, <1>a, <2>4, <2>5, <2>6
\* The sizes add up to the place of each.
<1>13. \A c \in 0 .. n - 1 : Z!ChunkSizes(f)[c] = Len(Z!Deflated(c))
  <2>1. ASSUME NEW c \in 0 .. n - 1 PROVE Z!ChunkSizes(f)[c] = Len(Z!Deflated(c))
    <3> DEFINE p == 2 * c + 1
    <3>1. p \in Nat \ {0} /\ p + 1 <= Len(sizes) /\ p + 1 = 2 * c + 2 /\ 22 + p - 1 = 22 + 2 * c
      BY <1>6
    <3>2. sizes[p] + 256 * sizes[p + 1] = Len(Z!Deflated(c))
      BY <1>6, <3>1
    <3>3. Z!ChunkSizes(f)[c] = Z!Get16(f, 22 + 2 * c)
      BY <1>9 DEF Z!ChunkSizes
    <3> HIDE DEF p
    <3>4. Z!Get16(f, 22 + p - 1) = sizes[p] + 256 * sizes[p + 1]
      <4>1. FoundIn(f, 22, sizes)
        BY <1>4
      <4> QED BY ONLY <3>1, <4>1, Get16Is
    <3> QED BY <3>1, <3>2, <3>3, <3>4
  <2> QED BY <2>1
<1>14. \A c \in 0 .. n - 1 : Z!Offsets(f)[c] = first + Len(g[c])
  <2> DEFINE o == [c \in 0 .. n |-> first + Len(g[c])]
  <2>1. \A c \in 0 .. n : o[c] = first + Len(g[c])
    OBVIOUS
  <2> HIDE DEF o
  <2>2. o[0] = Z!HeaderLength(f) + 1
    <3>1. g[0] = <<>> /\ 0 \in 0 .. n
      BY <1>2 DEF Together
    <3>2. Len(g[0]) = 0 /\ first \in Int
      BY <1>8, <3>1 DEF first
    <3> QED BY <1>12, <2>1, <3>1, <3>2
  <2>3. ASSUME NEW c \in 1 .. n PROVE o[c] = o[c - 1] + Z!ChunkSizes(f)[c - 1]
    <3>1. c \in 0 .. n /\ c - 1 \in 0 .. n /\ c - 1 \in 0 .. n - 1
      OBVIOUS
    <3>2. g[c] = g[c - 1] \o parts[c] /\ g[c - 1] \in Seq(Int) /\ parts[c] \in Seq(Int)
      BY <1>1, <1>2, <3>1 DEF Together
    <3>3. Len(g[c]) = Len(g[c - 1]) + Len(parts[c]) /\ Len(g[c - 1]) \in Nat /\ Len(parts[c]) \in Nat
      <4> DEFINE a == g[c - 1]
                 b == parts[c]
      <4>1. a \in Seq(Int) /\ b \in Seq(Int) /\ g[c] = a \o b
        BY <3>2
      <4> HIDE DEF a, b
      <4>2. Len(a \o b) = Len(a) + Len(b) /\ Len(a) \in Nat /\ Len(b) \in Nat
        BY ONLY <4>1, CatFacts
      <4>3. Len(g[c]) = Len(a) + Len(b) /\ Len(a) \in Nat /\ Len(b) \in Nat
        BY <4>1, <4>2
      <4> QED BY ONLY <4>3 DEF a, b
    <3>4. Z!ChunkSizes(f)[c - 1] = Len(parts[c])
      BY <1>1, <1>13, <3>1
    <3>5. first \in Int
      BY <1>8 DEF first
    <3>6. o[c] = first + Len(g[c]) /\ o[c - 1] = first + Len(g[c - 1])
      BY <2>1, <3>1
    <3> DEFINE a == Len(g[c - 1])
               b == Len(parts[c])
               d == Z!ChunkSizes(f)[c - 1]
    <3>7. /\ a \in Nat /\ b \in Nat /\ first \in Int /\ d = b
          /\ o[c] = first + (a + b) /\ o[c - 1] = first + a
      BY <3>3, <3>4, <3>5, <3>6
    <3> HIDE DEF a, b, d
    <3>8. o[c] = o[c - 1] + d
      BY ONLY <3>7
    <3> QED BY <3>8 DEF d
  <2>4. \A c \in 0 .. n - 1 : Z!Offsets(f)[c] = o[c]
    BY <1>9, <2>2, <2>3, OffsetsAddUp
  <2> QED BY <2>1, <2>4
\* So each is found.
<1>15. ASSUME NEW c \in 0 .. n - 1
       PROVE  SubSeq(f, h.offsets[c] + 1, h.offsets[c] + h.chunks[c]) = Z!Deflated(c)
  <2> DEFINE k == c + 1
             at == first + Len(g[c])
             d == Z!Deflated(c)
  <2>1. k \in 1 .. n /\ k - 1 = c
    OBVIOUS
  <2>2. parts[k] = d
    BY <1>1, <2>1
  <2>3. h.offsets[c] = at /\ h.chunks[c] = Len(d)
    BY <1>11, <1>13, <1>14
  <2> HIDE DEF k, at, d
  <2>4. FoundIn(g[n], Len(g[k - 1]), parts[k])
    BY <1>1, <1>2, <2>1, EachIsFound
  <2>5. FoundIn(chunks, Len(g[c]), d)
    BY <1>3, <2>1, <2>2, <2>4
  <2>6. FoundIn(f, at, d)
    BY <1>4, <2>5, PartOfPart DEF at
  <2>7. SubSeq(f, at + 1, at + Len(d)) = d
    BY <2>6, PartIs DEF FoundIn
  <2> QED BY <2>3, <2>7 DEF d
<1> QED BY <1>11, <1>15
-----------------------------------------------------------------------------
(* open() finds the chunks.                                                 *)

\* The file is one of dictzip or one that was never compressed, and the header of
\* an open one is what read_header() makes of it.
HeaderInv ==
    /\ length \in Lengths
    /\ dz = Z!TextFile(length) \/ \E flags \in Flags : dz = Z!DzFile(length, ChunkLength, flags)
    /\ Z!IsOpen => header = Z!ReadHeader(dz)

\* Nothing but open() changes it.
LEMMA HeaderInvariance == DataSpec => []HeaderInv
<1>1. DataInit => HeaderInv
  BY DEF DataInit, Z!Init, HeaderInv, Z!IsOpen
<1>2. HeaderInv /\ [DataNext]_datavars => HeaderInv'
  <2> SUFFICES ASSUME HeaderInv, [DataNext]_datavars PROVE HeaderInv'
    OBVIOUS
  <2>1. UNCHANGED <<length, dz>> /\ (Z!IsOpen' => header' = Z!ReadHeader(dz))
    <3>1. CASE Z!Open
      BY <3>1 DEF Z!Open
    <3>2. CASE Z!OpenFails
      BY <3>2 DEF Z!OpenFails, Z!IsOpen
    <3>3. CASE UNCHANGED zvars
      BY <3>3 DEF zvars, HeaderInv, Z!IsOpen
    <3>4. CASE Read
      BY <3>4 DEF Read, Z!Call, HeaderInv, Z!IsOpen
    <3>5. CASE ReadChunk
      BY <3>5 DEF ReadChunk, Z!ChunkHit, Z!ChunkMiss, Z!ChunkPastEnd, Z!InLoop, Z!EndTurn,
         HeaderInv, Z!IsOpen
    <3>6. CASE ReadReturns
      BY <3>6 DEF ReadReturns, Z!ReadText, Z!Return, HeaderInv, Z!IsOpen
    <3> QED
      BY <3>1, <3>2, <3>3, <3>4, <3>5, <3>6 DEF DataNext, Serve, Plain, datavars
  <2> QED BY <2>1 DEF HeaderInv
<1> QED BY <1>1, <1>2, PTL DEF DataSpec

\* What read_header() finds is right.
LEMMA HeaderIsRight == HeaderInv => ChunksFound
<1> SUFFICES ASSUME HeaderInv, Z!IsOpen PROVE ChunksFound
  BY DEF ChunksFound, Z!HeaderRight, Z!IsDzip
<1>1. length \in Nat /\ ChunkLength \in Nat \ {0} /\ header = Z!ReadHeader(dz)
  BY LengthsAssumption, SizesAssumption DEF HeaderInv
<1>2. CASE dz = Z!TextFile(length)
  <2>1. dz = [k \in 1 .. length |-> k - 1]
    BY <1>2 DEF Z!TextFile
  <2>2. dz \in Seq(Int) /\ Len(dz) = length /\ (0 < length => dz[1] = 0)
    BY <1>1, <2>1
  <2>3. Z!GetC(dz, 0) # 31
    BY <1>1, <2>2 DEF Z!GetC, Z!EOF
  <2>4. header = [type |-> "DICT_TEXT", length |-> length]
    BY <1>1, <2>2, <2>3 DEF Z!ReadHeader, Z!TextHeader, Z!GZ_MAGIC1
  <2> QED BY <1>2, <2>4 DEF ChunksFound, Z!HeaderRight, Z!IsDzip
<1>3. ASSUME NEW flags \in Flags, dz = Z!DzFile(length, ChunkLength, flags)
      PROVE  ChunksFound
  <2> DEFINE n == Z!CountOfChunks(length, ChunkLength)
  <2>1. n \in Nat
    <3>1. length + ChunkLength - 1 \in Nat
      BY <1>1
    <3> QED BY <1>1, <3>1, DivFacts DEF Z!CountOfChunks
  <2>2. flags \in Int
    BY FieldsAssumption
  <2> HIDE DEF n
  <2>3. /\ header.type = "DICT_DZIP" /\ header.length = length
        /\ header.chunkLength = ChunkLength /\ header.chunkCount = n
        /\ \A c \in 0 .. n - 1 :
             SubSeq(dz, header.offsets[c] + 1, header.offsets[c] + header.chunks[c]) = Z!Deflated(c)
    BY <1>1, <1>3, <2>1, <2>2, ReadsHeader DEF n
  <2> QED BY <2>3 DEF ChunksFound, Z!HeaderRight, Z!IsDzip, n
<1> QED BY <1>2, <1>3 DEF HeaderInv

\* Whatever optional fields the header of a .dict.dz file has, and however many
\* chunks of whatever sizes: open() knows where each of them is.
THEOREM ChunksAreFound == DataSpec => []ChunksFound
BY HeaderInvariance, HeaderIsRight, PTL
-----------------------------------------------------------------------------
(* Steps. *)

\* At first nothing is open.
LEMMA InitDataInv == DataInit => DataInv
<1> SUFFICES ASSUME DataInit PROVE DataInv
  OBVIOUS
<1>1. IInv
  BY InitIInv DEF DataInit
<1>2. zpc = "closed" /\ stamp = 0 /\ zreq = Z!NoReq
  BY DEF DataInit, Z!Init
<1>3. ZTypes /\ ChunksCoherent
  BY <1>2 DEF ZTypes, ChunksCoherent, Z!CacheCoherent, Z!IsDzip, Z!IsOpen
<1>4. Reading
  BY <1>2 DEF Reading, DataInit, Init
<1> QED BY <1>1, <1>3, <1>4 DEF DataInv

\* A turn of read() that leaves chunk i in the only slot of that number keeps
\* everything, whichever slot it was.
LEMMA TurnKeepsInv ==
    ASSUME DataInv, ChunksFound, Z!InLoop, NEW j, NEW entry,
           j \in Z!Slots => /\ entry \in Entries /\ entry.chunk = i
                           /\ \A k \in Z!Slots : zcache[k].chunk = i => k = j,
           i < Z!ChunkCount =>
             /\ entry.count = Z!ChunkSize(i)
             /\ \A k \in 0 .. Z!ChunkSize(i) - 1 : entry.inBuffer[k] = i * ChunkLength + k,
           Z!EndTurn(j, entry), UNCHANGED <<vars, dz, header, zpc, zreq>>
    PROVE  DataInv'
<1>1. /\ zpc = "chunk" /\ i <= Z!LastChunk /\ i \in Nat /\ i >= Z!FirstChunk
      /\ Z!LastChunk \in Nat /\ Z!FirstChunk \in Nat
  BY ReadFacts DEF Z!InLoop, DataInv, Reading
<1>2. /\ zcache' = [zcache EXCEPT ![j] = entry]
      /\ stamp' = stamp + 1 /\ i' = i + 1
      /\ buffer' = buffer \o Z!Part(entry.inBuffer)
  BY DEF Z!EndTurn
<1>3. IInv'
  BY NextKeepsIInv DEF DataInv
<1>4. zcache \in [Z!Slots -> Entries]
  BY <1>1 DEF DataInv, ZTypes, Z!IsOpen
<1>5. \A k \in Z!Slots : zcache'[k] = IF k = j THEN entry ELSE zcache[k]
  BY <1>2, <1>4
<1>6. zcache' \in [Z!Slots -> Entries]
  BY <1>2, <1>4
<1>7. Z!Slots' = Z!Slots /\ Z!IsDzip' = Z!IsDzip /\ Z!IsOpen' = Z!IsOpen
  BY DEF Z!Slots, Z!IsDzip, Z!IsOpen
<1>8. ZTypes'
  BY <1>2, <1>6, <1>7 DEF DataInv, ZTypes
<1>9. ChunksCoherent'
  <2>1. Z!ChunkCount' = Z!ChunkCount /\ \A c : Z!ChunkSize(c)' = Z!ChunkSize(c)
    BY DEF Z!ChunkCount, Z!ChunkSize, vars
  <2>2. ASSUME Z!IsDzip, NEW k \in Z!Slots
        PROVE  /\ zcache'[k].chunk \in 0 .. Z!ChunkCount - 1 =>
                    /\ zcache'[k].count = Z!ChunkSize(zcache'[k].chunk)
                    /\ \A b \in 0 .. Z!ChunkSize(zcache'[k].chunk) - 1 :
                         zcache'[k].inBuffer[b] = zcache'[k].chunk * ChunkLength + b
               /\ \A m \in Z!Slots : zcache'[m].chunk = zcache'[k].chunk
                    => k = m \/ zcache'[k].chunk = -1
    <3>1. CASE k = j
      BY <1>1, <1>5, <2>2, <3>1, ChunkFacts
    <3>2. CASE k # j
      BY <1>5, <2>2, <3>2 DEF DataInv, ChunksCoherent, Z!CacheCoherent
    <3> QED BY <3>1, <3>2
  <2> QED BY <1>7, <2>1, <2>2 DEF ChunksCoherent, Z!CacheCoherent
<1>10. Reading'
  <2>1. Z!FirstChunk' = Z!FirstChunk /\ Z!LastChunk' = Z!LastChunk
    BY DEF Z!FirstChunk, Z!LastChunk
  <2>2. buffer' = Bytes(zreq.start, IF i + 1 > Z!LastChunk THEN zreq.size
                                    ELSE (i + 1) * ChunkLength - zreq.start)
    BY <1>1, <1>2, TurnCopies
  <2>3. Bytes(zreq.start, Copied)' = Bytes(zreq.start, Copied')
    BY DEF Bytes
  <2>4. Copied' = IF i + 1 > Z!LastChunk THEN zreq.size
                  ELSE (i + 1) * ChunkLength - zreq.start
    BY <1>1, <1>2, <2>1 DEF Copied
  <2>5. i' \in Z!FirstChunk' .. Z!LastChunk' + 1
    BY <1>1, <1>2, <2>1
  <2>6. Hits' = Hits
    BY DEF vars, Hits
  <2> QED BY <1>1, <2>2, <2>3, <2>4, <2>5, <2>6 DEF DataInv, Reading, vars
<1> QED BY <1>3, <1>8, <1>9, <1>10 DEF DataInv

\* Copying one more chunk.
LEMMA ReadChunkKeepsInv == DataInv /\ ChunksFound /\ ReadChunk => DataInv'
<1> SUFFICES ASSUME DataInv, ChunksFound, ReadChunk PROVE DataInv'
  OBVIOUS
<1>1. Z!InLoop /\ UNCHANGED <<vars, dz, header, zpc, zreq>>
  BY DEF ReadChunk, Z!ChunkHit, Z!ChunkMiss, Z!ChunkPastEnd
<1>2. Z!IsDzip /\ i \in Nat /\ zcache \in [Z!Slots -> Entries] /\ stamp \in Int
  BY <1>1, ReadFacts DEF Z!InLoop, DataInv, ZTypes, Z!IsOpen
<1>3. CASE Z!ChunkHit
  <2> DEFINE j == Z!HitSlot
             entry == [zcache[j] EXCEPT !.stamp = stamp + 1]
  <2>1. PICK k \in Z!Slots : zcache[k].chunk = i
    BY <1>3 DEF Z!ChunkHit, Z!Found
  <2>2. \A m \in Z!Slots : zcache[m].chunk = i => m = k
    BY <1>2, <2>1 DEF DataInv, ChunksCoherent, Z!CacheCoherent
  <2>3. j \in Z!Slots /\ zcache[j].chunk = i
    <3>1. /\ k \in Z!Slots /\ zcache[k].chunk = i
          /\ \A m \in Z!Slots : zcache[m].chunk = i => k <= m
      BY <2>1, <2>2 DEF Z!Slots
    <3> QED BY <3>1 DEF Z!HitSlot
  <2>4. zcache[j] \in Entries
    BY <1>2, <2>3
  <2>5. /\ entry \in Entries /\ entry.chunk = i /\ entry.count = zcache[j].count
        /\ entry.inBuffer = zcache[j].inBuffer
    <3> DEFINE old == zcache[j]
               buf == [0 .. ChunkLength - 1 -> Int]
    <3>1. old \in [chunk : Int, stamp : Int, count : Int, inBuffer : buf]
      BY <2>4 DEF Entries
    <3>2. old.chunk = i
      BY <2>3
    <3> HIDE DEF old, buf
    <3>3. [old EXCEPT !.stamp = stamp + 1] \in [chunk : Int, stamp : Int, count : Int, inBuffer : buf]
      BY <1>2, <3>1
    <3>4. /\ [old EXCEPT !.stamp = stamp + 1].chunk = old.chunk
          /\ [old EXCEPT !.stamp = stamp + 1].count = old.count
          /\ [old EXCEPT !.stamp = stamp + 1].inBuffer = old.inBuffer
      BY <3>1
    <3> QED BY <3>2, <3>3, <3>4 DEF old, buf, Entries
  <2>6. i < Z!ChunkCount =>
          /\ entry.count = Z!ChunkSize(i)
          /\ \A b \in 0 .. Z!ChunkSize(i) - 1 : entry.inBuffer[b] = i * ChunkLength + b
    <3>1. i < Z!ChunkCount => i \in 0 .. Z!ChunkCount - 1
      BY <1>2, ChunkFacts
    <3> QED BY <1>2, <2>3, <2>5, <3>1 DEF DataInv, ChunksCoherent, Z!CacheCoherent
  <2>7. Z!EndTurn(j, entry)
    BY <1>3 DEF Z!ChunkHit
  <2>8. \A m \in Z!Slots : zcache[m].chunk = i => m = j
    BY <2>2, <2>3
  <2> HIDE DEF j, entry
  <2> QED BY <1>1, <2>5, <2>6, <2>7, <2>8, TurnKeepsInv
<1>4. CASE Z!ChunkMiss
  <2> DEFINE j == Z!OldestSlot
             entry == Z!Inflated(j)
  <2>1. ~Z!Found /\ i < Z!ChunkCount
    BY <1>4 DEF Z!ChunkMiss
  <2>2. Z!GoodInput
    <3>1. i \in 0 .. header.chunkCount - 1
      BY <1>2, <2>1, ChunkFacts DEF Z!ChunkCount
    <3> QED BY <1>2, <3>1 DEF ChunksFound, Z!HeaderRight, Z!GoodInput
  <2>3. Z!EndTurn(j, entry)
    BY <1>4, <2>2 DEF Z!ChunkMiss
  <2>4. /\ entry.chunk = i /\ entry.count = Z!ChunkSize(i)
        /\ Z!ChunkSize(i) \in 1 .. ChunkLength /\ i * ChunkLength \in Nat
    BY <1>2, <2>1, ChunkFacts DEF Z!Inflated
  <2>5. \A b \in 0 .. Z!ChunkSize(i) - 1 : entry.inBuffer[b] = i * ChunkLength + b
    BY <2>4, SizesAssumption DEF Z!Inflated
  <2>6. j \in Z!Slots => entry \in Entries
    <3>1. j \in Z!Slots => zcache[j].inBuffer \in [0 .. ChunkLength - 1 -> Int]
      BY <1>2 DEF Entries
    <3>2. ASSUME j \in Z!Slots
          PROVE [b \in 0 .. ChunkLength - 1 |->
                   IF b < Z!ChunkSize(i) THEN i * ChunkLength + b ELSE zcache[j].inBuffer[b]]
                  \in [0 .. ChunkLength - 1 -> Int]
      <4> DEFINE bytes == zcache[j].inBuffer
                 at == i * ChunkLength
                 size == Z!ChunkSize(i)
      <4>1. bytes \in [0 .. ChunkLength - 1 -> Int] /\ at \in Int /\ size \in Int
        BY <2>4, <3>1, <3>2
      <4> HIDE DEF bytes, at, size
      <4>2. [b \in 0 .. ChunkLength - 1 |-> IF b < size THEN at + b ELSE bytes[b]]
              \in [0 .. ChunkLength - 1 -> Int]
        BY <4>1, SizesAssumption
      <4> QED BY <4>2 DEF bytes, at, size
    <3> QED BY <1>2, <2>4, <3>2 DEF Entries, Z!Inflated
  <2>7. \A m \in Z!Slots : zcache[m].chunk # i
    BY <2>1 DEF Z!Found
  <2> HIDE DEF j, entry
  <2> QED BY <1>1, <2>3, <2>4, <2>5, <2>6, <2>7, TurnKeepsInv
<1>5. CASE Z!ChunkPastEnd
  <2> DEFINE j == Z!OldestSlot
             entry == Z!Nothing(j)
  <2>1. ~Z!Found /\ i >= Z!ChunkCount /\ Z!EndTurn(j, entry)
    BY <1>5 DEF Z!ChunkPastEnd
  <2>2. j \in Z!Slots => entry \in Entries /\ entry.chunk = i
    <3> DEFINE buf == [0 .. ChunkLength - 1 -> Int]
    <3>1. j \in Z!Slots => zcache[j].inBuffer \in buf
      BY <1>2 DEF Entries
    <3> HIDE DEF buf
    <3>2. j \in Z!Slots => entry \in [chunk : {i}, stamp : Int, count : Int, inBuffer : buf]
      BY <1>2, <3>1 DEF Z!Nothing
    <3> QED BY <1>2, <3>2 DEF Entries, buf
  <2>3. \A m \in Z!Slots : zcache[m].chunk # i
    BY <2>1 DEF Z!Found
  <2>4. ~(i < Z!ChunkCount)
    BY <1>2, <2>1, ChunkFacts
  <2> HIDE DEF j, entry
  <2> QED BY <1>1, <2>1, <2>2, <2>3, <2>4, TurnKeepsInv
<1> QED BY <1>3, <1>4, <1>5 DEF ReadChunk

\* Beginning a read: GetWordData found no slot with the article.
LEMMA ReadKeepsInv == DataInv /\ ChunksFound /\ Read => DataInv'
<1> SUFFICES ASSUME DataInv, ChunksFound, Read PROVE DataInv'
  OBVIOUS
<1>1. /\ kind = "dict.dz" /\ req # NoReq /\ Hits = {} /\ zpc = "idle"
      /\ zreq' = [op |-> "read", start |-> req.start, size |-> req.size]
      /\ buffer' = <<>> /\ UNCHANGED <<vars, dz, header, zcache, stamp>>
  BY DEF Read, Z!Call
<1>2. PICK o \in 0 .. length : req = [op |-> "read", start |-> o, size |-> sizeAt[o]]
  BY <1>1 DEF DataInv, IInv, TypeOK
<1>3. zreq' = req /\ req.start \in Nat /\ req.size \in Nat
  BY <1>1, <1>2, SizeFacts DEF DataInv, IInv
<1>4. IInv'
  BY <1>1, NextKeepsIInv DEF DataInv
<1>5. /\ Z!Slots' = Z!Slots /\ Z!IsOpen /\ Z!IsOpen'
      /\ Z!IsDzip' = Z!IsDzip
  BY <1>1 DEF Read, Z!Call, Z!Slots, Z!IsOpen, Z!IsDzip
<1>6. zpc' = IF Z!IsDzip THEN "chunk" ELSE "text"
  BY <1>5 DEF Read, Z!Call, ChunksFound, Z!HeaderRight, Z!IsDzip
<1>7. ZTypes'
  BY <1>1, <1>5, <1>6 DEF DataInv, ZTypes
<1>8. ChunksCoherent'
  BY <1>1, <1>5 DEF DataInv, ChunksCoherent, Z!CacheCoherent, Z!ChunkCount, Z!ChunkSize, vars
<1>9. ~exited
  BY <1>1 DEF DataInv, IInv, TypeOK, Reading
<1>10. Reading'
  <2>1. CASE ~Z!IsDzip
    BY <1>1, <1>3, <1>6, <1>9, <2>1 DEF Reading, Hits, vars
  <2>2. CASE Z!IsDzip
    <3>1. header'.chunkLength = ChunkLength /\ header.chunkLength = ChunkLength
      BY <1>1, <2>2 DEF ChunksFound, Z!HeaderRight
    <3>2. Z!FirstChunk' = req.start \div ChunkLength
          /\ Z!LastChunk' = (req.start + req.size) \div ChunkLength
      BY <1>3, <3>1 DEF Z!FirstChunk, Z!LastChunk
    <3>3. i' = req.start \div ChunkLength
      BY <1>6, <2>2, <3>1 DEF Read, Z!Call
    <3>4. i' \in Nat /\ Z!LastChunk' \in Nat /\ i' =< Z!LastChunk'
      <4> DEFINE a == req.start \div ChunkLength
                 b == (req.start + req.size) \div ChunkLength
      <4>1. /\ a \in Nat /\ a * ChunkLength =< req.start
            /\ req.start < a * ChunkLength + ChunkLength
        BY <1>3, SizesAssumption, DivFacts
      <4>2. req.start + req.size \in Nat
        BY <1>3
      <4>3. /\ b \in Nat /\ b * ChunkLength =< req.start + req.size
            /\ req.start + req.size < b * ChunkLength + ChunkLength
        BY <4>2, SizesAssumption, DivFacts
      <4> HIDE DEF a, b
      <4>4. a * ChunkLength \in Nat /\ b * ChunkLength \in Nat
            /\ (b + 1) * ChunkLength = b * ChunkLength + ChunkLength
        BY <4>1, <4>3, SizesAssumption, Products
      <4>5. a * ChunkLength < (b + 1) * ChunkLength
        BY <1>3, <4>1, <4>3, <4>4, SizesAssumption
      <4>6. a < b + 1
        BY <4>1, <4>3, <4>5, SizesAssumption, Products
      <4> QED BY <3>2, <3>3, <4>1, <4>3, <4>6 DEF a, b
    <3>5. Copied' = 0
      BY <3>2, <3>3, <3>4 DEF Copied
    <3>6. Bytes(zreq.start, Copied)' = <<>>
      BY <3>5 DEF Bytes
    <3> QED BY <1>1, <1>3, <1>6, <1>9, <2>2, <3>2, <3>3, <3>4, <3>6 DEF Reading, Hits, vars
  <2> QED BY <2>1, <2>2
<1> QED BY <1>4, <1>7, <1>8, <1>10 DEF DataInv

\* The bytes that read() has copied when it returns are those asked for.
LEMMA ReadAnswers ==
    ASSUME DataInv, ChunksFound, Z!ReadText \/ Z!Return
    PROVE  /\ zans'.data = Bytes(req.start, req.size)
           /\ zreq' = Z!NoReq /\ zpc' = "idle"
           /\ kind = "dict.dz" /\ zpc \in {"text", "chunk"}
           /\ UNCHANGED <<length, dz, header, zcache, stamp>>
<1>1. CASE Z!ReadText
  <2>1. zpc = "text" /\ zreq = req /\ req # NoReq /\ ~Z!IsDzip /\ Z!IsOpen
    BY <1>1 DEF Z!ReadText, DataInv, Reading, ZTypes, Z!IsOpen
  <2>2. PICK o \in 0 .. length : req = [op |-> "read", start |-> o, size |-> sizeAt[o]]
    BY <2>1 DEF DataInv, IInv, TypeOK
  <2>3. /\ req.start \in Nat /\ req.size \in Nat /\ length \in Nat
        /\ req.start + req.size =< length
    BY <2>2, SizeFacts DEF DataInv, IInv
  <2>4. dz = [k \in 1 .. length |-> k - 1]
    BY <2>1 DEF ChunksFound, Z!HeaderRight, Z!TextFile
  <2>5. SubSeq(dz, req.start + 1, req.start + req.size) = Bytes(req.start, req.size)
    <3>1. dz \in Seq(Int) /\ Len(dz) = length
      BY <2>3, <2>4
    <3> DEFINE a == req.start
               n == req.size
    <3>2. a \in Nat /\ n \in Nat /\ length \in Nat /\ a + n <= length
      BY <2>3
    <3>3. \A k \in 1 .. n : dz[a + k] = a + k - 1
      BY <2>4, <3>2
    <3>4. SubSeq(dz, a + 1, a + n) = [k \in 1 .. n |-> dz[a + k]]
      <4> HIDE DEF a, n
      <4> QED BY ONLY <3>1, <3>2
    <3> QED BY <3>3, <3>4 DEF Bytes
  <2>6. zans'.data = SubSeq(dz, req.start + 1, req.start + req.size)
    BY <1>1, <2>1 DEF Z!ReadText
  <2> QED BY <1>1, <2>1, <2>5, <2>6 DEF Z!ReadText, DataInv, Reading
<1>2. CASE Z!Return
  <2>1. zpc = "chunk" /\ zreq = req /\ i > Z!LastChunk
    BY <1>2 DEF Z!Return, DataInv, Reading
  <2>2. buffer = Bytes(req.start, req.size)
    BY <2>1 DEF DataInv, Reading, Copied
  <2> QED BY <1>2, <2>1, <2>2 DEF Z!Return, DataInv, Reading
<1> QED BY <1>1, <1>2

\* Every step of the whole keeps the invariant, and is a step of GetWordData
\* that reads the file at once, or none.
LEMMA DataStep ==
    DataInv /\ ChunksFound /\ [DataNext]_datavars => DataInv' /\ [Next]_vars
<1> SUFFICES ASSUME DataInv, ChunksFound, [DataNext]_datavars
             PROVE  DataInv' /\ [Next]_vars
  OBVIOUS
<1>1. ASSUME UNCHANGED zvars, [Next]_vars,
             zpc \in {"text", "chunk"} => UNCHANGED vars,
             kind' = kind, exited' => exited \/ kind = "dict"
      PROVE  DataInv'
  <2>1. IInv'
    BY <1>1, NextKeepsIInv DEF DataInv
  <2>2. ZTypes' /\ ChunksCoherent'
    BY <1>1 DEF DataInv, ZTypes, ChunksCoherent, Z!CacheCoherent, Z!IsDzip, Z!IsOpen,
                Z!Slots, Z!ChunkCount, Z!ChunkSize, zvars
  <2>3. zpc = "chunk" => Bytes(zreq.start, Copied)' = Bytes(zreq.start, Copied)
    BY <1>1 DEF Bytes, Copied, Z!FirstChunk, Z!LastChunk, zvars
  <2>4. Reading'
    BY <1>1, <2>3 DEF DataInv, Reading, Hits, Z!FirstChunk, Z!LastChunk, zvars, vars
  <2> QED BY <2>1, <2>2, <2>4 DEF DataInv
<1>2. CASE kind = "dict.dz" /\ Z!Open /\ UNCHANGED vars
  <2>1. /\ zpc = "closed" /\ zpc' = "idle" /\ zreq' = zreq /\ stamp' = stamp
        /\ zcache' = [j \in Z!Slots |-> [chunk |-> -1, stamp |-> -1, count |-> 0,
                        inBuffer |-> [b \in 0 .. ChunkLength - 1 |-> -1]]]
    BY <1>2 DEF Z!Open, Z!Unwritten
  <2>2. IInv'
    BY <1>2, NextKeepsIInv DEF DataInv
  <2>3. zcache' \in [Z!Slots -> Entries]
    BY <2>1 DEF Entries
  <2>4. ZTypes'
    BY <2>1, <2>3 DEF DataInv, ZTypes, Z!Slots
  <2>5. \A j \in Z!Slots : zcache'[j].chunk = -1
    BY <2>1
  <2>6. ChunksCoherent'
    BY <2>5 DEF ChunksCoherent, Z!CacheCoherent, Z!Slots
  <2>7. Reading'
    BY <1>2, <2>1 DEF DataInv, Reading, Z!NoReq, vars
  <2> QED BY <1>2, <2>2, <2>4, <2>6, <2>7 DEF DataInv
<1>3. CASE kind = "dict.dz" /\ Z!OpenFails /\ UNCHANGED vars
  <2>1. zpc = "closed" /\ zpc' = "failed" /\ zreq' = zreq /\ stamp' = stamp
    BY <1>3 DEF Z!OpenFails
  <2>2. IInv'
    BY <1>3, NextKeepsIInv DEF DataInv
  <2>3. ZTypes' /\ ChunksCoherent' /\ Reading'
    BY <1>3, <2>1 DEF DataInv, ZTypes, ChunksCoherent, Z!CacheCoherent, Z!IsDzip, Z!IsOpen,
                      Reading, Z!NoReq, vars
  <2> QED BY <1>3, <2>2, <2>3 DEF DataInv
<1>4. ASSUME NEW offset \in 0 .. length, Call(offset), UNCHANGED zvars
      PROVE  DataInv' /\ [Next]_vars
  <2>1. [Next]_vars /\ zpc \notin {"text", "chunk"} /\ UNCHANGED <<kind, exited>>
    BY <1>4 DEF Next, Call, DataInv, Reading
  <2> QED BY <1>1, <1>4, <2>1
<1>5. CASE Read
  <2>1. UNCHANGED vars
    BY <1>5 DEF Read
  <2> QED BY <1>5, <2>1, ReadKeepsInv
<1>6. CASE ReadChunk
  <2>1. UNCHANGED vars
    BY <1>6 DEF ReadChunk
  <2> QED BY <1>6, <2>1, ReadChunkKeepsInv
<1>7. CASE ReadReturns
  <2>1. /\ zans'.data = Bytes(req.start, req.size) /\ zreq' = Z!NoReq /\ zpc' = "idle"
        /\ kind = "dict.dz" /\ zpc \in {"text", "chunk"}
        /\ UNCHANGED <<length, dz, header, zcache, stamp>>
    BY <1>7, ReadAnswers DEF ReadReturns
  <2>2. GetWordDataMiss
    BY <1>7, <2>1 DEF ReadReturns, GetWordDataMiss
  <2>3. Next /\ UNCHANGED <<kind, exited>>
    BY <2>2 DEF Next, Step, GetWordDataMiss, Fill
  <2>4. IInv'
    BY <2>3, NextKeepsIInv DEF DataInv
  <2>5. ZTypes' /\ ChunksCoherent'
    BY <2>1 DEF DataInv, ZTypes, ChunksCoherent, Z!CacheCoherent, Z!IsDzip, Z!IsOpen,
                Z!Slots, Z!ChunkCount, Z!ChunkSize
  <2>6. Reading'
    BY <2>1, <2>3 DEF DataInv, Reading, Z!NoReq
  <2> QED BY <2>3, <2>4, <2>5, <2>6 DEF DataInv
<1>8. CASE Plain
  <2>1. [Next]_vars
    BY <1>8 DEF Plain, Next, Step
  <2>2. zpc \notin {"text", "chunk"}
    BY <1>8 DEF Plain, GetWordDataHit, GetWordDataThrows, Throws, DataInv, Reading
  <2>3. kind' = kind /\ (exited' => exited \/ kind = "dict") /\ UNCHANGED zvars
    BY <1>8 DEF Plain, GetWordDataHit, GetWordDataThrows, Throws, GetWordDataMiss, Fill
  <2> QED BY <1>1, <2>1, <2>2, <2>3
<1>9. CASE UNCHANGED datavars
  <2>1. UNCHANGED vars /\ UNCHANGED zvars
    BY <1>9 DEF datavars
  <2>2. kind' = kind /\ exited' = exited
    BY <2>1 DEF vars
  <2> QED BY <1>1, <2>1, <2>2
<1> QED BY <1>2, <1>3, <1>4, <1>5, <1>6, <1>7, <1>8, <1>9 DEF DataNext, Serve
-----------------------------------------------------------------------------
\* The inductive invariant of the whole.
LEMMA DataInvariance == DataSpec => []DataInv
BY InitDataInv, DataStep, ChunksAreFound, PTL DEF DataSpec

\* Whatever is read in whichever order, a slot of read() that bears the number
\* of a chunk holds that chunk, and no chunk has two slots.
THEOREM ChunksStayCoherent == DataSpec => []ChunksCoherent
<1>1. DataInv => ChunksCoherent
  BY DEF DataInv
<1> QED BY DataInvariance, <1>1, PTL

\* The slots of GetWordData hold their articles when read() fills them.
THEOREM ArticlesStayCoherent == DataSpec => []SlotsCoherent
<1>1. DataInv => SlotsCoherent
  BY DEF DataInv, IInv
<1> QED BY DataInvariance, <1>1, PTL

\* The articles of a .dict.dz file, unpacked chunk by chunk through two caches,
\* are the bytes of the file.
THEOREM DataRefinement == DataSpec => Implements
<1>1. DataInit => DF!Init
  BY DEF DataInit, Init, DF!Init, NoReq, NoAns, DF!NoReq, DF!NoAns
<1>2. DataInv /\ ChunksFound /\ [DataNext]_datavars => [DF!Next]_(DF!vars)
  BY DataStep, StepsRefine DEF DataInv
<1> QED BY InitDataInv, DataInvariance, ChunksAreFound, <1>1, <1>2, PTL DEF DataSpec, Implements, DF!Spec
=============================================================================
