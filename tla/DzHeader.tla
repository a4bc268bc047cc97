------------------------------ MODULE DzHeader ------------------------------
(***************************************************************************)
(* The bytes of a .dict.dz file, and DictData::read_header, which finds    *)
(* the compressed chunks in them.  A file is the sequence of its bytes; a  *)
(* chunk is compressed to a few bytes that only it has.  What dictzip      *)
(* writes always has the extra field with the chunks in it (GZ_FEXTRA and  *)
(* the subfield RA), so the type DICT_GZIP, of a file gzip wrote, and its  *)
(* end of the program are left out.                                        *)
(***************************************************************************)
EXTENDS Integers, Sequences, SequencesExt

GZ_MAGIC1 == 31
GZ_MAGIC2 == 139
GZ_FHCRC == 2
GZ_FNAME == 8
GZ_COMMENT == 16
GZ_RND_S1 == 82
GZ_RND_S2 == 65

HasFlag(flags, bit) == (flags \div bit) % 2 = 1

CountOfChunks(length, chunkLength) == (length + chunkLength - 1) \div chunkLength
-----------------------------------------------------------------------------
(* What dictzip writes. *)

Low16(n) == <<n % 256, n \div 256>>
Low32(n) == Low16(n % 65536) \o Low16(n \div 65536)

\* Chunk c, compressed.
Deflated(c) == <<200 + c>> \o [k \in 1 .. c % 2 |-> 0]

Concat(n, F(_)) == FlattenSeq([c \in 1 .. n |-> F(c - 1)])

DzFile(length, chunkLength, flags) ==
    LET n == CountOfChunks(length, chunkLength)
        Size(c) == Low16(Len(Deflated(c)))
    IN <<GZ_MAGIC1, GZ_MAGIC2, 8, flags, 0, 0, 0, 0, 2, 3>>
       \o Low16(10 + 2 * n) \o <<GZ_RND_S1, GZ_RND_S2>> \o Low16(6 + 2 * n)
       \o Low16(1) \o Low16(chunkLength) \o Low16(n) \o Concat(n, Size)
       \o (IF HasFlag(flags, GZ_FNAME) THEN <<100, 105, 0>> ELSE <<>>)
       \o (IF HasFlag(flags, GZ_COMMENT) THEN <<99, 0>> ELSE <<>>)
       \o (IF HasFlag(flags, GZ_FHCRC) THEN <<7, 7>> ELSE <<>>)
       \o Concat(n, Deflated) \o <<3, 0>> \o <<9, 9, 9, 9>> \o Low32(length)

\* A file that was never compressed: its bytes as DictFile numbers them.
TextFile(length) == [k \in 1 .. length |-> k - 1]
-----------------------------------------------------------------------------
(* What read_header() makes of a file.  at is what ftell() says. *)

EOF == -1
GetC(f, at) == IF at < Len(f) THEN f[at + 1] ELSE EOF
Get16(f, at) == GetC(f, at) + 256 * GetC(f, at + 1)
Get32(f, at) == Get16(f, at) + 65536 * Get16(f, at + 2)

\* The bytes of the zero-terminated string at a place, without the zero.
StringLength(f, at) ==
    (CHOOSE k \in at .. Len(f) - 1 :
        GetC(f, k) = 0 /\ \A m \in at .. k - 1 : GetC(f, m) # 0) - at

TextHeader(f) == [type |-> "DICT_TEXT", length |-> Len(f)]

\* A slip: the two bytes of the checksum left out of the length.
HeaderLengthWithoutCrc(f) ==
    LET extra == 11 + Get16(f, 10)
        named == IF HasFlag(GetC(f, 3), GZ_FNAME)
                 THEN extra + StringLength(f, extra + 1) + 1 ELSE extra
        commented == IF HasFlag(GetC(f, 3), GZ_COMMENT)
                     THEN named + StringLength(f, named + 1) + 1 ELSE named
    IN commented

\* headerLength: it is one less than where the chunks begin.
HeaderLength(f) ==
    LET extra == 11 + Get16(f, 10)
        named == IF HasFlag(GetC(f, 3), GZ_FNAME)
                 THEN extra + StringLength(f, extra + 1) + 1 ELSE extra
        commented == IF HasFlag(GetC(f, 3), GZ_COMMENT)
                     THEN named + StringLength(f, named + 1) + 1 ELSE named
    IN IF HasFlag(GetC(f, 3), GZ_FHCRC) THEN commented + 2 ELSE commented

ChunkSizes(f) == [c \in 0 .. Get16(f, 20) - 1 |-> Get16(f, 22 + 2 * c)]

\* The offsets of the chunks, a running sum of their sizes.
Offsets(f) ==
    LET sizes == ChunkSizes(f)
        offset[c \in 0 .. Get16(f, 20)] ==
            IF c = 0 THEN HeaderLength(f) + 1 ELSE offset[c - 1] + sizes[c - 1]
    IN [c \in DOMAIN sizes |-> offset[c]]

DzipHeader(f) ==
    [type |-> "DICT_DZIP", length |-> Get32(f, Len(f) - 4),
     chunkLength |-> Get16(f, 18), chunkCount |-> Get16(f, 20),
     chunks |-> ChunkSizes(f), offsets |-> Offsets(f)]

ReadHeader(f) ==
    IF GetC(f, 0) # GZ_MAGIC1 \/ GetC(f, 1) # GZ_MAGIC2 THEN TextHeader(f)
                                                        ELSE DzipHeader(f)
==============================================================================
