--------------------------- MODULE ArticleProofs ---------------------------
(***************************************************************************)
(* Proofs about Article: GetWordData fills exactly what it allocated,      *)
(* parse_data gives back the texts that were written, the full-text search *)
(* finds the articles that have its words, and the rules of format.conf    *)
(* replace every character once.                                           *)
(***************************************************************************)
EXTENDS Article, Sorting

\* What LibrariesAssumption says of one article.
Section == [type : 1 .. 255, body : Seq(0 .. 255)]
GoodSection(s) == /\ s \in Section /\ (IsUpper(s.type) \/ 0 \notin ToSet(s.body))
                  /\ Fits32(Len(s.body))
Legal(types, sections) ==
    /\ types \in Seq(1 .. 255) /\ sections \in Seq(Section)
    /\ \A k \in 1 .. Len(sections) : GoodSection(sections[k])
    /\ types # <<>> => /\ Len(sections) = Len(types)
                       /\ \A k \in 1 .. Len(sections) : sections[k].type = types[k]
    /\ Fits32(Len(InFile(types, sections)) + Len(types) + 2 * U32)

\* And of one whose sizes the host reads as they were written.
Written(types, sections) == Legal(types, sections) /\ InHostOrder(types, sections)

\* Every article of a library is legal.
LEMMA ArticlesAreLegal ==
    ASSUME NEW lib \in Libraries, NEW d \in DOMAIN lib, NEW a \in DOMAIN lib[d].articles
    PROVE  Legal(lib[d].types, lib[d].articles[a])
<1> DEFINE types == lib[d].types
           sections == lib[d].articles[a]
<1>1. types \in Seq(1 .. 255) /\ Conforms(types, sections)
  BY LibrariesAssumption
<1> HIDE DEF types, sections
<1>2. /\ sections \in Seq(Section)
      /\ \A k \in DOMAIN sections : /\ IsUpper(sections[k].type) \/ 0 \notin ToSet(sections[k].body)
                                    /\ Fits32(Len(sections[k].body))
      /\ types # <<>> => /\ Len(sections) = Len(types)
                         /\ \A k \in DOMAIN sections : sections[k].type = types[k]
      /\ Fits32(Len(InFile(types, sections)) + Len(types) + 2 * U32)
  BY <1>1 DEF Conforms, Section
<1>3. DOMAIN sections = 1 .. Len(sections) /\ \A k \in 1 .. Len(sections) : sections[k] \in Section
  BY <1>2
<1>4. \A k \in 1 .. Len(sections) : GoodSection(sections[k])
  BY <1>2, <1>3 DEF GoodSection
<1>5. Legal(types, sections)
  BY <1>1, <1>2, <1>3, <1>4 DEF Legal
<1> QED BY <1>5 DEF types, sections
-----------------------------------------------------------------------------
(* Numbers of 32 bits.                                                      *)

\* A smaller number fits, too.
LEMMA SmallerFits ==
    ASSUME NEW n \in Nat, Fits32(n), NEW m \in Nat, m <= n
    PROVE  Fits32(m)
<1>1. m \div 16777216 <= n \div 16777216
  OBVIOUS
<1> QED BY <1>1 DEF Fits32

\* The four bytes of a number are bytes, and make up the number.
LEMMA BytesOf ==
    ASSUME NEW n \in Nat, Fits32(n)
    PROVE  /\ Network(n) \in Seq(0 .. 255) /\ Len(Network(n)) = 4
           /\ Host(n) \in Seq(0 .. 255) /\ Len(Host(n)) = 4
           /\ Number(HostOrder(Host(n))) = n
<1> DEFINE a == n \div 16777216
           b == (n \div 65536) % 256
           c == (n \div 256) % 256
           d == n % 256
<1>1. Network(n) = <<a, b, c, d>>
  BY DEF Network
<1>2. a \in 0 .. 255 /\ b \in 0 .. 255 /\ c \in 0 .. 255 /\ d \in 0 .. 255
  BY DEF Fits32
<1>3. 16777216 * a + 65536 * b + 256 * c + d = n
  <2> DEFINE x == n \div 256
             y == n \div 65536
  <2>1. n = 256 * x + d
    OBVIOUS
  <2>2. y = x \div 256 /\ x = 256 * y + c
    OBVIOUS
  <2>3. a = y \div 256 /\ y = 256 * a + b
    OBVIOUS
  <2>4. x \in Int /\ y \in Int
    OBVIOUS
  <2> HIDE DEF a, b, c, d, x, y
  <2> QED BY ONLY <1>2, <2>1, <2>2, <2>3, <2>4, n \in Nat
<1> HIDE DEF a, b, c, d
<1>4. /\ <<a, b, c, d>> \in Seq(0 .. 255) /\ <<d, c, b, a>> \in Seq(0 .. 255)
      /\ Len(<<a, b, c, d>>) = 4 /\ Len(<<d, c, b, a>>) = 4
  BY <1>2
<1>5. HostOrder(HostOrder(<<a, b, c, d>>)) = <<a, b, c, d>>
  BY DEF HostOrder
<1>6. Number(<<a, b, c, d>>) = n
  BY <1>3 DEF Number
<1>7. Host(n) = HostOrder(<<a, b, c, d>>)
  BY <1>1 DEF Host
<1>8. Host(n) \in Seq(0 .. 255) /\ Len(Host(n)) = 4
  BY <1>4, <1>7 DEF HostOrder
<1> QED BY <1>1, <1>4, <1>5, <1>6, <1>7, <1>8

\* Cells that were written: none of them is Unset.
Cells(s) == s \in Seq(Int) /\ \A k \in 1 .. Len(s) : s[k] \in Nat

\* Put behind each other they still are.
LEMMA CellsBehind ==
    ASSUME NEW s, NEW t, Cells(s), Cells(t)
    PROVE  Cells(s \o t) /\ Len(s \o t) = Len(s) + Len(t) /\ Len(s) \in Nat /\ Len(t) \in Nat
<1> DEFINE u == s \o t
<1>1. s \in Seq(Int) /\ t \in Seq(Int) /\ Len(s) \in Nat /\ Len(t) \in Nat
  BY DEF Cells
<1>2. /\ u \in Seq(Int) /\ Len(u) = Len(s) + Len(t)
      /\ \A k \in 1 .. Len(s) : u[k] = s[k]
      /\ \A k \in 1 .. Len(t) : u[Len(s) + k] = t[k]
  BY <1>1, CatFacts
<1> HIDE DEF u
<1>3. ASSUME NEW k \in 1 .. Len(u) PROVE u[k] \in Nat
  <2>1. CASE k \in 1 .. Len(s)
    BY <1>2, <2>1 DEF Cells
  <2>2. CASE k \notin 1 .. Len(s)
    <3>1. k - Len(s) \in 1 .. Len(t) /\ Len(s) + (k - Len(s)) = k
      BY <1>1, <1>2, <2>2
    <3>2. u[k] = t[k - Len(s)]
      BY <1>2, <3>1
    <3> QED BY <3>1, <3>2 DEF Cells
  <2> QED BY <2>1, <2>2
<1> QED BY <1>1, <1>2, <1>3 DEF Cells, u

\* One cell, and the bytes of a body.
LEMMA OneCell ==
    ASSUME NEW c \in Nat
    PROVE  Cells(<<c>>) /\ Len(<<c>>) = 1 /\ <<c>>[1] = c
BY DEF Cells

\* A body is cells.
LEMMA BodyCells ==
    ASSUME NEW b \in Seq(0 .. 255)
    PROVE  Cells(b)
<1> DEFINE B == 0 .. 255
<1>1. b \in Seq(B) /\ B \subseteq Int /\ B \subseteq Nat
  OBVIOUS
<1> HIDE DEF B
<1>2. b \in Seq(Int)
  BY <1>1, SeqMonotonic
<1>3. \A k \in 1 .. Len(b) : b[k] \in B
  BY <1>1, ElementOfSeq
<1> QED BY <1>1, <1>2, <1>3 DEF Cells

\* A number that is read where set_uint32() put it.
LEMMA NumberRead ==
    ASSUME NEW n \in Nat, Fits32(n), NEW mem, NEW a, FoundIn(mem, a, Host(n))
    PROVE  Uint32(mem, a) = n
<1>1. Len(Host(n)) = 4 /\ Number(HostOrder(Host(n))) = n
  BY BytesOf
<1>2. SubSeq(mem, a + 1, a + Len(Host(n))) = Host(n)
  BY PartIs DEF FoundIn
<1> QED BY <1>1, <1>2 DEF Uint32, U32

\* A section in memory: as it stands in a file, but that its size is in the order of
\* the host.
Stored(s) == IF IsUpper(s.type) THEN Host(Len(s.body)) \o s.body ELSE Append(s.body, 0)

\* How many bytes this is more than its body.
Extra(type) == IF IsUpper(type) THEN U32 ELSE 1

\* In a file it is as long, and consists of bytes.
LEMMA FieldIs ==
    ASSUME NEW s, GoodSection(s)
    PROVE  /\ Cells(Field(s)) /\ Len(s.body) \in Nat /\ Cells(s.body)
           /\ Host(Len(s.body)) = Network(Len(s.body)) => Field(s) = Stored(s)
           /\ ~IsUpper(s.type) => Field(s) = Stored(s)
<1>1. s.body \in Seq(0 .. 255) /\ Fits32(Len(s.body))
  BY DEF GoodSection, Section
<1>2. Cells(s.body)
  BY <1>1, BodyCells
<1>3. Len(s.body) \in Nat /\ s.body \in Seq(Int)
  BY <1>2 DEF Cells
<1>4. Cells(Network(Len(s.body)))
  BY <1>1, <1>3, BytesOf, BodyCells
<1>5. Cells(Field(s))
  <2>1. CASE IsUpper(s.type)
    <3>1. Cells(Network(Len(s.body)) \o s.body)
      BY <1>2, <1>4, CellsBehind
    <3> QED BY <2>1, <3>1 DEF Field
  <2>2. CASE ~IsUpper(s.type)
    <3> DEFINE b == s.body
               z == <<0>>
    <3>1. Cells(z)
      BY OneCell
    <3>2. Field(s) = b \o z
      BY <1>3, <2>2 DEF Field
    <3> HIDE DEF b, z
    <3>3. Cells(b \o z)
      BY <1>2, <3>1, CellsBehind DEF b
    <3> QED BY <3>2, <3>3
  <2> QED BY <2>1, <2>2
<1> QED BY <1>2, <1>3, <1>5 DEF Field, Stored

\* A section in memory: a text is followed by the first 0, the rest follow their size.
LEMMA StoredIs ==
    ASSUME NEW s, GoodSection(s)
    PROVE  /\ Cells(Stored(s)) /\ Len(s.body) \in Nat
           /\ Len(Stored(s)) = Len(s.body) + Extra(s.type) /\ Extra(s.type) \in Nat \ {0}
           /\ IsUpper(s.type) => /\ FoundIn(Stored(s), 0, Host(Len(s.body)))
                                 /\ Len(Stored(s)) = Len(s.body) + 4
           /\ ~IsUpper(s.type) => /\ Len(Stored(s)) = Len(s.body) + 1
                                  /\ Stored(s)[Len(s.body) + 1] = 0
                                  /\ \A k \in 1 .. Len(s.body) : Stored(s)[k] # 0
<1>1. s.body \in Seq(0 .. 255) /\ Fits32(Len(s.body))
  BY DEF GoodSection, Section
<1>2. Cells(s.body)
  BY <1>1, BodyCells
<1> DEFINE b == s.body
<1>3. b \in Seq(Int) /\ Len(b) \in Nat
  BY <1>2 DEF Cells
<1>4. CASE IsUpper(s.type)
  <2> DEFINE h == Host(Len(b))
  <2>1. Cells(h) /\ Len(h) = 4 /\ h \in Seq(Int)
    BY <1>1, <1>3, BytesOf, BodyCells DEF Cells
  <2>2. Stored(s) = h \o b
    BY <1>4 DEF Stored
  <2>3. Extra(s.type) = 4
    BY <1>4 DEF Extra, U32
  <2> HIDE DEF h, b
  <2>4. Cells(h \o b) /\ Len(h \o b) = 4 + Len(b)
    BY <1>2, <2>1, CellsBehind DEF b
  <2>5. FoundIn(h \o b, 0, h)
    BY <1>3, <2>1, FoundBehind
  <2> QED BY <1>3, <1>4, <2>2, <2>3, <2>4, <2>5 DEF b, h
<1>5. CASE ~IsUpper(s.type)
  <2> DEFINE z == <<0>>
  <2>1. Cells(z) /\ Len(z) = 1 /\ z[1] = 0 /\ z \in Seq(Int)
    BY OneCell DEF Cells
  <2>2. Stored(s) = b \o z
    <3>1. Stored(s) = Append(b, 0)
      BY <1>5 DEF Stored
    <3> HIDE DEF b
    <3> QED BY <1>3, <3>1
  <2>3. \A k \in 1 .. Len(b) : b[k] # 0
    <3>1. 0 \notin ToSet(b)
      BY <1>5 DEF GoodSection
    <3> QED BY <1>1, <3>1 DEF ToSet
  <2>a. Extra(s.type) = 1
    BY <1>5 DEF Extra
  <2> HIDE DEF z, b
  <2>4. Cells(b \o z) /\ Len(b \o z) = Len(b) + 1
    BY <1>2, <2>1, CellsBehind DEF b
  <2>5. /\ \A k \in 1 .. Len(b) : (b \o z)[k] = b[k]
        /\ \A k \in 1 .. Len(z) : (b \o z)[Len(b) + k] = z[k]
    BY <1>3, <2>1, CatFacts
  <2>6. (b \o z)[Len(b) + 1] = 0
    BY <2>1, <2>5
  <2> QED BY <1>3, <1>5, <2>2, <2>3, <2>4, <2>5, <2>6, <2>a DEF b
<1> QED BY <1>4, <1>5

\* strlen() finds the first 0.
LEMMA StrLenIs ==
    ASSUME NEW mem \in Seq(Int), NEW a \in Nat, NEW n \in Nat, a + n < Len(mem),
           mem[a + n + 1] = 0, \A k \in 1 .. n : mem[a + k] # 0
    PROVE  StrLen(mem, a) = n
<1> DEFINE Ends(m) == /\ a + m = Len(mem) \/ mem[a + m + 1] = 0
                      /\ \A k \in 1 .. m : mem[a + k] # 0
<1>1. StrLen(mem, a) = CHOOSE m \in 0 .. Len(mem) - a : Ends(m)
  BY DEF StrLen
<1>2. n \in 0 .. Len(mem) - a /\ Ends(n)
  OBVIOUS
<1>3. ASSUME NEW m \in 0 .. Len(mem) - a, Ends(m) PROVE m = n
  <2>1. CASE m < n
    <3>1. m + 1 \in 1 .. n /\ a + (m + 1) = a + m + 1 /\ a + m # Len(mem)
      BY <2>1
    <3> QED BY <1>3, <3>1
  <2>2. CASE m > n
    <3>1. n + 1 \in 1 .. m /\ a + (n + 1) = a + n + 1
      BY <2>2
    <3> QED BY <1>3, <3>1
  <2> QED BY <2>1, <2>2
<1> HIDE DEF Ends
<1> QED BY <1>1, <1>2, <1>3

\* strlen() of what is in memory ends at a 0 or where memory ends.
LEMMA StrLenEnds ==
    ASSUME NEW mem \in Seq(Int), NEW a \in Nat, a <= Len(mem)
    PROVE  LET n == StrLen(mem, a) IN
           /\ n \in Nat /\ a + n <= Len(mem)
           /\ a + n = Len(mem) \/ mem[a + n + 1] = 0
<1> DEFINE Ends(m) == a + m = Len(mem) \/ mem[a + m + 1] = 0
           Text(m) == Ends(m) /\ \A k \in 1 .. m : mem[a + k] # 0
           T == { m \in 0 .. Len(mem) - a : Ends(m) }
<1>0. Len(mem) \in Nat /\ Len(mem) - a \in 0 .. Len(mem) - a /\ a + (Len(mem) - a) = Len(mem)
  OBVIOUS
<1>1. T \subseteq Nat /\ T # {}
  <2>1. Len(mem) - a \in T
    BY <1>0
  <2>2. \A m \in 0 .. Len(mem) - a : m \in Nat
    BY <1>0
  <2> HIDE DEF Ends
  <2> QED BY <2>1, <2>2
<1>2. PICK m \in T : \A y \in T : m <= y
  BY <1>1, Smallest
<1>3. m \in 0 .. Len(mem) - a /\ Ends(m)
  BY <1>2
<1>4. ASSUME NEW k \in 1 .. m PROVE mem[a + k] # 0
  <2>0. m \in 0 .. Len(mem) - a
    BY <1>3
  <2>1. k - 1 \in 0 .. Len(mem) - a /\ ~(m <= k - 1) /\ a + (k - 1) + 1 = a + k
    <3> HIDE DEF T
    <3> QED BY <1>0, <2>0
  <2> HIDE DEF Ends
  <2>2. ~Ends(k - 1)
    <3>1. k - 1 \notin T
      BY <1>2, <2>1
    <3> QED BY <2>1, <3>1
  <2> QED BY <2>1, <2>2 DEF Ends
<1>5. m \in 0 .. Len(mem) - a /\ Text(m)
  BY <1>3, <1>4
<1>6. StrLen(mem, a) = CHOOSE x \in 0 .. Len(mem) - a : Text(x)
  BY DEF StrLen
<1> HIDE DEF Text, Ends, T
<1>7. StrLen(mem, a) \in 0 .. Len(mem) - a /\ Text(StrLen(mem, a))
  BY ONLY <1>5, <1>6
<1> DEFINE n == StrLen(mem, a)
<1>8. n \in 0 .. Len(mem) - a /\ Ends(n)
  BY <1>7 DEF Text
<1> HIDE DEF n
<1>9. n \in Nat /\ a + n <= Len(mem)
  BY ONLY <1>0, <1>8, a \in Nat
<1> QED BY <1>8, <1>9 DEF n, Ends

\* The size that is computed where a section stands is the room it takes, and it can
\* be read.
LEMMA SizeOfField ==
    ASSUME NEW s, GoodSection(s), NEW mem, NEW a, FoundIn(mem, a, Stored(s))
    PROVE  SectionSize(s.type, mem, a) = Len(Stored(s)) /\ CanRead(s.type, mem, a)
<1> DEFINE f == Stored(s)
           n == Len(s.body)
<1>1. /\ a \in Nat /\ f \in Seq(Int) /\ mem \in Seq(Int) /\ a + Len(f) <= Len(mem)
      /\ \A k \in 1 .. Len(f) : mem[a + k] = f[k]
  BY DEF FoundIn
<1>2. /\ n \in Nat
      /\ IsUpper(s.type) => Len(f) = n + 4 /\ FoundIn(f, 0, Host(n))
      /\ ~IsUpper(s.type) => Len(f) = n + 1 /\ f[n + 1] = 0 /\ \A k \in 1 .. n : f[k] # 0
  BY StoredIs
<1>a. Fits32(n)
  BY DEF GoodSection
<1>b. FoundIn(mem, a, f)
  OBVIOUS
<1> HIDE DEF f, n
<1>3. CASE IsUpper(s.type)
  <2>1. FoundIn(mem, a + 0, Host(n))
    BY <1>2, <1>3, <1>b, PartOfPart
  <2>2. a + 0 = a
    BY <1>1
  <2>3. Uint32(mem, a) = n
    BY <1>2, <1>a, <2>1, <2>2, NumberRead
  <2>4. a + 4 <= Len(mem)
    BY <1>1, <1>2, <1>3
  <2> QED BY <1>2, <1>3, <2>3, <2>4 DEF SectionSize, CanRead, U32, f
<1>4. CASE ~IsUpper(s.type)
  <2>1. n + 1 \in 1 .. Len(f) /\ \A k \in 1 .. n : k \in 1 .. Len(f)
    BY <1>2, <1>4
  <2>2. mem[a + (n + 1)] = 0 /\ \A k \in 1 .. n : mem[a + k] # 0
    BY <1>1, <1>2, <1>4, <2>1
  <2>3. a + (n + 1) = a + n + 1 /\ a + n < Len(mem)
    BY <1>1, <1>2, <1>4
  <2>4. StrLen(mem, a) = n
    BY <1>1, <1>2, <2>2, <2>3, StrLenIs
  <2>5. a + (n + 1) \in a + 1 .. Len(mem)
    BY <1>1, <1>2, <2>3
  <2>6. CanRead(s.type, mem, a)
    BY <1>4, <2>2, <2>5 DEF CanRead
  <2> QED BY <1>2, <1>4, <2>4, <2>6 DEF SectionSize, f
<1> QED BY <1>3, <1>4
-----------------------------------------------------------------------------
(* What an article is in the file.                                          *)

\* FlattenSeq puts sequences together.
LEMMA FlattenTogether ==
    ASSUME NEW n \in Nat, NEW s \in [1 .. n -> Seq(Int)], NEW g, Together(g, s, n)
    PROVE  FlattenSeq(s) = g[n]
<1>0. Len(s) = n
  OBVIOUS
<1>1. CASE n = 0
  <2>1. s = <<>>
    BY <1>1
  <2> QED BY <1>0, <1>1, <2>1 DEF FlattenSeq, Together
<1>2. CASE n # 0
  <2>1. FlattenSeq(s) = Chosen(s, n)[n]
    BY <1>0, <1>2 DEF FlattenSeq, Chosen
  <2> QED BY <1>2, <2>1, ChosenTogether
<1> QED BY <1>1, <1>2

\* What is put together of cells is cells.
LEMMA TogetherCells ==
    ASSUME NEW n \in Nat, NEW s \in [1 .. n -> Seq(Int)], NEW g, Together(g, s, n),
           \A k \in 1 .. n : Cells(s[k]), NEW m \in 0 .. n
    PROVE  Cells(g[m])
<1> DEFINE S == { k \in Nat : k <= m => Cells(g[k]) }
<1>1. 0 \in S
  <2>1. g[0] = <<>> /\ <<>> \in Seq(Int) /\ Len(<<>>) = 0
    BY DEF Together
  <2>2. Cells(g[0])
    BY <2>1 DEF Cells
  <2> QED BY <2>2
<1>2. ASSUME NEW k \in 0 .. m - 1, k \in S PROVE k + 1 \in S
  <2>1. k + 1 \in 1 .. n /\ (k + 1) - 1 = k /\ k <= m /\ k + 1 \in Nat
    OBVIOUS
  <2>2. g[k + 1] = g[k] \o s[k + 1]
    BY <2>1 DEF Together
  <2>3. Cells(g[k]) /\ Cells(s[k + 1])
    BY <1>2, <2>1
  <2>4. Cells(g[k + 1])
    BY <2>2, <2>3, CellsBehind
  <2> QED BY <2>1, <2>4
<1> HIDE DEF S
<1>3. m \in S
  BY <1>1, <1>2, UpTo
<1> QED BY <1>3 DEF S

\* So is what FlattenSeq makes of cells.
LEMMA FlatCells ==
    ASSUME NEW n \in Nat, NEW s \in [1 .. n -> Seq(Int)], \A k \in 1 .. n : Cells(s[k])
    PROVE  Cells(FlattenSeq(s))
<1>1. PICK g : Together(g, s, n)
  BY TogetherExists
<1>2. n \in 0 .. n
  OBVIOUS
<1> QED BY <1>1, <1>2, TogetherCells, FlattenTogether

\* The sections of an article that is read as it was written stand in the file as they
\* do in memory, where they have a size.
LEMMA SizesStand ==
    ASSUME NEW types, NEW sections, Written(types, sections), NEW k \in 1 .. Len(sections),
           types = <<>> \/ k < Len(types)
    PROVE  Field(sections[k]) = Stored(sections[k])
<1>1. DOMAIN sections = 1 .. Len(sections) /\ GoodSection(sections[k])
  BY DEF Written, Legal
<1>2. IsUpper(sections[k].type) => Host(Len(sections[k].body)) = Network(Len(sections[k].body))
  BY <1>1 DEF Written, InHostOrder
<1> QED BY <1>1, <1>2, FieldIs

\* The sections in front of the last one, as they stand in the file.
FieldsOf(sections, n) == [k \in 1 .. n |-> Stored(sections[k])]

\* They are cells.
LEMMA FieldsAre ==
    ASSUME NEW types, NEW sections, Written(types, sections),
           NEW n \in Nat, n <= Len(sections)
    PROVE  /\ FieldsOf(sections, n) \in [1 .. n -> Seq(Int)]
           /\ \A k \in 1 .. n : /\ FieldsOf(sections, n)[k] = Stored(sections[k])
                                /\ GoodSection(sections[k]) /\ Cells(Stored(sections[k]))
<1>0. Len(sections) \in Nat
  BY DEF Written, Legal
<1>1. \A k \in 1 .. n : GoodSection(sections[k])
  BY <1>0 DEF Written, Legal
<1>2. \A k \in 1 .. n : Cells(Stored(sections[k]))
  BY <1>1, StoredIs
<1>3. \A k \in 1 .. n : Stored(sections[k]) \in Seq(Int)
  BY <1>2 DEF Cells
<1> QED BY <1>1, <1>2, <1>3 DEF FieldsOf

\* g[k] is the first k sections of an article with a sametypesequence, in the file;
\* the body of the last one follows all of the others.
LaidOut(g, types, sections) ==
    /\ Together(g, FieldsOf(sections, Len(types) - 1), Len(types) - 1)
    /\ InFile(types, sections) = g[Len(types) - 1] \o Last(sections).body

\* The number of its sections.
LEMMA SectionsCounted ==
    ASSUME NEW types, NEW sections, Written(types, sections), types # <<>>
    PROVE  /\ Len(types) \in Nat \ {0} /\ Len(types) - 1 \in Nat /\ Len(sections) = Len(types)
           /\ GoodSection(Last(sections))
<1>1. types \in Seq(1 .. 255) /\ Len(sections) = Len(types)
  BY DEF Written, Legal
<1>2. Len(types) \in Nat \ {0}
  BY <1>1, EmptySeq
<1>3. Len(sections) \in 1 .. Len(sections)
  BY <1>1, <1>2
<1> QED BY <1>1, <1>2, <1>3 DEF Last, Written, Legal

\* So it is laid out.
LEMMA RawLaidOut ==
    ASSUME NEW types, NEW sections, Written(types, sections), types # <<>>
    PROVE  \E g : LaidOut(g, types, sections)
<1> DEFINE n == Len(types) - 1
           s == FieldsOf(sections, n)
<1>1. n \in Nat /\ n <= Len(sections)
  BY SectionsCounted
<1> HIDE DEF n
<1>2. s \in [1 .. n -> Seq(Int)]
  BY <1>1, FieldsAre
<1>3. PICK g : Together(g, s, n)
  BY <1>1, <1>2, TogetherExists
<1>4. FlattenSeq(s) = g[n]
  BY <1>1, <1>2, <1>3, FlattenTogether
<1>5. InFile(types, sections) = FlattenSeq(s) \o Last(sections).body
  <2>1. n = Len(types) - 1 /\ n < Len(types) /\ \A k \in 1 .. n : k \in 1 .. Len(sections) /\ k < Len(types)
    BY <1>1, SectionsCounted DEF n
  <2>2. \A k \in 1 .. n : Field(sections[k]) = Stored(sections[k])
    BY <2>1, SizesStand
  <2>3. [k \in 1 .. n |-> Field(sections[k])] = s
    BY <2>2 DEF FieldsOf
  <2>4. InFile(types, sections) = FlattenSeq([k \in 1 .. n |-> Field(sections[k])])
                                  \o Last(sections).body
    BY DEF InFile, n
  <2> QED BY <2>3, <2>4
<1> QED BY <1>3, <1>4, <1>5 DEF LaidOut, n

\* The whole is as long as its parts, and consists of cells.
LEMMA LaidOutFacts ==
    ASSUME NEW types, NEW sections, Written(types, sections), types # <<>>,
           NEW g, LaidOut(g, types, sections)
    PROVE  LET n == Len(types) - 1
               raw == InFile(types, sections)
               body == Last(sections).body
           IN  /\ Cells(raw) /\ Len(raw) = Len(g[n]) + Len(body)
               /\ Cells(body) /\ Len(body) \in Nat /\ Len(g[n]) \in Nat
               /\ FoundIn(raw, 0, g[n]) /\ FoundIn(raw, Len(g[n]), body)
<1> DEFINE n == Len(types) - 1
           s == FieldsOf(sections, n)
           body == Last(sections).body
           raw == InFile(types, sections)
<1>1. n \in Nat /\ n <= Len(sections) /\ GoodSection(Last(sections))
  BY SectionsCounted
<1>2. Together(g, s, n) /\ raw = g[n] \o body
  BY DEF LaidOut
<1> HIDE DEF n, raw
<1>3. s \in [1 .. n -> Seq(Int)] /\ \A k \in 1 .. n : Cells(s[k])
  BY <1>1, FieldsAre
<1>4. Cells(g[n])
  <2>1. n \in 0 .. n
    BY <1>1
  <2> QED BY <1>1, <1>2, <1>3, <2>1, TogetherCells
<1>5. Cells(body)
  BY <1>1, BodyCells DEF GoodSection, Section
<1> HIDE DEF s, body
<1>6. Cells(raw) /\ Len(raw) = Len(g[n]) + Len(body) /\ Len(g[n]) \in Nat /\ Len(body) \in Nat
  BY <1>2, <1>4, <1>5, CellsBehind
<1>7. FoundIn(raw, 0, g[n]) /\ FoundIn(raw, Len(g[n]), body)
  BY <1>2, <1>4, <1>5, FoundBehind DEF Cells
<1> QED BY <1>5, <1>6, <1>7 DEF n, raw, body

\* The field of s is found at rd, and goes to next.
FieldAt(raw, rd, s, next) ==
    /\ FoundIn(raw, rd, Stored(s)) /\ GoodSection(s) /\ Cells(Stored(s))
    /\ rd \in Nat /\ Len(Stored(s)) \in Nat /\ next = rd + Len(Stored(s))

\* Each section in front of the last one is found behind those before it.
LEMMA FieldFound ==
    ASSUME NEW types, NEW sections, Written(types, sections), types # <<>>,
           NEW g, LaidOut(g, types, sections), NEW k \in 1 .. Len(types) - 1
    PROVE  /\ FieldAt(InFile(types, sections), Len(g[k - 1]), sections[k], Len(g[k]))
           /\ Len(g[k]) <= Len(g[Len(types) - 1])
<1> DEFINE n == Len(types) - 1
           s == FieldsOf(sections, n)
           raw == InFile(types, sections)
<1>1. n \in Nat /\ n <= Len(sections) /\ k \in 1 .. n /\ k - 1 \in 0 .. n
  BY SectionsCounted
<1>2. Together(g, s, n) /\ FoundIn(raw, 0, g[n])
  BY LaidOutFacts DEF LaidOut
<1> HIDE DEF n, raw
<1>3. /\ s \in [1 .. n -> Seq(Int)] /\ s[k] = Stored(sections[k])
      /\ GoodSection(sections[k]) /\ Cells(Stored(sections[k]))
  BY <1>1, FieldsAre
<1> HIDE DEF s
<1>4. FoundIn(g[n], Len(g[k - 1]), s[k])
  BY <1>1, <1>2, <1>3, EachIsFound
<1>5. g[k - 1] \in Seq(Int) /\ s[k] \in Seq(Int) /\ g[k] = g[k - 1] \o s[k]
  BY <1>1, <1>2, <1>3 DEF Together
<1>6. Len(g[k]) = Len(g[k - 1]) + Len(s[k]) /\ Len(g[k - 1]) \in Nat /\ Len(s[k]) \in Nat
  BY <1>5, CatFacts
<1>7. FoundIn(raw, 0 + Len(g[k - 1]), s[k])
  BY <1>2, <1>4, PartOfPart
<1>8. Len(g[k]) <= Len(g[n])
  BY <1>4, <1>6 DEF FoundIn
<1>9. 0 + Len(g[k - 1]) = Len(g[k - 1])
  BY <1>6
<1>10. FieldAt(raw, Len(g[k - 1]), sections[k], Len(g[k]))
  BY <1>3, <1>6, <1>7, <1>9 DEF FieldAt
<1> QED BY <1>8, <1>10 DEF n, raw
-----------------------------------------------------------------------------
(* GetWordData.                                                             *)

\* A piece of memory of m cells.
Memory(mem, m) == m \in Nat /\ mem \in [1 .. m -> Int]

\* The cells at address a are those given, and the others are as they were.
Wrote(new, mem, m, a, cells) ==
    /\ Memory(new, m)
    /\ \A k \in 1 .. m :
          /\ k \in a + 1 .. a + Len(cells) => new[k] = cells[k - a] /\ new[k] \in Nat
          /\ k \notin a + 1 .. a + Len(cells) => new[k] = mem[k]

\* What is written to memory has been written, and nothing else.
LEMMA WriteIs ==
    ASSUME NEW m, NEW mem, Memory(mem, m), NEW a \in Nat, NEW cells, Cells(cells)
    PROVE  Wrote(Write(mem, a, cells), mem, m, a, cells)
<1>1. m \in Nat /\ mem \in [1 .. m -> Int] /\ DOMAIN mem = 1 .. m
  BY DEF Memory
<1>2. Len(cells) \in Nat /\ \A k \in 1 .. Len(cells) : cells[k] \in Nat
  BY DEF Cells
<1>3. \A k \in 1 .. m : k \in a + 1 .. a + Len(cells) => k - a \in 1 .. Len(cells)
  BY <1>1, <1>2
<1>4. \A k \in 1 .. m : Write(mem, a, cells)[k] =
                            IF k \in a + 1 .. a + Len(cells) THEN cells[k - a] ELSE mem[k]
  BY <1>1 DEF Write
<1>5. \A k \in 1 .. m : Write(mem, a, cells)[k] \in Int
  BY <1>1, <1>2, <1>3, <1>4
<1>6. Write(mem, a, cells) \in [1 .. m -> Int]
  BY <1>1, <1>5 DEF Write
<1> QED BY <1>1, <1>2, <1>3, <1>4, <1>6 DEF Memory, Wrote

\* How long a piece of memory is.
LEMMA MemoryLen ==
    ASSUME NEW m, NEW mem, Memory(mem, m)
    PROVE  Len(mem) = m /\ DOMAIN mem = 1 .. m
BY DEF Memory

\* A byte is a number.
LEMMA BytesAreNumbers == \A x \in 1 .. 255 : x \in Nat
OBVIOUS

\* The types, and the types of the sections.
LEMMA TypesAre ==
    ASSUME NEW types, NEW sections, Written(types, sections), NEW k \in 1 .. Len(types)
    PROVE  types[k] \in Nat /\ sections[k].type = types[k]
<1>1. types \in Seq(1 .. 255)
  BY DEF Written, Legal
<1>2. types[k] \in 1 .. 255
  BY <1>1, ElementOfSeq
<1>3. types # <<>>
  <2>1. Len(types) \in Nat /\ Len(types) # 0
    BY <1>1
  <2> QED BY <2>1
<1>4. k \in 1 .. Len(sections) /\ \A c \in 1 .. Len(sections) : sections[c].type = types[c]
  BY <1>3 DEF Written, Legal
<1>5. sections[k].type = types[k]
  BY <1>4
<1>6. types[k] \in Nat
  BY <1>2, BytesAreNumbers
<1> QED BY <1>5, <1>6


\* The items of an article in memory: its sections, each with its type before it.
Item(s) == <<s.type>> \o Stored(s)
ItemsOf(sections) == [k \in 1 .. Len(sections) |-> Item(sections[k])]
Items(h, sections) == Together(h, ItemsOf(sections), Len(sections))

\* An item is cells, and the field of the section is found in it behind the type.
LEMMA ItemIs ==
    ASSUME NEW s, GoodSection(s)
    PROVE  /\ Cells(Item(s)) /\ Cells(Stored(s)) /\ Len(Stored(s)) \in Nat \ {0}
           /\ Len(Item(s)) = 1 + Len(Stored(s)) /\ Item(s)[1] = s.type
           /\ FoundIn(Item(s), 1, Stored(s))
<1> DEFINE t == <<s.type>>
           f == Stored(s)
<1>1. s.type \in 1 .. 255
  BY DEF GoodSection, Section
<1>2. s.type \in Nat
  BY <1>1, BytesAreNumbers
<1>3. Cells(t) /\ Len(t) = 1 /\ t[1] = s.type
  BY <1>2, OneCell
<1>4. Cells(f) /\ Len(f) \in Nat \ {0}
  <2>1. Cells(f) /\ Len(f) = Len(s.body) + Extra(s.type)
        /\ Len(s.body) \in Nat /\ Extra(s.type) \in Nat \ {0}
    BY StoredIs
  <2> QED BY <2>1
<1>5. Item(s) = t \o f
  BY DEF Item
<1> HIDE DEF t, f
<1>6. Cells(t \o f) /\ Len(t \o f) = 1 + Len(f)
  BY <1>3, <1>4, CellsBehind
<1>7. FoundIn(t \o f, Len(t), f) /\ FoundIn(t \o f, 0, t)
  BY <1>3, <1>4, FoundBehind DEF Cells
<1>8. (t \o f)[0 + 1] = t[1]
  BY <1>3, <1>7 DEF FoundIn
<1> QED BY <1>3, <1>4, <1>5, <1>6, <1>7, <1>8 DEF f

\* Every article has items.
LEMMA ItemsExist ==
    ASSUME NEW types, NEW sections, Written(types, sections)
    PROVE  /\ Len(sections) \in Nat
           /\ ItemsOf(sections) \in [1 .. Len(sections) -> Seq(Int)]
           /\ \A k \in 1 .. Len(sections) :
                 ItemsOf(sections)[k] = Item(sections[k]) /\ GoodSection(sections[k])
           /\ \E h : Items(h, sections)
<1> DEFINE n == Len(sections)
           s == ItemsOf(sections)
<1>1. n \in Nat /\ \A k \in 1 .. n : GoodSection(sections[k])
  BY DEF Written, Legal
<1>2. \A k \in 1 .. n : Item(sections[k]) \in Seq(Int)
  BY <1>1, ItemIs DEF Cells
<1>3. s \in [1 .. n -> Seq(Int)] /\ \A k \in 1 .. n : s[k] = Item(sections[k])
  BY <1>2 DEF ItemsOf
<1> HIDE DEF s, n
<1>4. \E h : Together(h, s, n)
  BY <1>1, <1>3, TogetherExists
<1> QED BY <1>1, <1>3, <1>4 DEF s, n, Items

\* The items up to each one are cells.
LEMMA ItemsAreCells ==
    ASSUME NEW types, NEW sections, Written(types, sections), NEW h, Items(h, sections),
           NEW k \in 0 .. Len(sections)
    PROVE  Cells(h[k]) /\ Len(h[k]) \in Nat
<1>1. /\ Len(sections) \in Nat
      /\ ItemsOf(sections) \in [1 .. Len(sections) -> Seq(Int)]
      /\ \A c \in 1 .. Len(sections) :
            ItemsOf(sections)[c] = Item(sections[c]) /\ GoodSection(sections[c])
  BY ItemsExist
<1>2. \A c \in 1 .. Len(sections) : Cells(ItemsOf(sections)[c])
  BY <1>1, ItemIs
<1>3. Cells(h[k])
  BY <1>1, <1>2, TogetherCells DEF Items
<1> QED BY <1>3 DEF Cells

\* Each item comes behind those before it.
LEMMA ItemFound ==
    ASSUME NEW types, NEW sections, Written(types, sections), NEW h, Items(h, sections),
           NEW k \in 1 .. Len(sections)
    PROVE  /\ k - 1 \in 0 .. Len(sections) /\ GoodSection(sections[k])
           /\ h[k] = h[k - 1] \o Item(sections[k])
           /\ Len(h[k]) = Len(h[k - 1]) + Len(Item(sections[k]))
           /\ FoundIn(h[Len(sections)], Len(h[k - 1]), Item(sections[k]))
<1>1. /\ Len(sections) \in Nat
      /\ ItemsOf(sections) \in [1 .. Len(sections) -> Seq(Int)]
      /\ \A c \in 1 .. Len(sections) :
            ItemsOf(sections)[c] = Item(sections[c]) /\ GoodSection(sections[c])
  BY ItemsExist
<1>2. k - 1 \in 0 .. Len(sections)
  BY <1>1
<1>3. h[k] = h[k - 1] \o Item(sections[k])
  BY <1>1 DEF Items, Together
<1>4. Cells(h[k - 1]) /\ Cells(Item(sections[k]))
  BY <1>1, <1>2, ItemsAreCells, ItemIs
<1>5. Len(h[k]) = Len(h[k - 1]) + Len(Item(sections[k]))
  BY <1>3, <1>4, CellsBehind
<1>6. FoundIn(h[Len(sections)], Len(h[k - 1]), ItemsOf(sections)[k])
  BY <1>1, EachIsFound DEF Items
<1> QED BY <1>1, <1>2, <1>3, <1>5, <1>6

\* With its types in the file an article is its items.
LEMMA RawIsItems ==
    ASSUME NEW types, NEW sections, Written(types, sections), types = <<>>,
           NEW h, Items(h, sections)
    PROVE  InFile(types, sections) = h[Len(sections)]
<1> DEFINE s == [k \in DOMAIN sections |-> <<sections[k].type>> \o Field(sections[k])]
<1>1. DOMAIN sections = 1 .. Len(sections)
  BY DEF Written, Legal
<1>2. s = ItemsOf(sections)
  <2>1. \A k \in DOMAIN sections : Field(sections[k]) = Stored(sections[k])
    BY <1>1, SizesStand
  <2> QED BY <1>1, <2>1 DEF ItemsOf, Item
<1>3. InFile(types, sections) = FlattenSeq(s)
  BY DEF InFile
<1> HIDE DEF s
<1> QED BY <1>2, <1>3, ItemsExist, FlattenTogether DEF Items

\* An article in the file is cells, whatever its sizes are.
LEMMA RawCells ==
    ASSUME NEW types, NEW sections, Legal(types, sections)
    PROVE  Cells(InFile(types, sections)) /\ Len(InFile(types, sections)) \in Nat
<1>1. /\ DOMAIN sections = 1 .. Len(sections) /\ Len(sections) \in Nat
      /\ \A k \in 1 .. Len(sections) : GoodSection(sections[k])
  BY DEF Legal
<1>2. \A k \in 1 .. Len(sections) : Cells(Field(sections[k])) /\ Cells(sections[k].body)
  BY <1>1, FieldIs
<1>3. CASE types = <<>>
  <2> DEFINE s == [k \in 1 .. Len(sections) |-> <<sections[k].type>> \o Field(sections[k])]
  <2>1. \A k \in 1 .. Len(sections) : Cells(<<sections[k].type>> \o Field(sections[k]))
    <3> SUFFICES ASSUME NEW k \in 1 .. Len(sections)
                 PROVE  Cells(<<sections[k].type>> \o Field(sections[k]))
      OBVIOUS
    <3>1. sections[k].type \in 1 .. 255
      BY <1>1 DEF GoodSection, Section
    <3>2. Cells(<<sections[k].type>>)
      BY <3>1, BytesAreNumbers, OneCell
    <3> QED BY <1>2, <3>2, CellsBehind
  <2>2. s \in [1 .. Len(sections) -> Seq(Int)] /\ \A k \in 1 .. Len(sections) : Cells(s[k])
    BY <2>1 DEF Cells
  <2>3. InFile(types, sections) = FlattenSeq(s)
    BY <1>1, <1>3 DEF InFile
  <2> HIDE DEF s
  <2>4. Cells(FlattenSeq(s))
    BY <1>1, <2>2, FlatCells
  <2> QED BY <2>3, <2>4 DEF Cells
<1>4. CASE types # <<>>
  <2> DEFINE n == Len(types) - 1
             s == [k \in 1 .. n |-> Field(sections[k])]
  <2>1. Len(types) \in Nat \ {0} /\ Len(sections) = Len(types)
    BY <1>4, EmptySeq DEF Legal
  <2>2. n \in Nat /\ \A k \in 1 .. n : k \in 1 .. Len(sections)
    BY <2>1
  <2>3. InFile(types, sections) = FlattenSeq(s) \o Last(sections).body
    BY <1>4 DEF InFile
  <2> HIDE DEF n
  <2>4. s \in [1 .. n -> Seq(Int)] /\ \A k \in 1 .. n : Cells(s[k])
    BY <1>2, <2>2 DEF Cells
  <2> HIDE DEF s
  <2>5. Cells(FlattenSeq(s))
    BY <2>2, <2>4, FlatCells
  <2>6. Len(sections) \in 1 .. Len(sections)
    BY <2>1
  <2>7. Cells(Last(sections).body)
    BY <1>2, <2>6 DEF Last
  <2>8. Cells(FlattenSeq(s) \o Last(sections).body)
    BY <2>5, <2>7, CellsBehind
  <2> QED BY <2>3, <2>8 DEF Cells
<1> QED BY <1>3, <1>4
-----------------------------------------------------------------------------
(* The copy.                                                                *)

\* Behind its size memory begins with these.
Holds(mem, part) == \A c \in 1 .. Len(part) : mem[U32 + c] = part[c]

\* Another item is written behind them.
LEMMA HoldsMore ==
    ASSUME NEW m, NEW mem, Memory(mem, m), NEW part, Cells(part), NEW item, Cells(item),
           Holds(mem, part), NEW wr, wr = U32 + Len(part), wr + Len(item) <= m
    PROVE  Memory(Write(mem, wr, item), m) /\ Holds(Write(mem, wr, item), part \o item)
<1> DEFINE new == Write(mem, wr, item)
           both == part \o item
<1>1. Len(part) \in Nat /\ Len(item) \in Nat /\ m \in Nat /\ wr = 4 + Len(part) /\ wr \in Nat
  BY DEF Cells, Memory, U32
<1>2. Wrote(new, mem, m, wr, item)
  BY <1>1, WriteIs
<1>3. /\ Len(both) = Len(part) + Len(item)
      /\ \A c \in 1 .. Len(part) : both[c] = part[c]
      /\ \A c \in 1 .. Len(item) : both[Len(part) + c] = item[c]
  BY CatFacts DEF Cells
<1> HIDE DEF new, both
<1>4. ASSUME NEW c \in 1 .. Len(both) PROVE new[4 + c] = both[c]
  <2>1. 4 + c \in 1 .. m
    BY <1>1, <1>3
  <2>2. CASE c \in 1 .. Len(part)
    <3>1. 4 + c \notin wr + 1 .. wr + Len(item)
      BY <1>1, <2>2
    <3>2. new[4 + c] = mem[4 + c]
      BY <1>2, <2>1, <3>1 DEF Wrote
    <3> QED BY <1>3, <2>2, <3>2 DEF Holds, U32
  <2>3. CASE c \notin 1 .. Len(part)
    <3>1. /\ 4 + c \in wr + 1 .. wr + Len(item) /\ (4 + c) - wr = c - Len(part)
          /\ c - Len(part) \in 1 .. Len(item) /\ Len(part) + (c - Len(part)) = c
      BY <1>1, <1>3, <2>3
    <3>2. new[4 + c] = item[c - Len(part)]
      BY <1>2, <2>1, <3>1 DEF Wrote
    <3> QED BY <1>3, <3>1, <3>2
  <2> QED BY <2>2, <2>3
<1> QED BY <1>2, <1>4 DEF Holds, U32, Wrote, new, both

\* The size of a piece of memory is put in front.
LEMMA SizePut ==
    ASSUME NEW m, NEW mem, Memory(mem, m), U32 <= m, Fits32(m)
    PROVE  LET new == Write(mem, 0, Host(m)) IN
           /\ Memory(new, m) /\ Uint32(new, 0) = m
           /\ \A k \in 1 .. m : /\ k <= 4 => new[k] \in Nat
                                /\ k > 4 => new[k] = mem[k]
<1> DEFINE size == Host(m)
           new == Write(mem, 0, size)
<1>1. m \in Nat /\ 4 <= m
  BY DEF Memory, U32
<1>2. Cells(size) /\ Len(size) = 4
  BY <1>1, BytesOf, BodyCells
<1> HIDE DEF size
<1>3. Wrote(new, mem, m, 0, size)
  BY <1>2, WriteIs
<1> HIDE DEF new
<1>4. \A k \in 1 .. m : (k \in 0 + 1 .. 0 + Len(size) <=> k <= 4) /\ k - 0 = k /\ 0 + k = k
  BY <1>1, <1>2
<1>5. \A k \in 1 .. m : /\ k <= 4 => new[k] = size[k] /\ new[k] \in Nat
                        /\ k > 4 => new[k] = mem[k]
  BY <1>1, <1>3, <1>4 DEF Wrote
<1>6. new \in Seq(Int) /\ Len(new) = m
  <2>1. new \in [1 .. m -> Int]
    BY <1>3 DEF Wrote, Memory
  <2> QED BY <1>1, <2>1
<1>7. FoundIn(new, 0, size)
  <2>1. \A k \in 1 .. Len(size) : k \in 1 .. m /\ k <= 4
    BY <1>1, <1>2
  <2> QED BY <1>1, <1>2, <1>4, <1>5, <1>6, <2>1 DEF FoundIn, Cells
<1>8. Uint32(new, 0) = m
  BY <1>1, <1>7, NumberRead DEF size
<1> QED BY <1>3, <1>5, <1>8 DEF Wrote, new, size

\* The copy is done, and its size stands in front.
Complete(mem, wr, all) ==
    /\ Cells(all) /\ Memory(mem, wr) /\ wr = U32 + Len(all)
    /\ Uint32(mem, 0) = wr /\ Holds(mem, all)

\* The size is written last.
LEMMA SizeWritten ==
    ASSUME NEW mem, NEW wr, NEW all, Cells(all), Memory(mem, wr), wr = U32 + Len(all),
           Holds(mem, all), Fits32(wr)
    PROVE  Complete(Write(mem, 0, Host(Len(mem))), wr, all)
<1> DEFINE new == Write(mem, 0, Host(wr))
<1>1. wr = 4 + Len(all) /\ Len(all) \in Nat /\ wr \in Nat /\ U32 <= wr
  BY DEF Cells, U32
<1>2. Len(mem) = wr
  BY MemoryLen
<1>3. /\ Memory(new, wr) /\ Uint32(new, 0) = wr
      /\ \A k \in 1 .. wr : k > 4 => new[k] = mem[k]
  BY <1>1, SizePut
<1> HIDE DEF new
<1>4. ASSUME NEW c \in 1 .. Len(all) PROVE new[4 + c] = all[c]
  <2>1. 4 + c \in 1 .. wr /\ 4 + c > 4
    BY <1>1
  <2>2. new[4 + c] = mem[4 + c]
    BY <1>3, <2>1
  <2> QED BY <2>2 DEF Holds, U32
<1>5. Complete(new, wr, all)
  BY <1>3, <1>4 DEF Complete, Holds, U32
<1> QED BY <1>2, <1>5 DEF new

\* There is an article where GetWordData works, and it is one of a library.
Located(lib, place) ==
    place.dict \in DOMAIN lib /\ place.article \in DOMAIN lib[place.dict].articles

\* The article that is worked on.
LEMMA LegalHere ==
    ASSUME dicts \in Libraries, Located(dicts, at)
    PROVE  Legal(Types, Sections)
BY ArticlesAreLegal DEF Located, Types, Sections

\* It is read as it was written when its sizes are in the order of the host.
LEMMA WrittenHere ==
    ASSUME dicts \in Libraries, Located(dicts, at), InHostOrder(Types, Sections)
    PROVE  Written(Types, Sections)
BY LegalHere DEF Written

\* What is allocated: the size, the types, and what the file leaves out of the last section.
LEMMA RoomIs ==
    ASSUME NEW types, NEW sections, Legal(types, sections), types # <<>>
    PROVE  /\ DataSize(types, Len(InFile(types, sections)))
                  = Len(InFile(types, sections)) + Extra(Last(types)) + Len(types) + 4
           /\ DataSize(types, Len(InFile(types, sections))) \in Nat
           /\ Fits32(DataSize(types, Len(InFile(types, sections))))
           /\ Len(types) \in Nat \ {0} /\ Len(sections) = Len(types)
           /\ Extra(Last(types)) \in 1 .. 4
<1> DEFINE a == Len(InFile(types, sections))
           n == Len(types)
           e == Extra(Last(types))
<1>1. n \in Nat \ {0} /\ Len(sections) = n
  BY EmptySeq DEF Legal
<1>2. a \in Nat
  BY RawCells
<1>3. e \in 1 .. 4
  BY DEF Extra, U32
<1>4. DataSize(types, a) = a + 4 + n + e
  BY DEF DataSize, Extra, U32
<1>5. Fits32(a + n + 2 * 4)
  BY DEF Legal, U32
<1> HIDE DEF a, n, e
<1>6. DataSize(types, a) = a + e + n + 4 /\ DataSize(types, a) \in Nat
      /\ a + n + 2 * 4 \in Nat /\ DataSize(types, a) <= a + n + 2 * 4
  BY <1>1, <1>2, <1>3, <1>4
<1>7. Fits32(DataSize(types, a))
  BY <1>5, <1>6, SmallerFits
<1> QED BY <1>1, <1>3, <1>6, <1>7 DEF a, n, e

\* It is what the sections, their types and the size take.
LEMMA RoomIsExact ==
    ASSUME NEW types, NEW sections, Written(types, sections), types # <<>>,
           NEW g, LaidOut(g, types, sections)
    PROVE  /\ DataSize(types, Len(InFile(types, sections)))
                  = Len(g[Len(types) - 1]) + Len(Stored(Last(sections))) + Len(types) + 4
           /\ DataSize(types, Len(InFile(types, sections))) \in Nat
           /\ Fits32(DataSize(types, Len(InFile(types, sections))))
           /\ Len(Stored(Last(sections))) \in Nat
<1> DEFINE a == Len(InFile(types, sections))
           b == Len(g[Len(types) - 1])
           c == Len(Last(sections).body)
           n == Len(types)
           e == Extra(Last(types))
           f == Len(Stored(Last(sections)))
<1>1. /\ DataSize(types, a) = a + e + n + 4 /\ DataSize(types, a) \in Nat
      /\ Fits32(DataSize(types, a)) /\ e \in 1 .. 4
  BY RoomIs DEF Written
<1>2. n \in Nat \ {0} /\ a = b + c /\ b \in Nat /\ c \in Nat /\ Len(sections) = n
      /\ GoodSection(Last(sections))
  BY SectionsCounted, LaidOutFacts
<1>3. Last(types) = Last(sections).type
  <2>1. n \in 1 .. n
    BY <1>2
  <2> QED BY <1>2, <2>1, TypesAre DEF Last
<1>4. f = c + e
  BY <1>2, <1>3, StoredIs
<1> HIDE DEF a, b, c, n, e, f
<1>5. DataSize(types, a) = b + f + n + 4 /\ f \in Nat
  BY <1>1, <1>2, <1>4
<1> QED BY <1>1, <1>5 DEF a, b, n, f

\* What the copy has come to, of an article that is laid out as g says: as many
\* items were written as sections were read.
Copied(g, h, mem, wr, rd, k, types, sections) ==
    /\ types # <<>> /\ LaidOut(g, types, sections) /\ Items(h, sections)
    /\ k \in 1 .. Len(types)
    /\ Memory(mem, DataSize(types, Len(InFile(types, sections))))
    /\ rd = Len(g[k - 1]) /\ wr = U32 + (k - 1) + rd
    /\ wr = U32 + Len(h[k - 1]) /\ Holds(mem, h[k - 1])

\* Before the first section.
LEMMA CopyBegins ==
    ASSUME NEW types, NEW sections, Written(types, sections), types # <<>>,
           NEW mem, mem = [k \in 1 .. DataSize(types, Len(InFile(types, sections))) |-> Unset]
    PROVE  \E g, h : Copied(g, h, mem, U32, 0, 1, types, sections)
<1> DEFINE size == DataSize(types, Len(InFile(types, sections)))
<1>1. PICK g : LaidOut(g, types, sections)
  BY RawLaidOut
<1>2. PICK h : Items(h, sections)
  BY ItemsExist
<1>3. Len(types) \in Nat \ {0}
  BY SectionsCounted
<1>4. size \in Nat
  BY <1>1, RoomIsExact
<1>5. mem = [k \in 1 .. size |-> Unset]
  OBVIOUS
<1> HIDE DEF size
<1>6. Memory(mem, size)
  BY <1>4, <1>5 DEF Memory, Unset
<1>7. g[0] = <<>> /\ h[0] = <<>>
  BY <1>1, <1>2 DEF LaidOut, Items, Together
<1>8. Len(g[1 - 1]) = 0 /\ Len(h[1 - 1]) = 0 /\ 1 - 1 = 0
  BY <1>7
<1>9. 1 \in 1 .. Len(types) /\ U32 = U32 + (1 - 1) + 0 /\ U32 = U32 + 0
  BY <1>3 DEF U32
<1>10. Holds(mem, h[1 - 1])
  BY <1>8 DEF Holds
<1>11. Copied(g, h, mem, U32, 0, 1, types, sections)
  BY <1>1, <1>2, <1>6, <1>8, <1>9, <1>10 DEF Copied, size
<1> QED BY <1>11

\* A section in front of the last one: it is read as it stands in the file.
LEMMA CopyGoesOn ==
    ASSUME NEW types, NEW sections, Written(types, sections), NEW g, NEW h,
           NEW mem, NEW wr, NEW rd, NEW k, Copied(g, h, mem, wr, rd, k, types, sections),
           k < Len(types),
           NEW raw, raw = InFile(types, sections),
           NEW size, size = SectionSize(types[k], raw, rd)
    PROVE  Copied(g, h, Write(mem, wr, <<types[k]>> \o SubSeq(raw, rd + 1, rd + size)),
                  wr + 1 + size, rd + size, k + 1, types, sections)
<1> DEFINE f == Stored(sections[k])
           m == DataSize(types, Len(InFile(types, sections)))
           item == Item(sections[k])
           new == Write(mem, wr, item)
<1>1. /\ types # <<>> /\ LaidOut(g, types, sections) /\ Items(h, sections) /\ k \in 1 .. Len(types)
      /\ Memory(mem, m) /\ rd = Len(g[k - 1]) /\ wr = 4 + (k - 1) + rd
      /\ wr = U32 + Len(h[k - 1]) /\ Holds(mem, h[k - 1])
  BY DEF Copied, U32
<1>2. Len(types) \in Nat /\ Len(sections) = Len(types)
  BY <1>1, SectionsCounted
<1>3. k \in Nat /\ k \in 1 .. Len(types) - 1 /\ k + 1 \in 1 .. Len(types) /\ (k + 1) - 1 = k
  BY <1>1, <1>2
<1>a. sections[k].type = types[k]
  BY <1>3, TypesAre
<1>4. /\ FoundIn(raw, rd, f) /\ GoodSection(sections[k]) /\ Cells(f)
      /\ rd \in Nat /\ Len(f) \in Nat /\ Len(g[k]) = rd + Len(f)
  <2>1. FieldAt(raw, rd, sections[k], Len(g[k]))
    BY <1>1, <1>3, FieldFound
  <2> QED BY <2>1 DEF FieldAt
<1>5. size = Len(f)
  BY <1>4, <1>a, SizeOfField
<1>6. SubSeq(raw, rd + 1, rd + size) = f
  BY <1>4, <1>5, PartIs DEF FoundIn
<1>7. <<types[k]>> \o SubSeq(raw, rd + 1, rd + size) = item
  BY <1>a, <1>6 DEF Item
<1>8. Cells(item) /\ Len(item) = 1 + size
  BY <1>4, <1>5, ItemIs
<1>9. k - 1 \in 0 .. Len(sections) /\ h[k] = h[k - 1] \o item /\ Len(h[k]) = Len(h[k - 1]) + Len(item)
  BY <1>1, <1>2, ItemFound
<1>b. Cells(h[k - 1]) /\ Len(h[k - 1]) \in Nat
  BY <1>1, <1>9, ItemsAreCells
<1> HIDE DEF f, m, item
<1>c. wr \in Nat /\ size \in Nat
  <2>1. wr = 4 + (k - 1) + rd
    BY <1>1
  <2>2. k - 1 \in Nat
    BY ONLY <1>1, <1>3
  <2> QED BY ONLY <1>4, <1>5, <2>1, <2>2
<1>10. wr + 1 + size = U32 + ((k + 1) - 1) + (rd + size)
  <2>1. wr = 4 + (k - 1) + rd
    BY <1>1
  <2>2. wr + 1 + size = 4 + ((k + 1) - 1) + (rd + size)
    BY ONLY <1>3, <1>4, <1>c, <2>1
  <2> QED BY <2>2 DEF U32
<1>11. rd + size = Len(g[(k + 1) - 1])
  BY ONLY <1>3, <1>4, <1>5
<1>12. wr + Len(item) <= m
  <2> DEFINE all == Len(g[Len(types) - 1])
             last == Len(Stored(Last(sections)))
  <2>1. Len(g[k]) <= all /\ all \in Nat
    BY <1>1, <1>3, FieldFound, LaidOutFacts
  <2>2. m = all + last + Len(types) + 4 /\ last \in Nat
    BY <1>1, RoomIsExact DEF m
  <2> HIDE DEF all, last
  <2>3. wr = 4 + (k - 1) + rd
    BY <1>1
  <2> QED BY ONLY <1>2, <1>3, <1>4, <1>5, <1>8, <1>c, <2>1, <2>2, <2>3
<1>13. Memory(new, m) /\ Holds(new, h[k])
  BY <1>1, <1>8, <1>9, <1>12, <1>b, HoldsMore
<1>14. wr + 1 + size = U32 + Len(h[(k + 1) - 1])
  <2> DEFINE x == Len(h[k - 1])
             y == Len(h[k])
             z == Len(item)
  <2>1. wr = 4 + x /\ y = x + z /\ z = 1 + size /\ x \in Nat
    BY <1>1, <1>8, <1>9, <1>b DEF U32
  <2>2. Len(h[(k + 1) - 1]) = y
    BY <1>3
  <2> HIDE DEF x, y, z
  <2>3. wr + 1 + size = 4 + y
    BY ONLY <1>c, <2>1
  <2> QED BY <2>2, <2>3 DEF U32
<1>15. Holds(new, h[(k + 1) - 1])
  BY <1>3, <1>13
<1> HIDE DEF new
<1>16. Copied(g, h, new, wr + 1 + size, rd + size, k + 1, types, sections)
  BY <1>1, <1>3, <1>10, <1>11, <1>13, <1>14, <1>15 DEF Copied, m
<1> QED BY <1>7, <1>16 DEF new

\* The last one: the end or the size that the file leaves out fits as well, and
\* nothing is left over.
LEMMA CopyEnds ==
    ASSUME NEW types, NEW sections, Written(types, sections), NEW g, NEW h,
           NEW mem, NEW wr, NEW rd, NEW k, Copied(g, h, mem, wr, rd, k, types, sections),
           k = Len(types),
           NEW item, item = Item(Last(sections))
    PROVE  /\ Complete(Write(Write(mem, wr, item), 0, Host(Len(mem))), wr + Len(item),
                       h[Len(sections)])
           /\ SubSeq(InFile(types, sections), rd + 1, Len(InFile(types, sections)))
                  = Last(sections).body
<1> DEFINE m == DataSize(types, Len(InFile(types, sections)))
           n == Len(types)
           all == Len(g[n - 1])
           body == Last(sections).body
           raw == InFile(types, sections)
           mid == Write(mem, wr, item)
<1>1. /\ types # <<>> /\ LaidOut(g, types, sections) /\ Items(h, sections)
      /\ Memory(mem, m) /\ rd = all /\ wr = 4 + (n - 1) + rd
      /\ wr = U32 + Len(h[n - 1]) /\ Holds(mem, h[n - 1])
  BY DEF Copied, U32
<1>2. n \in Nat \ {0} /\ Len(sections) = n /\ GoodSection(Last(sections))
  BY <1>1, SectionsCounted
<1>3. /\ FoundIn(raw, all, body) /\ Len(raw) = all + Len(body)
      /\ Len(body) \in Nat /\ all \in Nat
  BY <1>1, LaidOutFacts
<1> DEFINE last == Len(Stored(Last(sections)))
<1>4. m = all + last + n + 4 /\ m \in Nat /\ Fits32(m) /\ last \in Nat
  BY <1>1, RoomIsExact
<1>5. SubSeq(raw, rd + 1, Len(raw)) = body
  BY <1>1, <1>3, PartIs DEF FoundIn
<1>6. Cells(item) /\ Len(item) = 1 + last
  BY <1>2, ItemIs
<1>7. n - 1 \in 0 .. n /\ n \in 1 .. n /\ n \in 0 .. n /\ Last(sections) = sections[n]
  <2>1. Last(sections) = sections[n]
    BY <1>2 DEF Last
  <2> HIDE DEF n
  <2>2. n - 1 \in 0 .. n /\ n \in 1 .. n /\ n \in 0 .. n
    BY ONLY <1>2
  <2> QED BY <2>1, <2>2
<1>8. h[n] = h[n - 1] \o item
  <2>1. n \in 1 .. Len(sections) /\ item = Item(sections[n]) /\ Items(h, sections)
    BY <1>1, <1>2, <1>7
  <2> HIDE DEF n
  <2> QED BY <2>1, ItemFound
<1>9. Cells(h[n - 1]) /\ Len(h[n - 1]) \in Nat /\ Cells(h[n]) /\ Len(h[n]) = Len(h[n - 1]) + Len(item)
  <2>1. Cells(h[n - 1]) /\ Len(h[n - 1]) \in Nat /\ Cells(h[n])
    BY <1>1, <1>2, <1>7, ItemsAreCells
  <2> QED BY <1>6, <1>8, <2>1, CellsBehind
<1> HIDE DEF m, n, all, body, raw, last
<1>10. wr \in Nat /\ wr + Len(item) = m /\ Len(item) \in Nat
  <2>1. rd = all /\ wr = 4 + (n - 1) + rd
    BY <1>1
  <2> QED BY ONLY <2>1, <1>2, <1>3, <1>4, <1>6
<1>11. Memory(mid, m) /\ Holds(mid, h[n])
  BY <1>1, <1>4, <1>6, <1>8, <1>9, <1>10, HoldsMore
<1>12. Len(mem) = m /\ Len(mid) = m
  BY <1>1, <1>11, MemoryLen
<1> HIDE DEF mid
<1>13. wr + Len(item) = U32 + Len(h[n])
  <2>1. wr = 4 + Len(h[n - 1])
    BY <1>1 DEF U32
  <2>2. wr + Len(item) = 4 + Len(h[n])
    BY ONLY <1>9, <1>10, <2>1
  <2> QED BY <2>2 DEF U32
<1>14. Memory(mid, wr + Len(item)) /\ Fits32(wr + Len(item))
  BY <1>4, <1>10, <1>11
<1>15. Complete(Write(mid, 0, Host(Len(mid))), wr + Len(item), h[n])
  BY <1>9, <1>11, <1>13, <1>14, SizeWritten
<1>16. Complete(Write(mid, 0, Host(Len(mem))), wr + Len(item), h[Len(sections)])
  BY <1>2, <1>12, <1>15
<1> QED BY <1>5, <1>16 DEF mid, raw, body

\* Without a sametypesequence the file is copied behind the size.
LEMMA PlainCopy ==
    ASSUME NEW raw, Cells(raw), Fits32(Len(raw) + U32)
    PROVE  /\ Complete(Host(Len(raw) + U32) \o raw, Len(raw) + U32, raw)
           /\ Cells(Host(Len(raw) + U32) \o raw)
<1> DEFINE size == Host(Len(raw) + U32)
           new == size \o raw
           wr == Len(raw) + U32
<1>1. Len(raw) \in Nat /\ wr \in Nat /\ wr = 4 + Len(raw)
  BY DEF Cells, U32
<1>2. Cells(size) /\ Len(size) = 4
  BY <1>1, BytesOf, BodyCells
<1>a. size = Host(wr) /\ Fits32(wr)
  OBVIOUS
<1> HIDE DEF size, wr
<1>3. Cells(new) /\ Len(new) = wr
  BY <1>1, <1>2, CellsBehind
<1>4. FoundIn(new, 0, size) /\ FoundIn(new, Len(size), raw)
  BY <1>2, FoundBehind DEF Cells
<1> HIDE DEF new
<1>5. Uint32(new, 0) = wr
  BY <1>1, <1>4, <1>a, NumberRead
<1>6. \A k \in 1 .. Len(raw) : new[4 + k] = raw[k]
  BY <1>2, <1>4 DEF FoundIn
<1>7. Memory(new, wr)
  <2>1. new \in Seq(Int)
    BY <1>3 DEF Cells
  <2>2. new \in [1 .. Len(new) -> Int]
    BY <2>1, LenProperties
  <2> QED BY <1>1, <1>3, <2>2 DEF Memory
<1>8. Complete(new, wr, raw)
  BY <1>1, <1>5, <1>6, <1>7 DEF Complete, Holds, U32
<1> QED BY <1>3, <1>8 DEF new, size, wr
-----------------------------------------------------------------------------
(* parse_data.                                                              *)

\* What it shows of the first sections, one more at a time.
LEMMA ShownGrows ==
    ASSUME NEW sections, NEW dict, Len(sections) \in Nat
    PROVE  /\ ShownOf(sections, dict)[0] = <<>>
           /\ \A k \in 1 .. Len(sections) : ShownOf(sections, dict)[k] =
                  AddShown(ShownOf(sections, dict)[k - 1], sections[k], dict)
<1> DEFINE n == Len(sections)
           Next1(r, k) == IF k = 0 THEN <<>> ELSE AddShown(r[k - 1], sections[k], dict)
           Upto(r, m) == \A k \in 0 .. m : r[k] = Next1(r, k)
           S == { m \in Nat : \E r : Upto(r, m) }
           Is(r) == r = [k \in 0 .. n |-> Next1(r, k)]
           f == CHOOSE r : Is(r)
<1>1. ShownOf(sections, dict) = f
  BY DEF ShownOf
<1>2. 0 \in S
  <2> DEFINE e == [k \in 0 .. 0 |-> <<>>]
  <2>1. Upto(e, 0)
    OBVIOUS
  <2> QED BY <2>1
<1>3. ASSUME NEW m \in 0 .. n - 1, m \in S PROVE m + 1 \in S
  <2>1. PICK r : Upto(r, m)
    BY <1>3
  <2> DEFINE last == AddShown(r[m], sections[m + 1], dict)
             q == [k \in 0 .. m + 1 |-> IF k = m + 1 THEN last ELSE r[k]]
  <2>2. /\ \A k \in 0 .. m : k \in 0 .. m + 1 /\ k # m + 1
        /\ m + 1 \in 0 .. m + 1 /\ m + 1 # 0 /\ (m + 1) - 1 = m /\ m \in 0 .. m
        /\ \A k \in 0 .. m : k # 0 => k - 1 \in 0 .. m
        /\ \A k \in 0 .. m + 1 : k = m + 1 \/ k \in 0 .. m
    OBVIOUS
  <2>3. q[m + 1] = last /\ \A k \in 0 .. m : q[k] = r[k]
    BY <2>2
  <2> HIDE DEF q
  <2>4. ASSUME NEW k \in 0 .. m + 1 PROVE q[k] = Next1(q, k)
    <3>1. CASE k = m + 1
      BY <2>2, <2>3, <3>1
    <3>2. CASE k \in 0 .. m
      <4>1. q[k] = Next1(r, k)
        BY <2>1, <2>3, <3>2
      <4>2. Next1(r, k) = Next1(q, k)
        BY <2>2, <2>3, <3>2
      <4> QED BY <4>1, <4>2
    <3> QED BY <2>2, <3>1, <3>2
  <2> HIDE DEF Next1
  <2>5. Upto(q, m + 1) /\ m + 1 \in Nat
    BY <2>4
  <2> QED BY <2>5
<1> HIDE DEF S
<1>4. n \in S
  BY <1>2, <1>3, UpTo
<1>5. PICK r : Upto(r, n)
  BY <1>4 DEF S
<1> DEFINE q == [k \in 0 .. n |-> r[k]]
<1>6. Is(q)
  <2>1. \A k \in 0 .. n : q[k] = r[k] /\ (k # 0 => k - 1 \in 0 .. n)
    OBVIOUS
  <2> HIDE DEF q
  <2>2. \A k \in 0 .. n : r[k] = Next1(q, k)
    BY <1>5, <2>1
  <2>3. [k \in 0 .. n |-> r[k]] = [k \in 0 .. n |-> Next1(q, k)]
    BY <2>2
  <2> QED BY <2>3 DEF q
<1>7. Is(f)
  <2> HIDE DEF Is, q
  <2> QED BY <1>6
<1>8. \A k \in 0 .. n : f[k] = Next1(f, k)
  <2> HIDE DEF f
  <2> QED BY <1>7
<1> HIDE DEF f
<1>9. f[0] = <<>> /\ \A k \in 1 .. n : f[k] = AddShown(f[k - 1], sections[k], dict)
  BY <1>8
<1> QED BY <1>1, <1>9

\* At q there are the type of s and its field, and then comes what is at next.
ItemAt(mem, wr, q, s, next) ==
    /\ q \in Nat /\ q < wr /\ GoodSection(s) /\ mem[q + 1] = s.type
    /\ FoundIn(mem, q + 1, Stored(s)) /\ next = q + 1 + Len(Stored(s))

\* Where an item begins there are its type and its field, and then the next one.
LEMMA SectionRead ==
    ASSUME NEW types, NEW sections, Written(types, sections), NEW h, Items(h, sections),
           NEW mem, NEW wr, Complete(mem, wr, h[Len(sections)]),
           NEW j \in 0 .. Len(sections) - 1, NEW q, q = U32 + Len(h[j])
    PROVE  ItemAt(mem, wr, q, sections[j + 1], U32 + Len(h[j + 1]))
<1> DEFINE s == sections[j + 1]
           n == Len(sections)
           all == h[n]
<1>1. n \in Nat
  BY ItemsExist
<1>2. j + 1 \in 1 .. Len(sections) /\ (j + 1) - 1 = j /\ j \in 0 .. Len(sections)
  BY <1>1
<1>3. /\ GoodSection(s) /\ Len(h[j + 1]) = Len(h[j]) + Len(Item(s))
      /\ FoundIn(all, Len(h[j]), Item(s))
  <2>1. /\ GoodSection(s) /\ Len(h[j + 1]) = Len(h[(j + 1) - 1]) + Len(Item(s))
        /\ FoundIn(all, Len(h[(j + 1) - 1]), Item(s))
    BY <1>2, ItemFound
  <2> QED BY <1>2, <2>1
<1>4. Len(h[j]) \in Nat
  BY <1>2, ItemsAreCells
<1>5. /\ Cells(Item(s)) /\ Len(Stored(s)) \in Nat \ {0} /\ Len(Item(s)) = 1 + Len(Stored(s))
      /\ Item(s)[1] = s.type /\ FoundIn(Item(s), 1, Stored(s))
  BY <1>3, ItemIs
<1>6. Cells(all) /\ Memory(mem, wr) /\ wr = 4 + Len(all) /\ Holds(mem, all)
  BY DEF Complete, U32
<1> HIDE DEF s, all
<1>7. mem \in Seq(Int) /\ Len(mem) = wr
  <2>1. wr \in Nat /\ mem \in [1 .. wr -> Int]
    BY <1>6 DEF Memory
  <2> QED BY <2>1
<1>8. FoundIn(mem, 4, all)
  <2>1. all \in Seq(Int) /\ Len(all) \in Nat
    BY <1>6 DEF Cells
  <2>2. \A c \in 1 .. Len(all) : mem[4 + c] = all[c]
    BY <1>6 DEF Holds, U32
  <2> QED BY <1>6, <1>7, <2>1, <2>2 DEF FoundIn
<1>9. FoundIn(mem, 4 + Len(h[j]), Item(s))
  BY <1>3, <1>8, PartOfPart
<1>10. q = 4 + Len(h[j]) /\ q \in Nat
  BY <1>4 DEF U32
<1>11. FoundIn(mem, q, Item(s))
  BY <1>9, <1>10
<1>12. FoundIn(mem, q + 1, Stored(s))
  BY <1>5, <1>11, PartOfPart
<1>13. mem[q + 1] = s.type /\ q < wr
  <2> DEFINE item == Item(s)
             one == 1
  <2>1. q + Len(item) <= Len(mem) /\ \A c \in 1 .. Len(item) : mem[q + c] = item[c]
    BY <1>11 DEF FoundIn
  <2>2. Len(item) \in Nat /\ Len(item) > 1 /\ one \in 1 .. Len(item) /\ item[one] = s.type
    BY <1>5
  <2> HIDE DEF item, one
  <2>3. q < wr
    BY ONLY <1>7, <1>10, <2>1, <2>2
  <2>4. mem[q + one] = s.type
    BY <2>1, <2>2
  <2> QED BY <2>3, <2>4 DEF one
<1>14. U32 + Len(h[j + 1]) = q + 1 + Len(Stored(s))
  <2> DEFINE x == Len(h[j])
             y == Len(h[j + 1])
             z == Len(Stored(s))
  <2>1. q = 4 + x /\ y = x + (1 + z) /\ x \in Nat /\ z \in Nat
    BY <1>3, <1>4, <1>5, <1>10
  <2> HIDE DEF x, y, z
  <2>2. 4 + y = q + 1 + z
    BY ONLY <2>1
  <2> QED BY <2>2 DEF U32, y, z
<1>15. ItemAt(mem, wr, q, s, U32 + Len(h[j + 1]))
  BY <1>3, <1>10, <1>12, <1>13, <1>14 DEF ItemAt
<1> QED BY <1>15 DEF s

\* A text is read as it was written, whether it is empty or not.
LEMMA TextRead ==
    ASSUME NEW s, GoodSection(s), ~IsUpper(s.type), NEW mem, NEW a, FoundIn(mem, a, Stored(s))
    PROVE  /\ mem[a + 1] = 0 <=> s.body = <<>>
           /\ SubSeq(mem, a + 1, a + StrLen(mem, a)) = s.body
           /\ Len(Stored(s)) = Len(s.body) + 1 /\ Len(s.body) \in Nat
<1> DEFINE f == Stored(s)
           b == s.body
           n == Len(b)
<1>1. /\ Cells(f) /\ n \in Nat /\ Len(f) = n + 1
      /\ f[n + 1] = 0 /\ \A k \in 1 .. n : f[k] # 0
  BY StoredIs
<1>2. s.body \in Seq(0 .. 255)
  BY DEF GoodSection, Section
<1>3. b \in Seq(Int)
  BY <1>2, BodyCells DEF Cells
<1>4. f = b \o <<0>>
  <2>1. f = Append(b, 0)
    BY DEF Stored
  <2> HIDE DEF f, b
  <2> QED BY <1>3, <2>1
<1>5. FoundIn(f, 0, b)
  <2>1. <<0>> \in Seq(Int)
    BY OneCell DEF Cells
  <2> HIDE DEF f, b
  <2> QED BY <1>3, <1>4, <2>1, FoundBehind
<1> HIDE DEF f, b
<1>6. FoundIn(mem, a, f)
  BY DEF f
<1>7. FoundIn(mem, a + 0, b) /\ a \in Nat
  <2>1. FoundIn(mem, a + 0, b)
    BY <1>5, <1>6, PartOfPart
  <2>2. a \in Nat
    BY <1>6 DEF FoundIn
  <2> QED BY <2>1, <2>2
<1>8. FoundIn(mem, a, b)
  <2>1. a + 0 = a
    BY <1>7
  <2> QED BY <1>7, <2>1
<1>9. SectionSize(s.type, mem, a) = Len(f)
  BY SizeOfField DEF f
<1>10. SectionSize(s.type, mem, a) = StrLen(mem, a) + 1
  BY DEF SectionSize
<1>11. StrLen(mem, a) \in Int
  <2>1. StrLen(mem, a) = n
    <3>1. mem \in Seq(Int) /\ a + Len(f) <= Len(mem) /\ \A k \in 1 .. Len(f) : mem[a + k] = f[k]
      BY <1>6 DEF FoundIn
    <3>2. Len(mem) \in Nat /\ a + n < Len(mem) /\ a + (n + 1) = a + n + 1
      BY <1>1, <1>7, <3>1
    <3>3. mem[a + n + 1] = 0 /\ \A k \in 1 .. n : mem[a + k] # 0
      BY <1>1, <3>1, <3>2
    <3> QED BY <1>1, <1>7, <3>1, <3>2, <3>3, StrLenIs
  <2> QED BY <1>1, <2>1
<1>12. StrLen(mem, a) = n
  BY <1>1, <1>9, <1>10, <1>11
<1>13. SubSeq(mem, a + 1, a + n) = b
  BY <1>3, <1>8, PartIs DEF FoundIn
<1>14. mem[a + 1] = f[1]
  BY <1>1, <1>6 DEF FoundIn
<1>15. mem[a + 1] = 0 <=> b = <<>>
  <2>1. CASE b = <<>>
    <3>1. n = 0
      BY <2>1
    <3> QED BY <1>1, <1>14, <2>1, <3>1
  <2>2. CASE b # <<>>
    <3>1. n # 0
      BY <1>3, <2>2
    <3>2. 1 \in 1 .. n
      BY <1>1, <3>1
    <3> QED BY <1>1, <1>14, <2>2, <3>2
  <2> QED BY <2>1, <2>2
<1> QED BY <1>1, <1>12, <1>13, <1>15 DEF f, b

\* The size of the rest is the size that stands before it.
LEMMA BlockRead ==
    ASSUME NEW s, GoodSection(s), IsUpper(s.type), NEW mem, NEW a, FoundIn(mem, a, Stored(s))
    PROVE  Uint32(mem, a) \in Nat /\ Uint32(mem, a) + U32 = Len(Stored(s))
<1>1. /\ Len(s.body) \in Nat /\ FoundIn(Stored(s), 0, Host(Len(s.body)))
      /\ Len(Stored(s)) = Len(s.body) + 4
  BY StoredIs
<1>2. FoundIn(mem, a + 0, Host(Len(s.body))) /\ a + 0 = a
  BY <1>1, PartOfPart DEF FoundIn
<1>3. Uint32(mem, a) = Len(s.body)
  BY <1>1, <1>2, NumberRead DEF GoodSection
<1> QED BY <1>1, <1>3 DEF U32

\* The types that are shown are those of texts, the others not.
LEMMA TypesOfTexts ==
    /\ \A c \in ShownTypes : ~IsUpper(c)
    /\ \A c \in SkippedTypes : IsUpper(c) /\ c \notin ShownTypes
BY DEF ShownTypes, SearchedTypes, SkippedTypes, IsUpper
-----------------------------------------------------------------------------
(* The copy is filled, whatever sizes are read.                             *)

\* A part of what is cells.
LEMMA PartCells ==
    ASSUME NEW mem, Cells(mem), NEW a \in Nat, NEW n \in Nat, a + n <= Len(mem)
    PROVE  /\ Cells(SubSeq(mem, a + 1, a + n)) /\ Len(SubSeq(mem, a + 1, a + n)) = n
           /\ \A k \in 1 .. n : SubSeq(mem, a + 1, a + n)[k] = mem[a + k]
<1> DEFINE x == a + 1
           y == a + n
           u == SubSeq(mem, x, y)
<1>1. mem \in Seq(Int) /\ Len(mem) \in Nat
  BY DEF Cells
<1>2. /\ x \in 1 .. Len(mem) + 1 /\ y \in x - 1 .. Len(mem) /\ y - x + 1 = n
      /\ \A k \in 1 .. n : x + k - 1 = a + k /\ a + k \in 1 .. Len(mem)
  BY <1>1
<1> HIDE DEF x, y
<1>3. u \in Seq(Int) /\ Len(u) = y - x + 1
      /\ \A k \in 1 .. y - x + 1 : u[k] = mem[x + k - 1]
  BY ONLY <1>1, <1>2
<1> HIDE DEF u
<1>4. \A k \in 1 .. n : u[k] = mem[a + k] /\ u[k] \in Nat
  BY <1>2, <1>3 DEF Cells
<1> QED BY <1>2, <1>3, <1>4 DEF Cells, u, x, y

\* A size that can be read is a number.
LEMMA SizeIs ==
    ASSUME NEW mem, Cells(mem), NEW a \in Nat, NEW type, CanRead(type, mem, a)
    PROVE  SectionSize(type, mem, a) \in Nat
<1>1. mem \in Seq(Int) /\ Len(mem) \in Nat
  BY DEF Cells
<1>2. CASE IsUpper(type)
  <2> DEFINE b == SubSeq(mem, a + 1, a + 4)
  <2>1. a + 4 <= Len(mem) /\ 4 \in Nat
    BY <1>2 DEF CanRead, U32
  <2>2. Cells(b) /\ Len(b) = 4
    BY <2>1, PartCells
  <2>3. Uint32(mem, a) = Number(HostOrder(b))
    BY DEF Uint32, U32
  <2> HIDE DEF b
  <2>4. b[1] \in Nat /\ b[2] \in Nat /\ b[3] \in Nat /\ b[4] \in Nat
    BY <2>2 DEF Cells
  <2>5. Uint32(mem, a) \in Nat
    BY <2>3, <2>4 DEF Number, HostOrder
  <2> QED BY <1>2, <2>5 DEF SectionSize, U32
<1>3. CASE ~IsUpper(type)
  <2>1. a <= Len(mem)
    BY <1>1, <1>3 DEF CanRead
  <2>2. StrLen(mem, a) \in Nat
    BY <1>1, <2>1, StrLenEnds
  <2> QED BY <1>3, <2>2 DEF SectionSize
<1> QED BY <1>2, <1>3

Dict == dicts[at.dict]

\* The article is the same one.
LEMMA SameArticle ==
    ASSUME dicts' = dicts, at' = at
    PROVE  /\ Types' = Types /\ Sections' = Sections /\ Raw' = Raw /\ Dict' = Dict
           /\ Located(dicts, at) => Located(dicts', at')
BY DEF Types, Sections, Raw, Dict, Located

\* GetWordData or parse_data is at work on an article, or was when it went outside.
Copying == pc \in {"copy", "copy outside"}
Working == Copying \/ pc \in {"parse", "parsed", "parse outside"}

\* So much is written as sections were read, types taken, and the room for the size left.
FillInv ==
    /\ Types # <<>> /\ i \in 1 .. Len(Types) /\ p2 \in 0 .. Len(Raw)
    /\ p1 = 4 + (i - 1) + p2
    /\ Memory(data, DataSize(Types, Len(Raw)))
    /\ \A k \in 5 .. p1 : data[k] \in Nat

\* All of it was written, and its size stands in front.
Full(mem, m) == Memory(mem, m) /\ Uint32(mem, 0) = m /\ \A k \in 1 .. m : mem[k] \in Nat

Filling ==
    /\ dicts \in Libraries
    /\ Working => Located(dicts, at)
    /\ Copying => FillInv
    /\ Working /\ ~Copying => p2 = Len(Raw)
    /\ ~Copying => p1 \in Nat /\ p1 = Len(data)
    /\ pc = "parse" => Full(data, p1)

\* What FillInv says of the room that is left.
LEMMA RoomLeft ==
    ASSUME dicts \in Libraries, Located(dicts, at), FillInv
    PROVE  LET m == DataSize(Types, Len(Raw)) IN
           /\ Legal(Types, Sections) /\ Cells(Raw) /\ Len(Raw) \in Nat
           /\ m = Len(Raw) + Extra(Last(Types)) + Len(Types) + 4 /\ m \in Nat /\ Fits32(m)
           /\ Len(data) = m /\ Extra(Last(Types)) \in 1 .. 4 /\ Len(Types) \in Nat \ {0}
           /\ p1 \in Nat /\ p1 <= m /\ \A k \in 1 .. Len(Types) : Types[k] \in Nat
<1>1. Legal(Types, Sections)
  BY LegalHere
<1>2. Cells(Raw) /\ Len(Raw) \in Nat
  BY <1>1, RawCells DEF Raw
<1> DEFINE m == DataSize(Types, Len(Raw))
           e == Extra(Last(Types))
           n == Len(Types)
           l == Len(Raw)
<1>3. /\ Types # <<>> /\ i \in 1 .. n /\ p2 \in 0 .. l
      /\ p1 = 4 + (i - 1) + p2 /\ Memory(data, m)
  BY DEF FillInv
<1>4. m = l + e + n + 4 /\ m \in Nat /\ Fits32(m) /\ e \in 1 .. 4 /\ n \in Nat \ {0}
  BY <1>1, <1>3, RoomIs DEF Raw
<1>5. Len(data) = m
  BY <1>3, MemoryLen
<1>6. \A k \in 1 .. n : Types[k] \in Nat
  <2>1. Types \in Seq(1 .. 255)
    BY <1>1 DEF Legal
  <2> QED BY <2>1, ElementOfSeq, BytesAreNumbers
<1> HIDE DEF m, e, n, l
<1>7. p1 \in Nat /\ p1 <= m
  BY <1>2, <1>3, <1>4 DEF l
<1> QED BY <1>1, <1>2, <1>4, <1>5, <1>6, <1>7 DEF m, e, n, l

\* What is written behind what was written.
LEMMA FillMore ==
    ASSUME NEW m, NEW mem, Memory(mem, m), NEW wr \in Nat, \A k \in 5 .. wr : mem[k] \in Nat,
           NEW item, Cells(item), 4 <= wr, wr + Len(item) <= m
    PROVE  /\ Memory(Write(mem, wr, item), m)
           /\ \A k \in 5 .. wr + Len(item) : Write(mem, wr, item)[k] \in Nat
<1> DEFINE new == Write(mem, wr, item)
<1>0. m \in Nat /\ Len(item) \in Nat
  BY DEF Memory, Cells
<1>1. Wrote(new, mem, m, wr, item)
  BY WriteIs
<1> HIDE DEF new
<1>2. ASSUME NEW k \in 5 .. wr + Len(item) PROVE new[k] \in Nat
  <2>1. k \in 1 .. m
    BY <1>0
  <2>2. CASE k \in wr + 1 .. wr + Len(item)
    <3>1. k - wr \in 1 .. Len(item)
      BY <1>0, <2>2
    <3>2. new[k] = item[k - wr]
      BY <1>1, <2>1, <2>2 DEF Wrote
    <3> QED BY <3>1, <3>2 DEF Cells
  <2>3. CASE k \notin wr + 1 .. wr + Len(item)
    <3>1. k \in 5 .. wr
      BY <1>0, <2>3
    <3>2. new[k] = mem[k]
      BY <1>1, <2>1, <2>3 DEF Wrote
    <3> QED BY <3>1, <3>2
  <2> QED BY <2>2, <2>3
<1> QED BY <1>1, <1>2 DEF Wrote, new

\* GetWordData begins.
LEMMA GetWordDataFills ==
    ASSUME Filling, NEW d \in DOMAIN dicts, NEW a \in DOMAIN dicts[d].articles, GetWordData(d, a)
    PROVE  Filling'
<1> DEFINE types == dicts[d].types
           sections == dicts[d].articles[a]
           raw == InFile(types, sections)
<1>1. dicts \in Libraries /\ dicts' = dicts /\ at' = [dict |-> d, article |-> a]
  BY DEF Filling, GetWordData
<1>2. Located(dicts', at')
  BY <1>1 DEF Located
<1>3. Types' = types /\ Sections' = sections /\ Raw' = raw
  BY <1>1 DEF Types, Sections, Raw
<1>4. Legal(types, sections)
  BY <1>1, ArticlesAreLegal
<1>5. Cells(raw) /\ Len(raw) \in Nat
  BY <1>4, RawCells
<1>6. CASE types = <<>>
  <2>1. /\ data' = Host(Len(raw) + U32) \o raw
        /\ pc' = "parse" /\ p1' = Len(raw) + U32 /\ p2' = Len(raw)
    BY <1>6 DEF GetWordData
  <2>2. Fits32(Len(raw) + U32)
    <3>1. Fits32(Len(raw) + Len(types) + 2 * U32) /\ Len(types) = 0
      BY <1>4, <1>6 DEF Legal
    <3>2. /\ Len(raw) + Len(types) + 2 * U32 \in Nat /\ Len(raw) + U32 \in Nat
          /\ Len(raw) + U32 <= Len(raw) + Len(types) + 2 * U32
      BY <1>5, <3>1 DEF U32
    <3> QED BY <3>1, <3>2, SmallerFits
  <2> HIDE DEF raw
  <2>3. Complete(data', p1', raw) /\ Cells(data')
    BY <1>5, <2>1, <2>2, PlainCopy
  <2>4. Memory(data', p1') /\ Uint32(data', 0) = p1'
    BY <2>3 DEF Complete
  <2>5. Len(data') = p1'
    BY <2>4, MemoryLen
  <2>6. Full(data', p1')
    BY <2>3, <2>4, <2>5 DEF Full, Cells
  <2>7. Full(data, p1)' /\ p1' \in Nat
    BY <1>5, <2>1, <2>6 DEF U32
  <2> QED BY <1>1, <1>2, <1>3, <2>1, <2>5, <2>7 DEF Filling, Working, Copying
<1>7. CASE types # <<>>
  <2> DEFINE m == DataSize(types, Len(raw))
  <2>1. /\ data' = [k \in 1 .. m |-> Unset]
        /\ pc' = "copy" /\ p1' = U32 /\ p2' = 0 /\ i' = 1
    BY <1>7 DEF GetWordData
  <2>2. m \in Nat /\ Len(types) \in Nat \ {0}
    BY <1>4, <1>7, RoomIs
  <2> HIDE DEF m
  <2>3. Memory(data', m)
    BY <2>1, <2>2 DEF Memory, Unset
  <2>4. 1 \in 1 .. Len(types) /\ 0 \in 0 .. Len(raw) /\ U32 = 4 + (1 - 1) + 0
        /\ \A k \in 5 .. U32 : FALSE
    BY <1>5, <2>2 DEF U32
  <2>5. FillInv'
    BY <1>3, <1>7, <2>1, <2>3, <2>4 DEF FillInv, Memory, m
  <2> QED BY <1>1, <1>2, <2>1, <2>5 DEF Filling, Working, Copying
<1> QED BY <1>6, <1>7

\* An item is copied.
LEMMA CopyItemFills ==
    ASSUME Filling, CopyItem
    PROVE  Filling'
<1> DEFINE m == DataSize(Types, Len(Raw))
           n == Len(Types)
           l == Len(Raw)
           size == SectionSize(Types[i], Raw, p2)
           item == <<Types[i]>> \o SubSeq(Raw, p2 + 1, p2 + size)
<1>1. /\ pc = "copy" /\ pc' = "copy" /\ dicts' = dicts /\ at' = at /\ i' = i + 1 /\ i < n
      /\ dicts \in Libraries /\ Located(dicts, at) /\ FillInv /\ ItemLies
      /\ data' = Write(data, p1, item) /\ p1' = p1 + 1 + size /\ p2' = p2 + size
  BY DEF Filling, CopyItem, Working, Copying
<1>2. Types' = Types /\ Sections' = Sections /\ Raw' = Raw /\ Located(dicts', at')
  BY <1>1, SameArticle
<1>3. /\ Types # <<>> /\ i \in 1 .. n /\ p2 \in 0 .. l /\ p1 = 4 + (i - 1) + p2
      /\ Memory(data, m) /\ \A k \in 5 .. p1 : data[k] \in Nat
  BY <1>1 DEF FillInv
<1>4. /\ Cells(Raw) /\ l \in Nat /\ m = l + Extra(Last(Types)) + n + 4
      /\ Extra(Last(Types)) \in 1 .. 4 /\ n \in Nat \ {0} /\ p1 \in Nat
      /\ \A k \in 1 .. n : Types[k] \in Nat
  BY <1>1, RoomLeft
<1>5. CanRead(Types[i], Raw, p2) /\ p2 + size <= l
  BY <1>1 DEF ItemLies
<1>6. p2 \in Nat /\ i \in Nat
  BY <1>3, <1>4
<1>7. size \in Nat
  BY <1>4, <1>5, <1>6, SizeIs
<1>8. Cells(item) /\ Len(item) = 1 + size
  <2>1. Cells(SubSeq(Raw, p2 + 1, p2 + size)) /\ Len(SubSeq(Raw, p2 + 1, p2 + size)) = size
    BY <1>4, <1>5, <1>6, <1>7, PartCells
  <2>2. Cells(<<Types[i]>>) /\ Len(<<Types[i]>>) = 1
    BY <1>3, <1>4, OneCell
  <2> QED BY <2>1, <2>2, CellsBehind
<1> HIDE DEF m, n, l, size, item
<1>9. /\ p1 + Len(item) <= m /\ 4 <= p1 /\ p1' = p1 + Len(item)
      /\ p1' = 4 + ((i + 1) - 1) + (p2 + size) /\ i + 1 \in 1 .. n /\ p2 + size \in 0 .. l
  BY <1>1, <1>3, <1>4, <1>5, <1>6, <1>7, <1>8
<1>10. Memory(data', m) /\ \A k \in 5 .. p1' : data'[k] \in Nat
  BY <1>1, <1>3, <1>4, <1>8, <1>9, FillMore
<1>11. FillInv'
  BY <1>1, <1>2, <1>3, <1>9, <1>10 DEF FillInv, Memory, m, n, l
<1> QED BY <1>1, <1>2, <1>11 DEF Filling, Working, Copying

\* The last item is copied, and what was allocated is full.
LEMMA CopyLastItemFills ==
    ASSUME Filling, CopyLastItem
    PROVE  Filling'
<1> DEFINE m == DataSize(Types, Len(Raw))
           n == Len(Types)
           l == Len(Raw)
           e == Extra(Last(Types))
           body == SubSeq(Raw, p2 + 1, l)
           item == LastItem(body)
           mid == Write(data, p1, item)
<1>1. /\ pc = "copy" /\ pc' = "parse" /\ dicts' = dicts /\ at' = at /\ i = n
      /\ dicts \in Libraries /\ Located(dicts, at) /\ FillInv
      /\ data' = Write(mid, 0, Host(Len(data))) /\ p1' = p1 + Len(item) /\ p2' = l
  BY DEF Filling, CopyLastItem, Working, Copying
<1>2. Types' = Types /\ Sections' = Sections /\ Raw' = Raw /\ Located(dicts', at')
  BY <1>1, SameArticle
<1>3. /\ i \in 1 .. n /\ p2 \in 0 .. l /\ p1 = 4 + (i - 1) + p2
      /\ Memory(data, m) /\ \A k \in 5 .. p1 : data[k] \in Nat
  BY <1>1 DEF FillInv
<1>4. /\ Cells(Raw) /\ l \in Nat /\ m = l + e + n + 4 /\ m \in Nat /\ Fits32(m)
      /\ e \in 1 .. 4 /\ n \in Nat \ {0} /\ p1 \in Nat /\ Len(data) = m
      /\ \A k \in 1 .. n : Types[k] \in Nat
  BY <1>1, RoomLeft
<1>5. Cells(body) /\ Len(body) = l - p2
  <2> DEFINE x == l - p2
  <2>1. p2 \in Nat /\ x \in Nat /\ p2 + x <= l /\ p2 + x = l
    BY <1>3, <1>4
  <2> HIDE DEF x, l
  <2>2. Cells(SubSeq(Raw, p2 + 1, p2 + x)) /\ Len(SubSeq(Raw, p2 + 1, p2 + x)) = x
    BY <1>4, <2>1, PartCells DEF l
  <2> QED BY <2>1, <2>2 DEF x
<1>6. Cells(item) /\ Len(item) = 1 + Len(body) + e
  <2> DEFINE t == <<Last(Types)>>
             z == <<0>>
             h == Host(Len(body))
  <2>1. Len(body) \in Nat /\ Len(body) <= m
    BY <1>3, <1>4, <1>5
  <2>2. Cells(t) /\ Len(t) = 1
    <3>1. Last(Types) \in Nat
      <4>1. n \in 1 .. n
        BY <1>4
      <4> QED BY <1>4, <4>1 DEF Last
    <3> QED BY <3>1, OneCell
  <2>3. Fits32(Len(body))
    BY <1>4, <2>1, SmallerFits
  <2>4. Cells(h) /\ Len(h) = 4
    BY <2>1, <2>3, BytesOf, BodyCells
  <2>5. Cells(z) /\ Len(z) = 1
    BY OneCell
  <2>6. body \in Seq(Int)
    BY <1>5 DEF Cells
  <2>7. IsUpper(Last(Types)) => item = t \o (h \o body) /\ e = 4
    BY DEF LastItem, Extra, U32
  <2>8. ~IsUpper(Last(Types)) => item = t \o Append(body, 0) /\ e = 1
    BY DEF LastItem, Extra
  <2> HIDE DEF t, z, h, body, item
  <2>9. Append(body, 0) = body \o z
    BY <2>6 DEF z
  <2>10. Cells(h \o body) /\ Len(h \o body) = 4 + Len(body)
    BY <1>5, <2>4, CellsBehind
  <2>11. Cells(body \o z) /\ Len(body \o z) = Len(body) + 1
    BY <1>5, <2>5, CellsBehind
  <2>12. Cells(t \o (h \o body)) /\ Len(t \o (h \o body)) = 1 + (4 + Len(body))
    BY <2>2, <2>10, CellsBehind
  <2>13. Cells(t \o (body \o z)) /\ Len(t \o (body \o z)) = 1 + (Len(body) + 1)
    BY <2>2, <2>11, CellsBehind
  <2>14. CASE IsUpper(Last(Types))
    <3>1. item = t \o (h \o body) /\ e = 4
      BY <2>7, <2>14
    <3>2. Cells(item) /\ Len(item) = 1 + (4 + Len(body))
      BY <2>12, <3>1
    <3> HIDE DEF e
    <3> QED BY <2>1, <3>1, <3>2
  <2>15. CASE ~IsUpper(Last(Types))
    <3>1. item = t \o (body \o z) /\ e = 1
      BY <2>8, <2>9, <2>15
    <3>2. Cells(item) /\ Len(item) = 1 + (Len(body) + 1)
      BY <2>13, <3>1
    <3> HIDE DEF e
    <3> QED BY <2>1, <3>1, <3>2
  <2> QED BY <2>14, <2>15
<1> HIDE DEF m, n, l, e, body, item
<1>7. p1 + Len(item) = m /\ p1 + Len(item) <= m /\ 4 <= p1 /\ U32 <= m
  <2>1. 4 <= m
    BY <1>4
  <2> QED BY <1>1, <1>3, <1>4, <1>5, <1>6, <2>1 DEF U32
<1>8. Memory(mid, m) /\ \A k \in 5 .. p1 + Len(item) : mid[k] \in Nat
  BY <1>3, <1>4, <1>6, <1>7, FillMore
<1> HIDE DEF mid
<1>9. /\ Memory(data', m) /\ Uint32(data', 0) = m
      /\ \A k \in 1 .. m : /\ k <= 4 => data'[k] \in Nat
                           /\ k > 4 => data'[k] = mid[k]
  BY <1>1, <1>4, <1>7, <1>8, SizePut
<1>10. \A k \in 1 .. m : data'[k] \in Nat
  <2> SUFFICES ASSUME NEW k \in 1 .. m PROVE data'[k] \in Nat
    OBVIOUS
  <2>1. CASE k <= 4
    BY <1>9, <2>1
  <2>2. CASE ~(k <= 4)
    <3>1. k > 4 /\ k \in 5 .. m
      BY <1>4, <2>2
    <3>2. data'[k] = mid[k]
      BY <1>9, <3>1
    <3>3. mid[k] \in Nat
      BY <1>7, <1>8, <3>1
    <3> QED BY <3>2, <3>3
  <2> QED BY <2>1, <2>2
<1>11. p1' = m /\ Len(data') = m
  BY <1>1, <1>7, <1>9, MemoryLen
<1>12. Full(data, p1)'
  BY <1>9, <1>10, <1>11 DEF Full
<1> QED BY <1>1, <1>2, <1>11, <1>12 DEF Filling, Working, Copying, l

\* The other steps of GetWordData and parse_data leave the copy as it is.
LEMMA CopyStays ==
    ASSUME Filling, CopyOutside \/ ParseSection \/ ParseOutside \/ ParseReturn \/ Outside
    PROVE  Filling'
<1>1. /\ dicts' = dicts /\ at' = at /\ data' = data /\ p1' = p1 /\ p2' = p2 /\ i' = i
      /\ \/ pc = "copy" /\ pc' = "copy outside"
         \/ pc = "parse" /\ pc' \in {"parse", "parse outside", "parsed"}
         \/ pc' = pc
  BY DEF CopyOutside, ParseSection, ParseOutside, ParseReturn, Outside, vars
<1>2. Types' = Types /\ Sections' = Sections /\ Raw' = Raw
  BY <1>1, SameArticle
<1>3. FillInv' = FillInv /\ Full(data, p1)' = Full(data, p1)
      /\ Located(dicts, at)' = Located(dicts, at)
  BY <1>1, <1>2 DEF FillInv
<1> QED BY <1>1, <1>2, <1>3 DEF Filling, Working, Copying

\* What the search does leaves it alone, and no article is copied.
LEMMA SearchFills ==
    ASSUME Filling,
           \/ NextArticle \/ LookupDataReturn \/ SearchOutside
           \/ SearchItem \/ SearchLastItem \/ SearchSection \/ SearchSectionsEnd
    PROVE  Filling'
<1>1. /\ pc \in {"next", "items", "sections"}
      /\ pc' \in {"next", "items", "sections", "searched", "search outside"}
      /\ dicts' = dicts /\ data' = data /\ p1' = p1
  BY DEF NextArticle, LookupDataReturn, SearchItem, SearchLastItem, SearchSection,
         SearchSectionsEnd, SearchText, StepOver, SearchOutside
<1> QED BY <1>1 DEF Filling, Working, Copying

\* Every step keeps this.
LEMMA FillingNext == Filling /\ [Next]_vars => Filling'
<1> SUFFICES ASSUME Filling, [Next]_vars PROVE Filling'
  OBVIOUS
<1>1. ASSUME NEW d \in DOMAIN dicts, NEW a \in DOMAIN dicts[d].articles, GetWordData(d, a)
      PROVE  Filling'
  BY <1>1, GetWordDataFills
<1>2. ASSUME NEW phrase \in Phrases, LookupData(phrase) PROVE Filling'
  <2>1. dicts' = dicts /\ pc' = "next" /\ data' = <<>> /\ p1' = 0 /\ dicts \in Libraries
    BY <1>2 DEF LookupData, Filling
  <2>2. Len(data') = 0
    BY <2>1
  <2> QED BY <2>1, <2>2 DEF Filling, Working, Copying
<1>3. CASE UNCHANGED vars
  <2>1. /\ dicts' = dicts /\ at' = at /\ data' = data /\ p1' = p1 /\ p2' = p2 /\ i' = i
        /\ pc' = pc
    BY <1>3 DEF vars
  <2>2. Types' = Types /\ Sections' = Sections /\ Raw' = Raw
    BY <2>1, SameArticle
  <2>3. FillInv' = FillInv /\ Full(data, p1)' = Full(data, p1)
        /\ Located(dicts, at)' = Located(dicts, at)
    BY <2>1, <2>2 DEF FillInv
  <2> QED BY <2>1, <2>2, <2>3 DEF Filling, Working, Copying
<1>4. CASE Step
  BY <1>4, CopyItemFills, CopyLastItemFills, CopyStays, SearchFills DEF Step
<1> QED BY <1>1, <1>2, <1>3, <1>4 DEF Next

\* And it says that no more is written and read than there is.
LEMMA FillingMeans ==
    ASSUME Filling
    PROVE  /\ p1 <= Len(data)
           /\ pc \in {"copy", "copy outside", "parse", "parsed"} => p2 <= Len(Raw)
           /\ pc = "parse" => /\ p1 = Len(data) /\ Uint32(data, 0) = Len(data)
                              /\ \A k \in DOMAIN data : data[k] # Unset
<1>1. CASE Copying
  <2>1. dicts \in Libraries /\ Located(dicts, at) /\ FillInv
    BY <1>1 DEF Filling, Working
  <2>2. p1 <= Len(data) /\ Len(Raw) \in Nat
    BY <2>1, RoomLeft
  <2>3. p2 <= Len(Raw)
    BY <2>1, <2>2 DEF FillInv
  <2>4. pc # "parse"
    BY <1>1 DEF Copying
  <2> QED BY <2>2, <2>3, <2>4
<1>2. CASE Working /\ ~Copying
  <2>1. p2 = Len(Raw) /\ p1 = Len(data) /\ p1 \in Nat /\ (pc = "parse" => Full(data, p1)) /\ Located(dicts, at)
        /\ dicts \in Libraries
    BY <1>2 DEF Filling
  <2>2. Len(Raw) \in Nat
    BY <2>1, LegalHere, RawCells DEF Raw
  <2>3. ASSUME pc = "parse" PROVE Uint32(data, 0) = Len(data) /\ \A k \in DOMAIN data : data[k] # Unset
    <3>1. Memory(data, p1) /\ Uint32(data, 0) = p1 /\ \A k \in 1 .. p1 : data[k] \in Nat
      BY <2>1, <2>3 DEF Full
    <3>2. DOMAIN data = 1 .. p1
      BY <3>1, MemoryLen
    <3> QED BY <2>1, <3>1, <3>2 DEF Unset
  <2>4. p1 <= Len(data) /\ p2 <= Len(Raw)
    BY <2>1, <2>2
  <2> QED BY <2>1, <2>3, <2>4
<1>3. CASE ~Working
  <2>1. p1 \in Nat /\ p1 = Len(data)
    BY <1>3 DEF Filling, Working
  <2>2. p1 <= Len(data)
    BY <2>1
  <2>3. pc \notin {"copy", "copy outside", "parse", "parsed"}
    BY <1>3 DEF Working, Copying
  <2> QED BY <2>2, <2>3
<1> QED BY <1>1, <1>2, <1>3
-----------------------------------------------------------------------------
(* The invariant.                                                           *)

\* parse_data has come to the place of an item, and has shown those before it.
Parsed(h, q, shown, sections, dict) ==
    \E j \in 0 .. Len(sections) : q = U32 + Len(h[j]) /\ shown = ShownOf(sections, dict)[j]

\* What is copied, what was copied, and what has been made of it, of an article whose
\* sizes the host reads as they were written; only others lead outside.
CopyInv == /\ p = U32 /\ res = <<>>
           /\ \E g, h : Copied(g, h, data, p1, p2, i, Types, Sections)
ParseInv == \E h : /\ Items(h, Sections) /\ Complete(data, p1, h[Len(Sections)])
                   /\ Known(Sections) => Parsed(h, p, res, Sections, Dict)
Layout ==
    /\ InHostOrder(Types, Sections) =>
          /\ pc = "copy" => CopyInv
          /\ pc = "parse" => ParseInv
          /\ pc # "copy outside"
    /\ ParsedIsWritten

\* Before the end there is an item.
LEMMA ItemStands ==
    ASSUME Written(Types, Sections), p < Uint32(data, 0),
           NEW h, Items(h, Sections), Complete(data, p1, h[Len(Sections)]),
           NEW j \in 0 .. Len(Sections), p = U32 + Len(h[j])
    PROVE  /\ j \in 0 .. Len(Sections) - 1
           /\ ItemAt(data, p1, p, Sections[j + 1], U32 + Len(h[j + 1]))
<1> DEFINE n == Len(Sections)
<1>1. n \in Nat
  BY ItemsExist
<1>2. Uint32(data, 0) = p1 /\ p1 = U32 + Len(h[n])
  BY DEF Complete
<1>3. j # n
  <2> SUFFICES ASSUME j = n PROVE FALSE
    OBVIOUS
  <2>1. n \in 0 .. n
    BY <1>1
  <2>2. Len(h[n]) \in Nat
    BY <2>1, ItemsAreCells
  <2>3. U32 + Len(h[n]) \in Nat /\ ~(U32 + Len(h[n]) < U32 + Len(h[n]))
    BY <2>2 DEF U32
  <2> QED BY <1>2, <2>3
<1>4. j \in 0 .. Len(Sections) - 1
  BY <1>1, <1>3
<1> QED BY <1>4, SectionRead

\* So what follows its type can be read.
LEMMA ItemCanBeRead ==
    ASSUME Written(Types, Sections), p < Uint32(data, 0),
           NEW h, Items(h, Sections), Complete(data, p1, h[Len(Sections)]),
           Parsed(h, p, res, Sections, Dict)
    PROVE  NextLies
<1>1. PICK j \in 0 .. Len(Sections) : p = U32 + Len(h[j])
  BY DEF Parsed
<1>2. ItemAt(data, p1, p, Sections[j + 1], U32 + Len(h[j + 1]))
  BY <1>1, ItemStands
<1>3. CanRead(Sections[j + 1].type, data, p + 1) /\ data[p + 1] = Sections[j + 1].type
  BY <1>2, SizeOfField DEF ItemAt
<1> QED BY <1>3 DEF NextLies

\* An item is read, and what it shows is added.
LEMMA ItemParsed ==
    ASSUME Written(Types, Sections), Known(Sections), ParseSection,
           NEW h, Items(h, Sections), Complete(data, p1, h[Len(Sections)]),
           Parsed(h, p, res, Sections, Dict)
    PROVE  Parsed(h, p', res', Sections, Dict)
<1> DEFINE n == Len(Sections)
<1>1. PICK j \in 0 .. n : p = U32 + Len(h[j]) /\ res = ShownOf(Sections, Dict)[j]
  BY DEF Parsed
<1>2. n \in Nat
  BY ItemsExist
<1>3. p < Uint32(data, 0)
  BY DEF ParseSection
<1>4. j \in 0 .. n - 1 /\ ItemAt(data, p1, p, Sections[j + 1], U32 + Len(h[j + 1]))
  BY <1>1, <1>3, ItemStands
<1> DEFINE s == Sections[j + 1]
           a == p + 1
<1>5. /\ p \in Nat /\ GoodSection(s) /\ data[p + 1] = s.type
      /\ FoundIn(data, a, Stored(s)) /\ U32 + Len(h[j + 1]) = a + Len(Stored(s))
  BY <1>4 DEF ItemAt
<1>6. j + 1 \in 1 .. n /\ j + 1 \in 0 .. n /\ (j + 1) - 1 = j
  BY <1>2, <1>4
<1>7. ShownOf(Sections, Dict)[j + 1] = AddShown(res, s, Dict)
  BY <1>1, <1>2, <1>6, ShownGrows
<1>8. s.type \in ShownTypes \cup SkippedTypes
  <2>1. DOMAIN Sections = 1 .. n
    BY DEF Written, Legal
  <2> QED BY <1>6, <2>1 DEF Known
<1>9. SUFFICES p' = a + Len(Stored(s)) /\ res' = AddShown(res, s, Dict)
  BY <1>5, <1>6, <1>7 DEF Parsed
<1>10. \/ s.type \in ShownTypes /\ ParseText(s.type, a)
       \/ s.type \in SkippedTypes /\ p' = a + Uint32(data, a) + U32 /\ res' = res
  <2> DEFINE t == data[p + 1]
  <2>1. \/ t \in ShownTypes /\ ParseText(t, a)
        \/ t \in SkippedTypes /\ p' = a + Uint32(data, a) + U32 /\ res' = res
        \/ t \notin ShownTypes \cup SkippedTypes
    BY DEF ParseSection
  <2>2. t = s.type
    BY <1>5
  <2> HIDE DEF t, s, a
  <2> QED BY <1>8, <2>1, <2>2
<1> HIDE DEF s, a
<1>11. CASE s.type \in ShownTypes /\ ParseText(s.type, a)
  <2>1. ~IsUpper(s.type)
    BY <1>11, TypesOfTexts
  <2>2. /\ data[a + 1] = 0 <=> s.body = <<>>
        /\ SubSeq(data, a + 1, a + StrLen(data, a)) = s.body
        /\ Len(Stored(s)) = Len(s.body) + 1 /\ Len(s.body) \in Nat
    BY <1>5, <2>1, TextRead
  <2>3. a \in Nat
    BY <1>5 DEF FoundIn
  <2>4. CASE data[a + 1] = 0
    <3>1. p' = a + 1 /\ res' = res
      BY <1>11, <2>4 DEF ParseText
    <3>2. s.body = <<>> /\ Len(Stored(s)) = 1
      BY <2>2, <2>4
    <3>3. AddShown(res, s, Dict) = res
      BY <3>2 DEF AddShown, Shown
    <3> QED BY <3>1, <3>2, <3>3
  <2>5. CASE data[a + 1] # 0
    <3>1. TextAt(a) = s.body
      BY <2>2 DEF TextAt
    <3>2. Generate(s.type, s.body) = [out |-> Replaced(s.type, Dict, s.body),
                                      sec_size |-> Len(s.body)]
      BY DEF Generate, Dict
    <3>3. res' = Append(res, [type |-> s.type, out |-> Replaced(s.type, Dict, s.body)])
      BY <1>11, <2>5, <3>1, <3>2 DEF ParseText
    <3>4. p' = a + Len(s.body) + 1
      BY <1>11, <2>5, <3>1, <3>2 DEF ParseText
    <3>5. Shown(s)
      BY <1>11, <2>2, <2>5 DEF Shown
    <3>6. p' = a + Len(Stored(s))
      BY <2>2, <2>3, <3>4
    <3> QED BY <3>3, <3>5, <3>6 DEF AddShown
  <2> QED BY <2>4, <2>5
<1>12. CASE s.type \in SkippedTypes /\ p' = a + Uint32(data, a) + U32 /\ res' = res
  <2>1. IsUpper(s.type) /\ s.type \notin ShownTypes
    BY <1>12, TypesOfTexts
  <2>2. Uint32(data, a) + U32 = Len(Stored(s))
    BY <1>5, <2>1, BlockRead
  <2>3. a \in Nat /\ Uint32(data, a) \in Nat
    BY <1>5, <2>1, BlockRead DEF FoundIn
  <2>4. a + Uint32(data, a) + U32 = a + Len(Stored(s))
    BY <2>2, <2>3 DEF U32
  <2> QED BY <1>12, <2>1, <2>4 DEF AddShown, Shown
<1> QED BY <1>10, <1>11, <1>12

\* When it returns it has shown all of them.
LEMMA AllParsed ==
    ASSUME Written(Types, Sections), p >= Uint32(data, 0),
           NEW h, Items(h, Sections), Complete(data, p1, h[Len(Sections)]),
           Parsed(h, p, res, Sections, Dict)
    PROVE  res = ShownOf(Sections, Dict)[Len(Sections)]
<1> DEFINE n == Len(Sections)
<1>1. PICK j \in 0 .. n : p = U32 + Len(h[j]) /\ res = ShownOf(Sections, Dict)[j]
  BY DEF Parsed
<1>2. n \in Nat
  BY ItemsExist
<1>3. Uint32(data, 0) = p1
  BY DEF Complete
<1>4. j = n
  <2> SUFFICES ASSUME j # n PROVE FALSE
    OBVIOUS
  <2>1. j \in 0 .. n - 1
    BY <1>2
  <2>2. p \in Nat /\ p < p1
    BY <1>1, <2>1, SectionRead DEF ItemAt
  <2>3. p1 \in Nat
    BY DEF Complete, Memory
  <2> QED BY <1>3, <2>2, <2>3
<1> QED BY <1>1, <1>4
-----------------------------------------------------------------------------
(* It is kept.                                                              *)

\* No article is being worked on at first.
LEMMA LayoutInit == Init => Filling /\ Layout
<1> SUFFICES ASSUME Init PROVE Filling /\ Layout
  OBVIOUS
<1>1. dicts \in Libraries /\ pc = "idle" /\ p1 = 0 /\ data = <<>>
  BY DEF Init
<1>2. Len(data) = 0 /\ p1 \in Nat
  BY <1>1
<1>3. Filling
  BY <1>1, <1>2 DEF Filling, Working, Copying
<1>4. Layout
  BY <1>1 DEF Layout, ParsedIsWritten
<1> QED BY <1>3, <1>4

\* When it starts to read, nothing was shown yet.
LEMMA NothingParsed ==
    ASSUME NEW types, NEW sections, Written(types, sections), NEW h, Items(h, sections), NEW dict
    PROVE  Parsed(h, U32, <<>>, sections, dict)
<1>1. h[0] = <<>>
  BY DEF Items, Together
<1>2. Len(sections) \in Nat
  BY ItemsExist
<1>3. 0 \in 0 .. Len(sections) /\ U32 = U32 + Len(h[0])
  BY <1>1, <1>2 DEF U32
<1>4. <<>> = ShownOf(sections, dict)[0]
  BY <1>2, ShownGrows
<1> QED BY <1>3, <1>4 DEF Parsed

\* GetWordData begins.
LEMMA GetWordDataKeeps ==
    ASSUME Filling, NEW d \in DOMAIN dicts, NEW a \in DOMAIN dicts[d].articles, GetWordData(d, a)
    PROVE  Layout'
<1> DEFINE types == dicts[d].types
           sections == dicts[d].articles[a]
           raw == InFile(types, sections)
<1>1. /\ dicts \in Libraries /\ dicts' = dicts /\ at' = [dict |-> d, article |-> a]
      /\ p' = U32 /\ res' = <<>> /\ pc' \in {"copy", "parse"}
  BY DEF Filling, GetWordData
<1>2. Types' = types /\ Sections' = sections /\ Raw' = raw
  BY <1>1 DEF Types, Sections, Raw
<1>3. ParsedIsWritten'
  BY <1>1 DEF ParsedIsWritten
<1>4. Legal(types, sections)
  BY <1>1, ArticlesAreLegal
<1>5. ASSUME InHostOrder(types, sections), types = <<>> PROVE pc' = "parse" /\ ParseInv'
  <2>1. Written(types, sections)
    BY <1>4, <1>5 DEF Written
  <2>2. Cells(raw) /\ Len(raw) \in Nat
    BY <1>4, RawCells
  <2>3. data' = Host(Len(raw) + U32) \o raw /\ pc' = "parse" /\ p1' = Len(raw) + U32
    BY <1>5 DEF GetWordData
  <2>4. PICK h : Items(h, sections)
    BY <2>1, ItemsExist
  <2>5. raw = h[Len(sections)]
    BY <1>5, <2>1, <2>4, RawIsItems
  <2>6. Parsed(h, U32, <<>>, sections, Dict')
    BY <2>1, <2>4, NothingParsed
  <2>7. Fits32(Len(raw) + U32)
    <3>1. Fits32(Len(raw) + Len(types) + 2 * U32) /\ Len(types) = 0
      BY <1>4, <1>5 DEF Legal
    <3>2. /\ Len(raw) + Len(types) + 2 * U32 \in Nat /\ Len(raw) + U32 \in Nat
          /\ Len(raw) + U32 <= Len(raw) + Len(types) + 2 * U32
      BY <2>2, <3>1 DEF U32
    <3> QED BY <3>1, <3>2, SmallerFits
  <2> HIDE DEF raw
  <2>8. Complete(data', p1', raw)
    BY <2>2, <2>3, <2>7, PlainCopy
  <2>9. Items(h, Sections') /\ Complete(data', p1', h[Len(Sections')])
        /\ Parsed(h, p', res', Sections', Dict')
    BY <1>1, <1>2, <2>4, <2>5, <2>6, <2>8
  <2> QED BY <2>3, <2>9 DEF ParseInv
<1>6. ASSUME InHostOrder(types, sections), types # <<>> PROVE pc' = "copy" /\ CopyInv'
  <2>1. Written(types, sections)
    BY <1>4, <1>6 DEF Written
  <2>2. /\ data' = [k \in 1 .. DataSize(types, Len(raw)) |-> Unset]
        /\ pc' = "copy" /\ p1' = U32 /\ p2' = 0 /\ i' = 1
    BY <1>6 DEF GetWordData
  <2>3. \E g, h : Copied(g, h, data', U32, 0, 1, types, sections)
    BY <1>6, <2>1, <2>2, CopyBegins
  <2>4. \E g, h : Copied(g, h, data', p1', p2', i', Types', Sections')
    BY <1>2, <2>2, <2>3
  <2> QED BY <1>1, <2>2, <2>4 DEF CopyInv
<1>7. InHostOrder(Types, Sections)' = InHostOrder(types, sections)
  BY <1>2
<1> HIDE DEF types, sections, raw
<1> QED BY <1>1, <1>3, <1>5, <1>6, <1>7 DEF Layout

\* An item is copied.
LEMMA CopyItemKeeps ==
    ASSUME Filling, Layout, CopyItem
    PROVE  Layout'
<1>1. /\ pc = "copy" /\ pc' = "copy" /\ dicts' = dicts /\ at' = at /\ i' = i + 1 /\ i < Len(Types)
      /\ dicts \in Libraries /\ Located(dicts, at) /\ p' = p /\ res' = res
  BY DEF Filling, Working, Copying, CopyItem
<1>2. Types' = Types /\ Sections' = Sections
  BY <1>1, SameArticle
<1>3. ASSUME InHostOrder(Types, Sections) PROVE CopyInv'
  <2>1. Written(Types, Sections)
    BY <1>1, <1>3, WrittenHere
  <2>2. CopyInv
    BY <1>1, <1>3 DEF Layout
  <2>3. PICK g, h : Copied(g, h, data, p1, p2, i, Types, Sections)
    BY <2>2 DEF CopyInv
  <2> DEFINE size == SectionSize(Types[i], Raw, p2)
  <2>4. /\ data' = Write(data, p1, <<Types[i]>> \o SubSeq(Raw, p2 + 1, p2 + size))
        /\ p1' = p1 + 1 + size /\ p2' = p2 + size
    BY DEF CopyItem
  <2>5. Raw = InFile(Types, Sections)
    BY DEF Raw
  <2>6. size = SectionSize(Types[i], Raw, p2)
    OBVIOUS
  <2> HIDE DEF size
  <2>7. Copied(g, h, Write(data, p1, <<Types[i]>> \o SubSeq(Raw, p2 + 1, p2 + size)),
               p1 + 1 + size, p2 + size, i + 1, Types, Sections)
    BY <1>1, <2>1, <2>3, <2>5, <2>6, CopyGoesOn
  <2>8. Copied(g, h, data', p1', p2', i', Types', Sections')
    BY <1>1, <1>2, <2>4, <2>7
  <2> QED BY <1>1, <2>2, <2>8 DEF CopyInv
<1>4. ParsedIsWritten'
  BY <1>1 DEF ParsedIsWritten
<1>5. InHostOrder(Types, Sections)' = InHostOrder(Types, Sections)
  BY <1>2
<1> QED BY <1>1, <1>3, <1>4, <1>5 DEF Layout

\* The last item is copied.
LEMMA CopyLastItemKeeps ==
    ASSUME Filling, Layout, CopyLastItem
    PROVE  Layout'
<1>1. /\ pc = "copy" /\ pc' = "parse" /\ dicts' = dicts /\ at' = at /\ i = Len(Types)
      /\ dicts \in Libraries /\ Located(dicts, at) /\ p' = p /\ res' = res
  BY DEF Filling, Working, Copying, CopyLastItem
<1>2. Types' = Types /\ Sections' = Sections /\ Dict' = Dict
  BY <1>1, SameArticle
<1>3. ASSUME InHostOrder(Types, Sections) PROVE ParseInv'
  <2> DEFINE item == Item(Last(Sections))
  <2>1. Written(Types, Sections)
    BY <1>1, <1>3, WrittenHere
  <2>2. CopyInv
    BY <1>1, <1>3 DEF Layout
  <2>3. PICK g, h : Copied(g, h, data, p1, p2, i, Types, Sections)
    BY <2>2 DEF CopyInv
  <2>4. Items(h, Sections) /\ Types # <<>>
    BY <2>3 DEF Copied
  <2>5. /\ Complete(Write(Write(data, p1, item), 0, Host(Len(data))), p1 + Len(item),
                    h[Len(Sections)])
        /\ SubSeq(Raw, p2 + 1, Len(Raw)) = Last(Sections).body
    BY <1>1, <2>1, <2>3, CopyEnds DEF Raw
  <2>6. LastItem(SubSeq(Raw, p2 + 1, Len(Raw))) = item
    <3>1. Len(Types) \in Nat \ {0} /\ Len(Sections) = Len(Types)
      BY <2>1, <2>4, SectionsCounted
    <3>2. Len(Types) \in 1 .. Len(Types)
      BY <3>1
    <3>3. Last(Types) = Last(Sections).type
      BY <2>1, <3>1, <3>2, TypesAre DEF Last
    <3> QED BY <2>5, <3>3 DEF LastItem, Item, Stored
  <2>7. /\ data' = Write(Write(data, p1, item), 0, Host(Len(data)))
        /\ p1' = p1 + Len(item)
    BY <2>6 DEF CopyLastItem
  <2> HIDE DEF item
  <2>8. Complete(data', p1', h[Len(Sections)])
    BY <2>5, <2>7
  <2>9. Parsed(h, p', res', Sections, Dict)
    <3>1. p' = U32 /\ res' = <<>>
      BY <1>1, <2>2 DEF CopyInv
    <3> QED BY <2>1, <2>4, <3>1, NothingParsed
  <2>10. Items(h, Sections') /\ Complete(data', p1', h[Len(Sections')])
         /\ Parsed(h, p', res', Sections', Dict')
    BY <1>2, <2>4, <2>8, <2>9
  <2> QED BY <2>10 DEF ParseInv
<1>4. ParsedIsWritten'
  BY <1>1 DEF ParsedIsWritten
<1>5. InHostOrder(Types, Sections)' = InHostOrder(Types, Sections)
  BY <1>2
<1> QED BY <1>1, <1>3, <1>4, <1>5 DEF Layout

\* A copy goes outside only when a size stands in another byte order: otherwise the
\* section that comes next lies in the article.
LEMMA CopyOutsideKeeps ==
    ASSUME Filling, Layout, CopyOutside
    PROVE  Layout'
<1>1. /\ pc = "copy" /\ pc' = "copy outside" /\ dicts' = dicts /\ at' = at /\ i < Len(Types)
      /\ dicts \in Libraries /\ Located(dicts, at) /\ ~ItemLies
  BY DEF Filling, Working, Copying, CopyOutside
<1>2. ASSUME InHostOrder(Types, Sections) PROVE FALSE
  <2>1. Written(Types, Sections)
    BY <1>1, <1>2, WrittenHere
  <2>2. PICK g, h : Copied(g, h, data, p1, p2, i, Types, Sections)
    BY <1>1, <1>2 DEF Layout, CopyInv
  <2>3. /\ Types # <<>> /\ LaidOut(g, Types, Sections) /\ i \in 1 .. Len(Types)
        /\ p2 = Len(g[i - 1])
    BY <2>2 DEF Copied
  <2>4. Len(Types) \in Nat \ {0} /\ Len(Sections) = Len(Types)
    BY <2>1, <2>3, SectionsCounted
  <2>5. i \in 1 .. Len(Types) - 1
    <3> DEFINE n == Len(Types)
    <3>1. n \in Nat \ {0} /\ i \in 1 .. n /\ i < n
      BY <1>1, <2>3, <2>4
    <3> HIDE DEF n
    <3>2. i \in 1 .. n - 1
      BY <3>1
    <3> QED BY <3>2 DEF n
  <2> DEFINE s == Sections[i]
  <2>6. FoundIn(Raw, p2, Stored(s)) /\ GoodSection(s)
    BY <2>1, <2>3, <2>5, FieldFound DEF FieldAt, Raw
  <2>7. Types[i] = s.type
    BY <2>1, <2>3, TypesAre
  <2>8. SectionSize(s.type, Raw, p2) = Len(Stored(s)) /\ CanRead(s.type, Raw, p2)
    BY <2>6, SizeOfField
  <2>9. p2 + Len(Stored(s)) <= Len(Raw)
    BY <2>6 DEF FoundIn
  <2> HIDE DEF s
  <2> QED BY <1>1, <2>7, <2>8, <2>9 DEF ItemLies
<1>3. Types' = Types /\ Sections' = Sections
  BY <1>1, SameArticle
<1>4. ParsedIsWritten'
  BY <1>1 DEF ParsedIsWritten
<1>5. InHostOrder(Types, Sections)' = InHostOrder(Types, Sections)
  BY <1>3
<1> QED BY <1>1, <1>2, <1>4, <1>5 DEF Layout

\* A section is read.
LEMMA ParseSectionKeeps ==
    ASSUME Filling, Layout, ParseSection
    PROVE  Layout'
<1>1. /\ pc = "parse" /\ pc' = "parse" /\ dicts' = dicts /\ at' = at
      /\ data' = data /\ p1' = p1 /\ dicts \in Libraries /\ Located(dicts, at)
  BY DEF Filling, Working, ParseSection
<1>2. Types' = Types /\ Sections' = Sections /\ Dict' = Dict
  BY <1>1, SameArticle
<1>3. ASSUME InHostOrder(Types, Sections) PROVE ParseInv'
  <2>1. Written(Types, Sections)
    BY <1>1, <1>3, WrittenHere
  <2>2. PICK h : /\ Items(h, Sections) /\ Complete(data, p1, h[Len(Sections)])
                 /\ Known(Sections) => Parsed(h, p, res, Sections, Dict)
    BY <1>1, <1>3 DEF Layout, ParseInv
  <2>3. Known(Sections) => Parsed(h, p', res', Sections, Dict)
    BY <2>1, <2>2, ItemParsed
  <2>4. /\ Items(h, Sections') /\ Complete(data', p1', h[Len(Sections')])
        /\ Known(Sections') => Parsed(h, p', res', Sections', Dict')
    BY <1>1, <1>2, <2>2, <2>3
  <2> QED BY <2>4 DEF ParseInv
<1>4. ParsedIsWritten'
  BY <1>1 DEF ParsedIsWritten
<1>5. InHostOrder(Types, Sections)' = InHostOrder(Types, Sections)
  BY <1>2
<1> QED BY <1>1, <1>3, <1>4, <1>5 DEF Layout

\* parse_data reads outside only in an article that is not parsable.
LEMMA ParseOutsideKeeps ==
    ASSUME Filling, Layout, ParseOutside
    PROVE  Layout'
<1>1. /\ pc = "parse" /\ pc' = "parse outside" /\ dicts' = dicts /\ at' = at
      /\ dicts \in Libraries /\ Located(dicts, at) /\ p < Uint32(data, 0) /\ ~NextLies
  BY DEF Filling, Working, ParseOutside
<1>2. ASSUME Parsable PROVE FALSE
  <2>1. InHostOrder(Types, Sections) /\ Known(Sections)
    BY <1>2 DEF Parsable
  <2>2. Written(Types, Sections)
    BY <1>1, <2>1, WrittenHere
  <2>3. PICK h : /\ Items(h, Sections) /\ Complete(data, p1, h[Len(Sections)])
                 /\ Parsed(h, p, res, Sections, Dict)
    BY <1>1, <2>1 DEF Layout, ParseInv
  <2> QED BY <1>1, <2>2, <2>3, ItemCanBeRead
<1>3. Parsable' = Parsable
  BY <1>1, SameArticle DEF Parsable
<1>4. ParsedIsWritten'
  BY <1>1, <1>2, <1>3 DEF ParsedIsWritten
<1> QED BY <1>1, <1>4 DEF Layout

\* parse_data returns.
LEMMA ParseReturnKeeps ==
    ASSUME Filling, Layout, ParseReturn
    PROVE  Layout'
<1>1. /\ pc = "parse" /\ pc' = "parsed" /\ dicts' = dicts /\ at' = at /\ res' = res
      /\ dicts \in Libraries /\ Located(dicts, at) /\ p >= Uint32(data, 0)
  BY DEF Filling, Working, ParseReturn
<1>2. Sections' = Sections /\ Dict' = Dict
  BY <1>1, SameArticle
<1>3. Parsable' = Parsable
  BY <1>1, SameArticle DEF Parsable
<1>4. ASSUME Parsable PROVE res = ShownOf(Sections, Dict)[Len(Sections)]
  <2>1. InHostOrder(Types, Sections) /\ Known(Sections)
    BY <1>4 DEF Parsable
  <2>2. Written(Types, Sections)
    BY <1>1, <2>1, WrittenHere
  <2>3. PICK h : /\ Items(h, Sections) /\ Complete(data, p1, h[Len(Sections)])
                 /\ Parsed(h, p, res, Sections, Dict)
    BY <1>1, <2>1 DEF Layout, ParseInv
  <2> QED BY <1>1, <2>2, <2>3, AllParsed
<1>5. Parsable' => res' = ShownOf(Sections', Dict')[Len(Sections')]
  BY <1>1, <1>2, <1>3, <1>4
<1>6. ParsedIsWritten'
  BY <1>1, <1>5 DEF ParsedIsWritten, Dict
<1> QED BY <1>1, <1>6 DEF Layout

\* What the search does leaves the copy alone, and no article is parsed.
LEMMA SearchKeeps ==
    ASSUME \/ \E phrase \in Phrases : LookupData(phrase)
           \/ NextArticle \/ LookupDataReturn \/ SearchOutside
           \/ SearchItem \/ SearchLastItem \/ SearchSection \/ SearchSectionsEnd
    PROVE  Layout'
<1>1. pc' \in {"next", "items", "sections", "searched", "search outside"}
  BY DEF LookupData, NextArticle, LookupDataReturn, SearchItem, SearchLastItem, SearchSection,
         SearchSectionsEnd, SearchText, StepOver, SearchOutside
<1> QED BY <1>1 DEF Layout, ParsedIsWritten

\* What changes nothing keeps it.
LEMMA NothingKeeps ==
    ASSUME Layout, UNCHANGED vars
    PROVE  Layout'
<1>1. /\ dicts' = dicts /\ at' = at /\ pc' = pc /\ data' = data /\ p1' = p1 /\ p2' = p2
      /\ i' = i /\ p' = p /\ res' = res
  BY DEF vars
<1>2. Types' = Types /\ Sections' = Sections /\ Dict' = Dict
  BY <1>1, SameArticle
<1>3. CopyInv' = CopyInv
  BY <1>1, <1>2 DEF CopyInv
<1>4. ParseInv' = ParseInv
  BY <1>1, <1>2 DEF ParseInv
<1>5. Parsable' = Parsable
  BY <1>2 DEF Parsable
<1>6. ParsedIsWritten' = ParsedIsWritten
  BY <1>1, <1>2, <1>5 DEF ParsedIsWritten
<1>7. InHostOrder(Types, Sections)' = InHostOrder(Types, Sections)
  BY <1>2
<1> QED BY <1>1, <1>3, <1>4, <1>6, <1>7 DEF Layout

\* Every step keeps the invariant.
LEMMA LayoutNext == Filling /\ Layout /\ [Next]_vars => Layout'
<1> SUFFICES ASSUME Filling, Layout, [Next]_vars PROVE Layout'
  OBVIOUS
<1>1. ASSUME NEW d \in DOMAIN dicts, NEW a \in DOMAIN dicts[d].articles, GetWordData(d, a)
      PROVE  Layout'
  BY <1>1, GetWordDataKeeps
<1>2. ASSUME \E phrase \in Phrases : LookupData(phrase) PROVE Layout'
  BY <1>2, SearchKeeps
<1>3. CASE UNCHANGED vars \/ Outside
  <2>1. UNCHANGED vars
    BY <1>3 DEF Outside
  <2> QED BY <2>1, NothingKeeps
<1>4. CASE CopyItem \/ CopyLastItem \/ CopyOutside
  BY <1>4, CopyItemKeeps, CopyLastItemKeeps, CopyOutsideKeeps
<1>5. CASE ParseSection \/ ParseOutside \/ ParseReturn
  BY <1>5, ParseSectionKeeps, ParseOutsideKeeps, ParseReturnKeeps
<1>6. CASE Step
  BY <1>3, <1>4, <1>5, <1>6, SearchKeeps DEF Step
<1> QED BY <1>1, <1>2, <1>3, <1>6 DEF Next

\* The invariant says that the layout is exact.
LEMMA LayoutMeans == Filling /\ Layout => LayoutExact
BY FillingMeans DEF Layout, LayoutExact

\* The invariant: the copy is filled, whatever its sizes are taken for, and is what was
\* written when they are taken for what they are.
THEOREM ArticleInvariance == Spec => [](Filling /\ Layout)
<1>1. (Filling /\ Layout) /\ [Next]_vars => (Filling /\ Layout)'
  BY FillingNext, LayoutNext
<1> QED BY <1>1, LayoutInit, PTL DEF Spec

\* GetWordData writes and reads only what there is, and leaves nothing unwritten: for
\* every library, and so for every sametypesequence and all bodies of sections, on hosts
\* of both byte orders, unless a size stands in another one.
THEOREM LayoutIsExact == Spec => []LayoutExact
BY ArticleInvariance, LayoutMeans, PTL

\* What parse_data returns is the texts as they were written, for every article whose
\* types it knows, with or without a sametypesequence, and whose sizes are in the byte
\* order of the host; it reads outside in no such article.
THEOREM AllIsParsed == Spec => []ParsedIsWritten
<1>1. Layout => ParsedIsWritten
  BY DEF Layout
<1> QED BY <1>1, ArticleInvariance, PTL

\* On a host with the byte order of the network every size is read as it was written:
\* for it the theorems hold of all articles.
THEOREM NetworkOrderIsRead ==
    ASSUME BigEndian, NEW types, NEW sections
    PROVE  InHostOrder(types, sections)
BY DEF InHostOrder, Host, HostOrder

\* And on one with the other order, the size of a section that is neither empty nor
\* longer than 65535 bytes never is.
THEOREM SmallSizesAreNot ==
    ASSUME ~BigEndian, NEW n \in 1 .. 65535
    PROVE  Host(n) # Network(n)
<1> SUFFICES ASSUME Host(n) = Network(n) PROVE FALSE
  OBVIOUS
<1> DEFINE a == n \div 16777216
           b == (n \div 65536) % 256
           c == (n \div 256) % 256
           d == n % 256
<1>1. Network(n) = <<a, b, c, d>> /\ Host(n) = <<d, c, b, a>>
  BY DEF Network, Host, HostOrder
<1>2. a = 0 /\ b = 0
  <2>1. n \div 16777216 \in 0 .. 0
    OBVIOUS
  <2>2. n \div 65536 \in 0 .. 0
    OBVIOUS
  <2> QED BY <2>1, <2>2
<1> HIDE DEF a, b, c, d
<1>3. d = 0 /\ c = 0
  <2>1. <<d, c, b, a>>[1] = <<a, b, c, d>>[1] /\ <<d, c, b, a>>[2] = <<a, b, c, d>>[2]
    BY <1>1
  <2>2. <<d, c, b, a>>[1] = d /\ <<a, b, c, d>>[1] = a
        /\ <<d, c, b, a>>[2] = c /\ <<a, b, c, d>>[2] = b
    OBVIOUS
  <2> QED BY <1>2, <2>1, <2>2
<1>4. n % 256 = 0 /\ (n \div 256) % 256 = 0
  BY <1>3 DEF c, d
<1> DEFINE q == n \div 256
           y == q \div 256
<1>5. n = 256 * q + (n % 256) /\ q \in Int
  OBVIOUS
<1>6. q = 256 * y + (q % 256) /\ y \in Int
  BY <1>5
<1> HIDE DEF q, y
<1>7. n = 65536 * y
  BY <1>4, <1>5, <1>6 DEF q
<1> QED BY <1>6, <1>7
-----------------------------------------------------------------------------
(* The words that are searched for.                                         *)

\* A word has a letter, at least.
GoodWord(w) == w \in Seq(Int) /\ Len(w) \in Nat \ {0}
GoodWords(s) == s \in Seq(Seq(Int)) /\ \A k \in 1 .. Len(s) : GoodWord(s[k])
TakenWell(s) == GoodWords(s.words) /\ s.word \in Seq(Int)

\* One more word.
LEMMA WordAdded ==
    ASSUME NEW s, GoodWords(s), NEW w, GoodWord(w)
    PROVE  GoodWords(Append(s, w))
<1>1. s \in Seq(Seq(Int)) /\ w \in Seq(Int)
  BY DEF GoodWords, GoodWord
<1>2. /\ Append(s, w) \in Seq(Seq(Int)) /\ Len(Append(s, w)) = Len(s) + 1
      /\ \A k \in 1 .. Len(s) + 1 : Append(s, w)[k] = IF k \in 1 .. Len(s) THEN s[k] ELSE w
  <2> DEFINE T == Seq(Int)
  <2>1. s \in Seq(T) /\ w \in T
    BY <1>1
  <2> HIDE DEF T
  <2>2. /\ Append(s, w) \in Seq(T) /\ Len(Append(s, w)) = Len(s) + 1
        /\ \A k \in 1 .. Len(s) + 1 : Append(s, w)[k] = IF k \in 1 .. Len(s) THEN s[k] ELSE w
    BY <2>1
  <2> QED BY <2>2 DEF T
<1>3. \A k \in 1 .. Len(Append(s, w)) : GoodWord(Append(s, w)[k])
  BY <1>2 DEF GoodWords
<1> QED BY <1>2, <1>3 DEF GoodWords

\* What was read of the phrase is a word in any case, and is one of the words when it
\* has a letter.
LEMMA FlushKeeps ==
    ASSUME NEW s, TakenWell(s)
    PROVE  GoodWords(Flush(s))
<1>1. CASE s.word = <<>>
  BY <1>1 DEF Flush, TakenWell
<1>2. CASE s.word # <<>>
  <2>1. s.word \in Seq(Int) /\ GoodWords(s.words)
    BY DEF TakenWell
  <2>2. Len(s.word) \in Nat \ {0}
    BY <1>2, <2>1
  <2>3. GoodWord(s.word)
    BY <2>1, <2>2 DEF GoodWord
  <2> QED BY <1>2, <2>1, <2>3, WordAdded DEF Flush
<1> QED BY <1>1, <1>2

\* The state of the scanner.
Scanner == [words : Seq(Seq(Int)), word : Seq(Int), escape : BOOLEAN]

\* A character is taken.
LEMMA CharTaken ==
    ASSUME NEW s \in Scanner, TakenWell(s), NEW c \in Int
    PROVE  TakeChar(s, c) \in Scanner /\ TakenWell(TakeChar(s, c))
<1>1. /\ s.words \in Seq(Seq(Int)) /\ s.word \in Seq(Int) /\ s.escape \in BOOLEAN
      /\ GoodWords(s.words)
  BY DEF Scanner, TakenWell
<1>2. \A x \in Int : Append(s.word, x) \in Seq(Int)
  BY <1>1
<1>3. CASE s.escape
  <2>1. Escaped(c) \in Int
    BY DEF Escaped
  <2>2. TakeChar(s, c) = [s EXCEPT !.word = Append(@, Escaped(c)), !.escape = FALSE]
    BY <1>3 DEF TakeChar
  <2>3. /\ TakeChar(s, c) \in Scanner /\ TakeChar(s, c).words = s.words
        /\ TakeChar(s, c).word = Append(s.word, Escaped(c))
    BY <1>1, <1>2, <2>1, <2>2 DEF Scanner
  <2> QED BY <1>1, <1>2, <2>1, <2>3 DEF TakenWell
<1>4. CASE ~s.escape /\ c = 92
  <2>1. TakeChar(s, c) = [s EXCEPT !.escape = TRUE]
    BY <1>4 DEF TakeChar
  <2>2. TakeChar(s, c) \in Scanner /\ TakeChar(s, c).words = s.words /\ TakeChar(s, c).word = s.word
    BY <1>1, <2>1 DEF Scanner
  <2> QED BY <1>1, <2>2 DEF TakenWell
<1>5. CASE ~s.escape /\ c = 32
  <2>1. TakeChar(s, c) = [s EXCEPT !.words = Flush(s), !.word = <<>>]
    BY <1>5 DEF TakeChar
  <2>2. GoodWords(Flush(s)) /\ Flush(s) \in Seq(Seq(Int))
    BY FlushKeeps DEF GoodWords
  <2>3. <<>> \in Seq(Int)
    OBVIOUS
  <2>4. TakeChar(s, c) \in Scanner /\ TakeChar(s, c).words = Flush(s) /\ TakeChar(s, c).word = <<>>
    BY <1>1, <2>1, <2>2, <2>3 DEF Scanner
  <2> QED BY <2>2, <2>3, <2>4 DEF TakenWell
<1>6. CASE ~s.escape /\ c # 92 /\ c # 32
  <2>1. TakeChar(s, c) = [s EXCEPT !.word = Append(@, c)]
    BY <1>6 DEF TakeChar
  <2>2. /\ TakeChar(s, c) \in Scanner /\ TakeChar(s, c).words = s.words
        /\ TakeChar(s, c).word = Append(s.word, c)
    BY <1>1, <1>2, <2>1 DEF Scanner
  <2> QED BY <1>1, <1>2, <2>2 DEF TakenWell
<1> QED BY <1>1, <1>3, <1>4, <1>5, <1>6

\* The scanner takes one character after the other.
Begin == [words |-> <<>>, word |-> <<>>, escape |-> FALSE]
LEMMA TakenGrows ==
    ASSUME NEW phrase, Len(phrase) \in Nat
    PROVE  /\ Taken(phrase)[0] = Begin
           /\ \A k \in 1 .. Len(phrase) : Taken(phrase)[k] = TakeChar(Taken(phrase)[k - 1], phrase[k])
<1> DEFINE n == Len(phrase)
           Next1(r, k) == IF k = 0 THEN Begin ELSE TakeChar(r[k - 1], phrase[k])
           Upto(r, m) == \A k \in 0 .. m : r[k] = Next1(r, k)
           S == { m \in Nat : \E r : Upto(r, m) }
           Is(r) == r = [k \in 0 .. n |-> Next1(r, k)]
           f == CHOOSE r : Is(r)
<1>1. Taken(phrase) = f
  BY DEF Taken, Begin
<1>2. 0 \in S
  <2> DEFINE e == [k \in 0 .. 0 |-> Begin]
  <2>1. Upto(e, 0)
    OBVIOUS
  <2> QED BY <2>1
<1>3. ASSUME NEW m \in 0 .. n - 1, m \in S PROVE m + 1 \in S
  <2>1. PICK r : Upto(r, m)
    BY <1>3
  <2> DEFINE last == TakeChar(r[m], phrase[m + 1])
             q == [k \in 0 .. m + 1 |-> IF k = m + 1 THEN last ELSE r[k]]
  <2>2. /\ \A k \in 0 .. m : k \in 0 .. m + 1 /\ k # m + 1
        /\ m + 1 \in 0 .. m + 1 /\ m + 1 # 0 /\ (m + 1) - 1 = m /\ m \in 0 .. m
        /\ \A k \in 0 .. m : k # 0 => k - 1 \in 0 .. m
        /\ \A k \in 0 .. m + 1 : k = m + 1 \/ k \in 0 .. m
    OBVIOUS
  <2>3. q[m + 1] = last /\ \A k \in 0 .. m : q[k] = r[k]
    BY <2>2
  <2> HIDE DEF q
  <2>4. ASSUME NEW k \in 0 .. m + 1 PROVE q[k] = Next1(q, k)
    <3>1. CASE k = m + 1
      BY <2>2, <2>3, <3>1
    <3>2. CASE k \in 0 .. m
      <4>1. q[k] = Next1(r, k)
        BY <2>1, <2>3, <3>2
      <4>2. Next1(r, k) = Next1(q, k)
        BY <2>2, <2>3, <3>2
      <4> QED BY <4>1, <4>2
    <3> QED BY <2>2, <3>1, <3>2
  <2> HIDE DEF Next1
  <2>5. Upto(q, m + 1) /\ m + 1 \in Nat
    BY <2>4
  <2> QED BY <2>5
<1> HIDE DEF S
<1>4. n \in S
  BY <1>2, <1>3, UpTo
<1>5. PICK r : Upto(r, n)
  BY <1>4 DEF S
<1> DEFINE q == [k \in 0 .. n |-> r[k]]
<1>6. Is(q)
  <2>1. \A k \in 0 .. n : q[k] = r[k] /\ (k # 0 => k - 1 \in 0 .. n)
    OBVIOUS
  <2> HIDE DEF q
  <2>2. \A k \in 0 .. n : r[k] = Next1(q, k)
    BY <1>5, <2>1
  <2>3. [k \in 0 .. n |-> r[k]] = [k \in 0 .. n |-> Next1(q, k)]
    BY <2>2
  <2> QED BY <2>3 DEF q
<1>7. Is(f)
  <2> HIDE DEF Is, q
  <2> QED BY <1>6
<1>8. \A k \in 0 .. n : f[k] = Next1(f, k)
  <2> HIDE DEF f
  <2> QED BY <1>7
<1> HIDE DEF f
<1>9. f[0] = Begin /\ \A k \in 1 .. n : f[k] = TakeChar(f[k - 1], phrase[k])
  BY <1>8
<1> QED BY <1>1, <1>9

\* The words of a phrase are words.
LEMMA WordsAreGood ==
    ASSUME NEW phrase \in Phrases
    PROVE  GoodWords(Words(phrase))
<1> DEFINE n == Len(phrase)
           f == Taken(phrase)
           Well(s) == s \in Scanner /\ TakenWell(s)
           S == { k \in Nat : k <= n => Well(f[k]) }
<1>1. phrase \in Seq(1 .. 255)
  BY SearchAssumption
<1>2. n \in Nat /\ \A k \in 1 .. n : phrase[k] \in Int
  <2>1. \A k \in 1 .. n : phrase[k] \in 1 .. 255
    BY <1>1, ElementOfSeq
  <2>2. n \in Nat
    BY <1>1
  <2>3. \A x \in 1 .. 255 : x \in Int
    OBVIOUS
  <2> QED BY ONLY <2>1, <2>2, <2>3
<1>3. f[0] = Begin /\ \A k \in 1 .. n : f[k] = TakeChar(f[k - 1], phrase[k])
  BY <1>2, TakenGrows
<1> HIDE DEF f, n
<1>4. 0 \in S
  <2>1. <<>> \in Seq(Seq(Int)) /\ <<>> \in Seq(Int) /\ Len(<<>>) = 0
    OBVIOUS
  <2>2. Begin \in Scanner /\ Begin.words = <<>> /\ Begin.word = <<>>
    BY <2>1 DEF Begin, Scanner
  <2>3. Well(Begin)
    BY <2>1, <2>2 DEF TakenWell, GoodWords
  <2> HIDE DEF Well
  <2> QED BY <1>3, <2>3
<1>5. ASSUME NEW k \in 0 .. n - 1, k \in S PROVE k + 1 \in S
  <2>1. k + 1 \in 1 .. n /\ (k + 1) - 1 = k /\ k <= n /\ k + 1 \in Nat
    BY <1>2
  <2>2. Well(f[k])
    BY <1>5, <2>1
  <2>3. f[k + 1] = TakeChar(f[k], phrase[k + 1]) /\ phrase[k + 1] \in Int
    BY <1>2, <1>3, <2>1
  <2>4. Well(f[k + 1])
    BY <2>2, <2>3, CharTaken
  <2> HIDE DEF Well
  <2> QED BY <2>1, <2>4
<1> HIDE DEF S
<1>6. n \in S
  BY <1>2, <1>4, <1>5, UpTo
<1>7. TakenWell(f[n])
  BY <1>2, <1>6 DEF S
<1> QED BY <1>7, FlushKeeps DEF Words, f, n
-----------------------------------------------------------------------------
(* Words in a text.                                                         *)

\* At a + t there is what is at t in the part.
Same(mem, a, part, t, n) == SubSeq(mem, a + t + 1, a + t + n) = SubSeq(part, t + 1, t + n)

\* A part of what is found somewhere is found there.
LEMMA SamePart ==
    ASSUME NEW mem, NEW a, NEW part, FoundIn(mem, a, part), NEW t \in Nat, NEW n \in Nat,
           t + n <= Len(part)
    PROVE  Same(mem, a, part, t, n)
<1> DEFINE w == SubSeq(part, t + 1, t + n)
<1>1. /\ a \in Nat /\ part \in Seq(Int) /\ mem \in Seq(Int) /\ a + Len(part) <= Len(mem)
      /\ \A k \in 1 .. Len(part) : mem[a + k] = part[k] /\ part[k] \in Int
      /\ Len(part) \in Nat /\ Len(mem) \in Nat
  BY DEF FoundIn
<1>2. w \in Seq(Int) /\ Len(w) = n /\ \A k \in 1 .. n : w[k] = part[t + k]
  <2> DEFINE x == t + 1
             y == t + n
  <2>1. /\ x \in 1 .. Len(part) + 1 /\ y \in x - 1 .. Len(part) /\ y - x + 1 = n
        /\ \A k \in 1 .. n : x + k - 1 = t + k
    BY <1>1
  <2>2. w = SubSeq(part, x, y)
    OBVIOUS
  <2> HIDE DEF x, y, w
  <2>3. SubSeq(part, x, y) \in Seq(Int) /\ Len(SubSeq(part, x, y)) = y - x + 1
        /\ \A k \in 1 .. y - x + 1 : SubSeq(part, x, y)[k] = part[x + k - 1]
    <3>1. part \in Seq(Int) /\ x \in 1 .. Len(part) + 1 /\ y \in x - 1 .. Len(part)
      BY <1>1, <2>1
    <3> QED BY ONLY <3>1
  <2> QED BY <2>1, <2>2, <2>3
<1> HIDE DEF w
<1>3. \A k \in 1 .. n : t + k \in 1 .. Len(part) /\ (a + t) + k = a + (t + k)
  BY <1>1
<1>4. /\ a + t \in Nat /\ (a + t) + Len(w) <= Len(mem)
      /\ \A k \in 1 .. Len(w) : mem[(a + t) + k] = w[k]
  <2>1. a + t \in Nat /\ (a + t) + n <= Len(mem)
    BY <1>1
  <2>2. ASSUME NEW k \in 1 .. n PROVE mem[(a + t) + k] = w[k]
    <3>1. mem[a + (t + k)] = part[t + k]
      BY <1>1, <1>3
    <3> QED BY <1>2, <1>3, <3>1
  <2> QED BY <1>2, <2>1, <2>2
<1>5. SubSeq(mem, (a + t) + 1, (a + t) + Len(w)) = w
  BY <1>1, <1>2, <1>4, PartIs
<1> QED BY <1>2, <1>5 DEF w, Same

\* The text of a section stands at a, and no 0 is in it.
TextStands(mem, a, text) ==
    /\ FoundIn(mem, a, text) /\ Len(text) \in Nat
    /\ \A k \in 1 .. Len(text) : text[k] # 0

\* strlen() does not end in it.
LEMMA TextIsRead ==
    ASSUME NEW mem, NEW a, NEW text, TextStands(mem, a, text)
    PROVE  StrLen(mem, a) \in Nat /\ Len(text) <= StrLen(mem, a) /\ a \in Nat
<1> DEFINE n == StrLen(mem, a)
<1>1. /\ a \in Nat /\ mem \in Seq(Int) /\ text \in Seq(Int) /\ a + Len(text) <= Len(mem)
      /\ Len(text) \in Nat /\ Len(mem) \in Nat
      /\ \A k \in 1 .. Len(text) : mem[a + k] = text[k] /\ text[k] # 0
  BY DEF TextStands, FoundIn
<1>2. n \in Nat /\ a + n <= Len(mem) /\ (a + n = Len(mem) \/ mem[a + n + 1] = 0)
  BY <1>1, StrLenEnds
<1> HIDE DEF n
<1>3. ~(n < Len(text))
  <2> SUFFICES ASSUME n < Len(text) PROVE FALSE
    OBVIOUS
  <2>1. n + 1 \in 1 .. Len(text) /\ a + n + 1 = a + (n + 1) /\ a + n # Len(mem)
    BY <1>1, <1>2
  <2> QED BY <1>1, <1>2, <2>1
<1> QED BY <1>1, <1>2, <1>3 DEF n

\* A word that is in the text is found in it.
LEMMA WordIsFound ==
    ASSUME NEW mem, NEW a, NEW text, TextStands(mem, a, text), NEW w, GoodWord(w),
           HasWord(text, w)
    PROVE  \E t \in Finds(mem, a, w) : t < a + Len(text)
<1>1. PICK t \in 0 .. Len(text) - Len(w) : SubSeq(text, t + 1, t + Len(w)) = w
  BY DEF HasWord
<1>2. /\ StrLen(mem, a) \in Nat /\ Len(text) <= StrLen(mem, a) /\ a \in Nat
      /\ Len(text) \in Nat /\ FoundIn(mem, a, text) /\ Len(w) \in Nat \ {0}
  BY TextIsRead DEF TextStands, GoodWord
<1>a. t \in 0 .. Len(text) - Len(w)
  OBVIOUS
<1>3. t \in Nat /\ t + Len(w) <= Len(text)
  BY ONLY <1>a, <1>2
<1>b. Same(mem, a, text, t, Len(w))
  BY <1>2, <1>3, SamePart
<1>4. SubSeq(mem, a + t + 1, a + t + Len(w)) = w
  BY <1>1, <1>b DEF Same
<1>5. a + t \in a .. a + StrLen(mem, a) - Len(w) /\ a + t < a + Len(text)
  BY ONLY <1>2, <1>3
<1> QED BY <1>4, <1>5 DEF Finds

\* What is found in the text, all of it, is a word in it.
LEMMA FoundIsWord ==
    ASSUME NEW mem, NEW a, NEW text, TextStands(mem, a, text), NEW w, GoodWord(w),
           NEW t \in Finds(mem, a, w), t + Len(w) <= a + Len(text)
    PROVE  HasWord(text, w)
<1>1. /\ StrLen(mem, a) \in Nat /\ a \in Nat
      /\ Len(text) \in Nat /\ FoundIn(mem, a, text) /\ Len(w) \in Nat
  BY TextIsRead DEF TextStands, GoodWord
<1>2. t \in a .. a + StrLen(mem, a) - Len(w) /\ SubSeq(mem, t + 1, t + Len(w)) = w
  BY DEF Finds
<1> DEFINE x == t - a
<1>3. x \in Nat /\ x + Len(w) <= Len(text) /\ a + x = t /\ x \in 0 .. Len(text) - Len(w)
  BY ONLY <1>1, <1>2, t + Len(w) <= a + Len(text)
<1> HIDE DEF x
<1>b. Same(mem, a, text, x, Len(w))
  BY <1>1, <1>3, SamePart
<1>4. SubSeq(mem, a + x + 1, a + x + Len(w)) = SubSeq(text, x + 1, x + Len(w))
  BY <1>b DEF Same
<1>5. SubSeq(text, x + 1, x + Len(w)) = w
  BY <1>2, <1>3, <1>4
<1> QED BY <1>3, <1>5 DEF HasWord

\* The text of a section in front of the last one: strlen() is its length, and so its
\* words are found, and no others.
LEMMA FieldSearched ==
    ASSUME NEW mem, NEW a, NEW s, GoodSection(s), ~IsUpper(s.type), FoundIn(mem, a, Stored(s)),
           NEW w, GoodWord(w)
    PROVE  Finds(mem, a, w) # {} <=> HasWord(s.body, w)
<1> DEFINE b == s.body
           z == <<0>>
<1>1. b \in Seq(Int) /\ Len(b) \in Nat /\ z \in Seq(Int) /\ Len(z) = 1
  <2>1. Cells(b)
    BY BodyCells DEF GoodSection, Section
  <2> QED BY <2>1 DEF Cells
<1>2. Stored(s) = b \o z
  BY <1>1 DEF Stored
<1>3. /\ Len(Stored(s)) = Len(b) + 1 /\ Stored(s)[Len(b) + 1] = 0
      /\ \A k \in 1 .. Len(b) : Stored(s)[k] # 0
  BY StoredIs
<1> HIDE DEF b, z
<1>4. FoundIn(Stored(s), 0, b) /\ \A k \in 1 .. Len(b) : Stored(s)[k] = b[k]
  BY <1>1, <1>2, FoundBehind, CatFacts
<1>5. /\ a \in Nat /\ mem \in Seq(Int) /\ a + Len(Stored(s)) <= Len(mem)
      /\ \A k \in 1 .. Len(Stored(s)) : mem[a + k] = Stored(s)[k]
  BY DEF FoundIn
<1>6. FoundIn(mem, a, b)
  <2>1. FoundIn(mem, a + 0, b)
    BY <1>4, PartOfPart
  <2> QED BY <1>5, <2>1
<1>7. TextStands(mem, a, b)
  BY <1>1, <1>3, <1>4, <1>6 DEF TextStands
<1>8. StrLen(mem, a) = Len(b)
  <2>1. Len(b) + 1 \in 1 .. Len(Stored(s)) /\ \A k \in 1 .. Len(b) : k \in 1 .. Len(Stored(s))
    BY <1>1, <1>3
  <2>2. mem[a + (Len(b) + 1)] = 0 /\ \A k \in 1 .. Len(b) : mem[a + k] # 0
    BY <1>3, <1>5, <2>1
  <2>3. a + (Len(b) + 1) = a + Len(b) + 1 /\ a + Len(b) < Len(mem)
    BY <1>1, <1>3, <1>5
  <2> QED BY <1>1, <1>5, <2>2, <2>3, StrLenIs
<1>9. ASSUME NEW t \in Finds(mem, a, w) PROVE HasWord(b, w)
  <2>1. t \in a .. a + Len(b) - Len(w) /\ Len(w) \in Nat
    BY <1>8 DEF Finds, GoodWord
  <2>2. t + Len(w) <= a + Len(b)
    BY <1>1, <1>5, <2>1
  <2> QED BY <1>7, <2>2, FoundIsWord
<1>10. HasWord(b, w) => Finds(mem, a, w) # {}
  BY <1>7, WordIsFound
<1> QED BY <1>9, <1>10 DEF b
-----------------------------------------------------------------------------
(* The full-text search.                                                    *)

\* The words that are in the first n sections, in those that are searched.
InSection(s, w) == s.type \in SearchedTypes /\ HasWord(s.body, SearchWords[w])
WordsIn(sections, n) ==
    { w \in DOMAIN SearchWords : \E k \in 1 .. n : InSection(sections[k], w) }

\* What the search says of an article is right.
OneLetterWords == \A w \in DOMAIN SearchWords : Len(SearchWords[w]) = 1
RightAnswer(sections, found) ==
    /\ HasAllWords(sections) => found
    /\ OneLetterWords /\ found => HasAllWords(sections)

\* The place of an article; whether LookupData has still to answer for it.
PlaceOf(d, a) == [dict |-> d, article |-> a]
Busy == pc \in {"items", "sections"}
Searches == Busy \/ pc \in {"next", "searched"}
Open(place) == place \in rest \/ (Busy /\ at = place)
AnsweredFor(d, a) ==
    IF Open(PlaceOf(d, a)) THEN PlaceOf(d, a) \notin reslist
    ELSE RightAnswer(dicts[d].articles[a], PlaceOf(d, a) \in reslist)

\* The articles that FullTextSearch speaks of.
Claimed(d, a) == Searchable(d) /\ InHostOrder(dicts[d].types, dicts[d].articles[a])
Answered ==
    \A d \in DOMAIN dicts : \A a \in DOMAIN dicts[d].articles :
        Claimed(d, a) => AnsweredFor(d, a)

\* SearchData has come to section i of an article, whose sizes it reads as they were
\* written, and has marked the words of those before it.
Marked(g) ==
    /\ Types # <<>> /\ LaidOut(g, Types, Sections)
    /\ i \in 1 .. Len(Types) /\ p = Len(g[i - 1])
    /\ FoundIn(origin_data, 0, Raw)
    /\ WordFind = WordsIn(Sections, i - 1) /\ WordFind # DOMAIN SearchWords

\* The invariant of the search.
Search ==
    /\ rest \subseteq Places /\ origin_data \in Seq(Int) /\ GoodWords(SearchWords)
    /\ rest # {} \/ Busy => SearchWords # <<>>
    /\ Busy => at \in Places /\ at \notin rest
    /\ pc = "searched" => rest = {}
    /\ pc = "sections" => Types = <<>>
    /\ pc = "items" => /\ Types # <<>>
                       /\ InHostOrder(Types, Sections) => \E g : Marked(g)
    /\ pc = "search outside" /\ Types # <<>> => ~InHostOrder(Types, Sections)
    /\ Searches /\ SearchWords # <<>> => Answered

\* A place is that of an article.
LEMMA PlacesAre ==
    ASSUME NEW place \in Places
    PROVE  /\ Located(dicts, place) /\ place = PlaceOf(place.dict, place.article)
<1>1. PICK d \in DOMAIN dicts : \E a \in DOMAIN dicts[d].articles : place = PlaceOf(d, a)
  BY DEF Places, PlaceOf
<1>2. PICK a \in DOMAIN dicts[d].articles : place = PlaceOf(d, a)
  BY <1>1
<1>3. place.dict = d /\ place.article = a
  BY <1>2 DEF PlaceOf
<1> QED BY <1>1, <1>2, <1>3 DEF Located

\* Every article of a dictionary that is searched has its place.
LEMMA PlacesAll ==
    ASSUME NEW d \in DOMAIN dicts, Searchable(d), NEW a \in DOMAIN dicts[d].articles
    PROVE  PlaceOf(d, a) \in Places
BY DEF Places, PlaceOf, Searchable

\* All words are there when they are in its sections.
LEMMA AllWordsIn ==
    ASSUME NEW sections, Len(sections) \in Nat, DOMAIN sections = 1 .. Len(sections)
    PROVE  HasAllWords(sections) <=> WordsIn(sections, Len(sections)) = DOMAIN SearchWords
BY DEF HasAllWords, WordsIn, InSection

\* One more section.
LEMMA WordsGrow ==
    ASSUME NEW sections, NEW n \in Nat \ {0}
    PROVE  WordsIn(sections, n) = WordsIn(sections, n - 1)
               \cup { w \in DOMAIN SearchWords : InSection(sections[n], w) }
<1>1. \A k : k \in 1 .. n <=> (k \in 1 .. n - 1 \/ k = n)
  OBVIOUS
<1> QED BY <1>1 DEF WordsIn

\* One that is not searched adds no word.
LEMMA WordsStay ==
    ASSUME NEW sections, NEW n \in Nat \ {0}, sections[n].type \notin SearchedTypes
    PROVE  WordsIn(sections, n) = WordsIn(sections, n - 1)
<1> DEFINE more == { w \in DOMAIN SearchWords : InSection(sections[n], w) }
<1>1. more = {}
  BY DEF InSection
<1>2. WordsIn(sections, n) = WordsIn(sections, n - 1) \cup more
  BY WordsGrow
<1> HIDE DEF more
<1> QED BY <1>1, <1>2

\* Its sections are counted.
LEMMA SectionsAre ==
    ASSUME NEW types, NEW sections, Legal(types, sections)
    PROVE  /\ Len(sections) \in Nat /\ DOMAIN sections = 1 .. Len(sections)
           /\ \A k \in 1 .. Len(sections) : GoodSection(sections[k])
<1>1. sections \in Seq(Section)
  BY DEF Legal
<1>2. Len(sections) \in Nat /\ DOMAIN sections = 1 .. Len(sections)
  BY <1>1
<1> QED BY <1>2 DEF Legal

\* The words are words.
LEMMA TheWords ==
    ASSUME GoodWords(SearchWords)
    PROVE  \A w \in DOMAIN SearchWords : GoodWord(SearchWords[w])
<1>1. DOMAIN SearchWords = 1 .. Len(SearchWords)
  BY DEF GoodWords
<1> QED BY <1>1 DEF GoodWords

\* A section in front of the last one is found in the buffer, with its size.
LEMMA SectionInBuffer ==
    ASSUME Written(Types, Sections), NEW g, Marked(g), i < Len(Types)
    PROVE  /\ FoundIn(origin_data, p, Stored(Sections[i])) /\ GoodSection(Sections[i])
           /\ Types[i] = Sections[i].type
           /\ p + SectionSize(Types[i], origin_data, p) = Len(g[i])
           /\ i + 1 \in 1 .. Len(Types) /\ (i + 1) - 1 = i
<1>1. /\ Types # <<>> /\ LaidOut(g, Types, Sections) /\ i \in 1 .. Len(Types)
      /\ p = Len(g[i - 1]) /\ FoundIn(origin_data, 0, Raw)
  BY DEF Marked
<1>2. Len(Types) \in Nat \ {0}
  BY <1>1, SectionsCounted
<1>3. i \in 1 .. Len(Types) - 1 /\ i + 1 \in 1 .. Len(Types) /\ (i + 1) - 1 = i
  BY <1>1, <1>2
<1>4. FieldAt(Raw, p, Sections[i], Len(g[i]))
  BY <1>1, <1>3, FieldFound DEF Raw
<1>5. /\ FoundIn(Raw, p, Stored(Sections[i])) /\ GoodSection(Sections[i])
      /\ p \in Nat /\ Len(g[i]) = p + Len(Stored(Sections[i]))
  BY <1>4 DEF FieldAt
<1>6. FoundIn(origin_data, p, Stored(Sections[i]))
  <2>1. FoundIn(origin_data, 0 + p, Stored(Sections[i]))
    BY <1>1, <1>5, PartOfPart
  <2> QED BY <1>5, <2>1
<1>7. Types[i] = Sections[i].type
  BY <1>1, TypesAre
<1>8. SectionSize(Types[i], origin_data, p) = Len(Stored(Sections[i]))
  BY <1>5, <1>6, <1>7, SizeOfField
<1> QED BY <1>3, <1>5, <1>6, <1>7, <1>8

\* The words found in it are the words it has.
LEMMA SectionMarked ==
    ASSUME Written(Types, Sections), GoodWords(SearchWords), NEW g, Marked(g), i < Len(Types),
           Types[i] \in SearchedTypes
    PROVE  WordFind \cup { w \in DOMAIN SearchWords : Finds(origin_data, p, SearchWords[w]) # {} }
               = WordsIn(Sections, i)
<1>1. /\ FoundIn(origin_data, p, Stored(Sections[i])) /\ GoodSection(Sections[i])
      /\ Types[i] = Sections[i].type
  BY SectionInBuffer
<1>2. ~IsUpper(Sections[i].type)
  BY <1>1, TypesOfTexts DEF ShownTypes
<1>3. \A w \in DOMAIN SearchWords :
          Finds(origin_data, p, SearchWords[w]) # {} <=> InSection(Sections[i], w)
  <2>1. \A w \in DOMAIN SearchWords :
            Finds(origin_data, p, SearchWords[w]) # {} <=> HasWord(Sections[i].body, SearchWords[w])
    BY <1>1, <1>2, TheWords, FieldSearched
  <2> QED BY <1>1, <2>1 DEF InSection
<1>4. i \in Nat \ {0} /\ WordFind = WordsIn(Sections, i - 1)
  BY DEF Marked
<1> QED BY <1>3, <1>4, WordsGrow

\* The words found in the last section, and behind it, are those it has, at least; and
\* nothing else when they are single letters.
LEMMA LastMarked ==
    ASSUME Written(Types, Sections), GoodWords(SearchWords), origin_data \in Seq(Int),
           NEW g, Marked(g), i = Len(Types), Last(Types) \in SearchedTypes, NEW b \in Beyond
    PROVE  LET found == LastFound(origin_data \o b)
               has == WordsIn(Sections, Len(Sections))
           IN  has \subseteq found /\ (OneLetterWords => found \subseteq has)
<1> DEFINE mem == origin_data \o b
           s == Sections[i]
           n == Len(s.body)
<1>1. /\ Types # <<>> /\ LaidOut(g, Types, Sections) /\ i \in 1 .. Len(Types)
      /\ p = Len(g[i - 1]) /\ FoundIn(origin_data, 0, Raw) /\ WordFind = WordsIn(Sections, i - 1)
  BY DEF Marked
<1>2. /\ Len(Types) \in Nat \ {0} /\ Len(Sections) = Len(Types) /\ GoodSection(s)
      /\ Last(Sections) = s /\ Last(Types) = s.type
  BY <1>1, SectionsCounted, TypesAre DEF Last
<1>3. ~IsUpper(s.type) /\ s.type \in SearchedTypes
  BY <1>2, TypesOfTexts DEF ShownTypes
<1>4. /\ Len(Raw) = p + n /\ n \in Nat /\ p \in Nat /\ FoundIn(Raw, p, s.body)
  BY <1>1, <1>2, LaidOutFacts DEF Raw
<1>5. FoundIn(mem, 0, origin_data) /\ mem \in Seq(Int)
  <2>1. Cells(b)
    BY BodyCells, SearchAssumption
  <2> QED BY <2>1, FoundBehind DEF Cells
<1> HIDE DEF mem, s, n
<1>6. FoundIn(mem, p, s.body)
  <2>1. FoundIn(mem, 0 + 0, Raw)
    BY <1>1, <1>5, PartOfPart
  <2>2. FoundIn(mem, 0, Raw)
    BY <2>1
  <2>3. FoundIn(mem, 0 + p, s.body)
    BY <1>4, <2>2, PartOfPart
  <2> QED BY <1>4, <2>3
<1>7. TextStands(mem, p, s.body)
  <2>1. \A k \in 1 .. n : s.body[k] # 0
    BY <1>2, <1>3 DEF GoodSection, Section, ToSet, n
  <2> QED BY <1>4, <1>6, <2>1 DEF TextStands, n
<1>8. WordsIn(Sections, Len(Sections)) =
          WordFind \cup { w \in DOMAIN SearchWords : InSection(s, w) }
  BY <1>1, <1>2, WordsGrow DEF s
<1>9. ASSUME NEW w \in DOMAIN SearchWords, InSection(s, w)
      PROVE  \E t \in Finds(mem, p, SearchWords[w]) : t < Len(Raw)
  <2>1. \E t \in Finds(mem, p, SearchWords[w]) : t < p + Len(s.body)
    BY <1>7, <1>9, TheWords, WordIsFound DEF InSection
  <2> QED BY <1>4, <2>1 DEF n
<1>10. ASSUME NEW w \in DOMAIN SearchWords, Len(SearchWords[w]) = 1,
              NEW t \in Finds(mem, p, SearchWords[w]), t < Len(Raw)
       PROVE  InSection(s, w)
  <2>1. t \in Int
    BY <1>4, TextIsRead, <1>7 DEF Finds
  <2>2. t + Len(SearchWords[w]) <= p + Len(s.body)
    BY <1>4, <1>10, <2>1 DEF n
  <2>3. HasWord(s.body, SearchWords[w])
    BY <1>7, <2>2, TheWords, FoundIsWord
  <2> QED BY <1>3, <2>3 DEF InSection
<1>11. LastFound(mem) = WordFind \cup { w \in DOMAIN SearchWords :
                            \E t \in Finds(mem, p, SearchWords[w]) : t < Len(Raw) }
  <2>1. ~(p > Len(Raw))
    BY <1>4
  <2> QED BY <2>1 DEF LastFound
<1>12. WordsIn(Sections, Len(Sections)) \subseteq LastFound(mem)
  BY <1>8, <1>9, <1>11
<1>13. OneLetterWords => LastFound(mem) \subseteq WordsIn(Sections, Len(Sections))
  BY <1>8, <1>10, <1>11 DEF OneLetterWords
<1> QED BY <1>12, <1>13 DEF mem

\* What is asked, and of which dictionaries, stays the same.
SameQuestion == dicts' = dicts /\ SearchWords' = SearchWords

\* Then every article has the same words, and is searched as it was.
LEMMA SameWords ==
    ASSUME SameQuestion
    PROVE  /\ Places' = Places /\ \A d : Searchable(d)' = Searchable(d)
           /\ \A d, a : Claimed(d, a)' = Claimed(d, a)
           /\ \A d, a : HasAllWords(dicts[d].articles[a])' = HasAllWords(dicts[d].articles[a])
           /\ OneLetterWords' = OneLetterWords
<1>1. \A d : Searchable(d)' = Searchable(d)
  BY DEF SameQuestion, Searchable, ContainSearchData
<1>2. \A d, a : Claimed(d, a)' = Claimed(d, a)
  BY <1>1 DEF SameQuestion, Claimed
<1> QED BY <1>1, <1>2 DEF SameQuestion, Places, ContainSearchData, HasAllWords, OneLetterWords

\* A search that answers for the article it works on, or goes on with it.
LEMMA OthersKept ==
    ASSUME Search, SameQuestion, Busy, rest' = rest, SearchWords # <<>>, Searches',
           \/ reslist' = reslist \/ reslist' = reslist \cup {at},
           \/ Busy' /\ at' = at /\ reslist' = reslist
           \/ ~Busy' /\ (Claimed(at.dict, at.article) => RightAnswer(Sections, at \in reslist'))
    PROVE  Answered'
<1>1. Answered /\ at \in Places /\ at \notin rest
  BY DEF Search, Searches
<1>2. /\ \A d, a : Claimed(d, a)' = Claimed(d, a)
      /\ \A d, a : HasAllWords(dicts[d].articles[a])' = HasAllWords(dicts[d].articles[a])
      /\ OneLetterWords' = OneLetterWords /\ dicts' = dicts
  BY SameWords DEF SameQuestion
<1>3. ASSUME NEW d \in DOMAIN dicts, NEW a \in DOMAIN dicts[d].articles, Claimed(d, a)
      PROVE  AnsweredFor(d, a)'
  <2> DEFINE place == PlaceOf(d, a)
  <2>1. AnsweredFor(d, a)
    BY <1>1, <1>3 DEF Answered
  <2>2. AnsweredFor(d, a)' <=>
            IF place \in rest \/ (Busy' /\ at' = place) THEN place \notin reslist'
            ELSE /\ HasAllWords(dicts[d].articles[a]) => place \in reslist'
                 /\ OneLetterWords /\ place \in reslist' => HasAllWords(dicts[d].articles[a])
    BY <1>2 DEF AnsweredFor, Open, RightAnswer, PlaceOf
  <2>3. AnsweredFor(d, a) <=>
            IF place \in rest \/ at = place THEN place \notin reslist
            ELSE /\ HasAllWords(dicts[d].articles[a]) => place \in reslist
                 /\ OneLetterWords /\ place \in reslist => HasAllWords(dicts[d].articles[a])
    BY DEF AnsweredFor, Open, RightAnswer
  <2>4. CASE place # at
    <3>1. place \in reslist' <=> place \in reslist
      BY <2>4
    <3> HIDE DEF place
    <3> QED BY <2>1, <2>2, <2>3, <2>4, <3>1
  <2>5. CASE place = at
    <3>1. at.dict = d /\ at.article = a /\ Sections = dicts[d].articles[a]
      BY <2>5 DEF Sections, PlaceOf
    <3>2. place \notin rest /\ place \notin reslist
      BY <1>1, <2>1, <2>3, <2>5
    <3>3. CASE Busy'
      BY <2>2, <2>5, <3>2, <3>3
    <3>4. CASE ~Busy'
      <4>1. RightAnswer(Sections, at \in reslist')
        BY <1>3, <3>1, <3>4
      <4>2. /\ HasAllWords(dicts[d].articles[a]) => place \in reslist'
            /\ OneLetterWords /\ place \in reslist' => HasAllWords(dicts[d].articles[a])
        BY <2>5, <3>1, <4>1 DEF RightAnswer
      <4> HIDE DEF place
      <4> QED BY <2>2, <3>2, <3>4, <4>2
    <3> QED BY <3>3, <3>4
  <2> QED BY <2>4, <2>5
<1> QED BY <1>2, <1>3 DEF Answered

\* SearchData is done with an article.
LEMMA ArticleDone ==
    ASSUME Search, SameQuestion, Busy, pc' = "next", rest' = rest, origin_data' = origin_data,
           \/ reslist' = reslist \/ reslist' = reslist \cup {at},
           Claimed(at.dict, at.article) => RightAnswer(Sections, at \in reslist')
    PROVE  Search'
<1>1. /\ rest \subseteq Places /\ origin_data \in Seq(Int) /\ GoodWords(SearchWords)
      /\ SearchWords # <<>>
  BY DEF Search
<1>2. SearchWords' = SearchWords /\ ~Busy' /\ Places' = Places /\ Searches'
  BY SameWords DEF SameQuestion, Busy, Searches
<1>3. Answered'
  BY <1>1, <1>2, OthersKept
<1> QED BY <1>1, <1>2, <1>3 DEF Search

\* The article is the one of a place.
LEMMA ArticleHere ==
    ASSUME Search, Busy, dicts \in Libraries
    PROVE  /\ InHostOrder(Types, Sections) => Written(Types, Sections)
           /\ Legal(Types, Sections) /\ Len(Sections) \in Nat
           /\ DOMAIN Sections = 1 .. Len(Sections) /\ GoodWords(SearchWords) /\ SearchWords # <<>>
<1>1. at \in Places /\ GoodWords(SearchWords) /\ SearchWords # <<>>
  BY DEF Search
<1>2. Located(dicts, at)
  BY <1>1, PlacesAre
<1>3. Legal(Types, Sections) /\ (InHostOrder(Types, Sections) => Written(Types, Sections))
  BY <1>2, LegalHere, WrittenHere
<1> QED BY <1>1, <1>3, SectionsAre

\* Nothing is claimed of an article with a size in another byte order.
LEMMA NotClaimed ==
    ASSUME Search, SameQuestion, pc = "items", ~InHostOrder(Types, Sections),
           at' = at, rest' = rest, origin_data' = origin_data,
           \/ pc' = "next" /\ (reslist' = reslist \/ reslist' = reslist \cup {at})
           \/ pc' = pc /\ reslist' = reslist
    PROVE  Search'
<1>1. /\ SearchWords # <<>> /\ Busy /\ dicts' = dicts /\ SearchWords' = SearchWords
      /\ Types # <<>>
  BY DEF Search, Busy, SameQuestion
<1>2. ~Claimed(at.dict, at.article)
  BY DEF Claimed, Types, Sections
<1>3. CASE pc' = "next"
  BY <1>1, <1>2, <1>3, ArticleDone
<1>4. CASE pc' = pc /\ reslist' = reslist
  <2>1. Busy' /\ Searches' /\ Places' = Places
    BY <1>4, SameWords DEF Busy, Searches
  <2>2. Answered'
    BY <1>1, <1>4, <2>1, OthersKept
  <2>3. Types' = Types /\ Sections' = Sections
    BY <1>1, SameArticle
  <2>4. InHostOrder(Types, Sections)' = InHostOrder(Types, Sections)
    BY <2>3
  <2> QED BY <1>1, <1>4, <2>1, <2>2, <2>3, <2>4 DEF Search
<1> QED BY <1>3, <1>4

\* A section that is not the last one was searched, or was stepped over.
LEMMA SearchItemKeeps ==
    ASSUME Search, SearchItem, dicts \in Libraries
    PROVE  Search'
<1>1. /\ pc = "items" /\ i < Len(Types) /\ SameQuestion /\ at' = at /\ rest' = rest
      /\ origin_data' = origin_data /\ Busy
  BY DEF SearchItem, SameQuestion, Busy
<1>a. ~InHostOrder(Types, Sections) => Search'
  BY <1>1, NotClaimed DEF SearchItem, SearchText, StepOver
<1> SUFFICES ASSUME InHostOrder(Types, Sections) PROVE Search'
  BY <1>a
<1>2. /\ Written(Types, Sections) /\ Len(Sections) \in Nat /\ DOMAIN Sections = 1 .. Len(Sections)
      /\ GoodWords(SearchWords) /\ SearchWords # <<>>
  BY <1>1, ArticleHere
<1>3. PICK g : Marked(g)
  BY <1>1 DEF Search
<1> DEFINE size == SectionSize(Types[i], origin_data, p)
<1>4. /\ p + size = Len(g[i]) /\ Types[i] = Sections[i].type
      /\ i + 1 \in 1 .. Len(Types) /\ (i + 1) - 1 = i
  BY <1>1, <1>2, <1>3, SectionInBuffer
<1>5. /\ Types # <<>> /\ LaidOut(g, Types, Sections) /\ i \in 1 .. Len(Types)
      /\ FoundIn(origin_data, 0, Raw) /\ WordFind = WordsIn(Sections, i - 1)
      /\ WordFind # DOMAIN SearchWords
  BY <1>3 DEF Marked
<1>6. Types' = Types /\ Sections' = Sections /\ Raw' = Raw
  BY <1>1, SameArticle DEF SameQuestion
<1>7. ASSUME p' = p + size, i' = i + 1, pc' = pc, reslist' = reslist,
             WordFind' = WordsIn(Sections, i), WordFind' # DOMAIN SearchWords
      PROVE  Search'
  <2>1. SearchWords' = SearchWords /\ dicts' = dicts
    BY <1>1 DEF SameQuestion
  <2>2. WordsIn(Sections, i)' = WordsIn(Sections', i')
    BY <2>1 DEF WordsIn, InSection
  <2>3. WordFind' = WordsIn(Sections', i' - 1)
    BY <1>4, <1>6, <1>7
  <2>4. Marked(g)'
    BY <1>1, <1>4, <1>5, <1>6, <1>7, <2>1, <2>3 DEF Marked, WordsIn, InSection
  <2>5. Answered'
    BY <1>1, <1>2, <1>7, OthersKept DEF Busy, Searches
  <2>6. Busy' /\ Searches' /\ pc' = "items" /\ Places' = Places
    BY <1>1, <1>7, SameWords DEF Busy, Searches
  <2> QED BY <1>1, <1>2, <1>5, <1>6, <2>1, <2>4, <2>5, <2>6 DEF Search
<1>8. CASE Types[i] \in SearchedTypes /\ SearchText(size)
  <2> DEFINE found == WordFind \cup { w \in DOMAIN SearchWords :
                                        Finds(origin_data, p, SearchWords[w]) # {} }
  <2>1. found = WordsIn(Sections, i)
    BY <1>1, <1>2, <1>3, <1>8, SectionMarked
  <2>2. \/ AllFound(found) /\ pc' = "next" /\ reslist' = reslist \cup {at}
        \/ /\ ~AllFound(found) /\ WordFind' = found /\ p' = p + size /\ i' = i + 1
           /\ pc' = pc /\ reslist' = reslist
    BY <1>8 DEF SearchText
  <2> HIDE DEF found, size
  <2>3. CASE AllFound(found)
    <3>1. pc' = "next" /\ reslist' = reslist \cup {at} /\ found = DOMAIN SearchWords
      BY <2>2, <2>3 DEF AllFound
    <3>2. HasAllWords(Sections)
      <4>1. i \in 1 .. Len(Sections) /\ \A k \in 1 .. i : k \in 1 .. Len(Sections)
        <5>1. Len(Types) = Len(Sections) /\ Len(Types) \in Nat
          BY <1>2, <1>5, SectionsCounted
        <5> QED BY <1>5, <5>1
      <4>2. \A w \in DOMAIN SearchWords : \E k \in 1 .. i : InSection(Sections[k], w)
        BY <2>1, <3>1 DEF WordsIn
      <4> QED BY <1>2, <4>1, <4>2 DEF HasAllWords, InSection
    <3>3. RightAnswer(Sections, at \in reslist')
      BY <3>1, <3>2 DEF RightAnswer
    <3> QED BY <1>1, <3>1, <3>3, ArticleDone
  <2>4. CASE ~AllFound(found)
    BY <1>7, <2>1, <2>2, <2>4 DEF AllFound
  <2> QED BY <2>3, <2>4
<1>9. CASE Types[i] \notin SearchedTypes /\ StepOver(size)
  <2>1. p' = p + size /\ i' = i + 1 /\ pc' = pc /\ reslist' = reslist /\ WordFind' = WordFind
    BY <1>9 DEF StepOver
  <2>2. i \in Nat \ {0}
    BY <1>5
  <2>3. WordsIn(Sections, i) = WordsIn(Sections, i - 1)
    BY <1>4, <1>9, <2>2, WordsStay
  <2> HIDE DEF size
  <2> QED BY <1>5, <1>7, <2>1, <2>3
<1> QED BY <1>8, <1>9 DEF SearchItem

\* The last section was searched.
LEMMA SearchLastItemKeeps ==
    ASSUME Search, SearchLastItem, dicts \in Libraries
    PROVE  Search'
<1>1. /\ pc = "items" /\ i = Len(Types) /\ SameQuestion /\ at' = at /\ rest' = rest
      /\ origin_data' = origin_data /\ Busy /\ pc' = "next"
  BY DEF SearchLastItem, SameQuestion, Busy
<1>a. ~InHostOrder(Types, Sections) => Search'
  BY <1>1, NotClaimed DEF SearchLastItem
<1> SUFFICES ASSUME InHostOrder(Types, Sections) PROVE Search'
  BY <1>a
<1>2. /\ Written(Types, Sections) /\ Len(Sections) \in Nat /\ DOMAIN Sections = 1 .. Len(Sections)
      /\ GoodWords(SearchWords) /\ SearchWords # <<>>
  BY <1>1, ArticleHere
<1>3. PICK g : Marked(g)
  BY <1>1 DEF Search
<1>4. PICK b \in Beyond : reslist' =
          IF Last(Types) \in SearchedTypes /\ AllFound(LastFound(origin_data \o b))
          THEN reslist \cup {at} ELSE reslist
  BY DEF SearchLastItem
<1>5. /\ Types # <<>> /\ WordFind = WordsIn(Sections, i - 1)
      /\ WordFind # DOMAIN SearchWords /\ i \in 1 .. Len(Types)
  BY <1>3 DEF Marked
<1> DEFINE has == WordsIn(Sections, Len(Sections))
           found == LastFound(origin_data \o b)
<1>6. HasAllWords(Sections) <=> has = DOMAIN SearchWords
  BY <1>2, AllWordsIn
<1>7. at \notin reslist \/ ~Claimed(at.dict, at.article)
  <2>1. SearchWords # <<>> /\ Answered /\ at \in Places
    BY <1>1, <1>2 DEF Search, Searches
  <2>2. /\ at = PlaceOf(at.dict, at.article) /\ at.dict \in DOMAIN dicts
        /\ at.article \in DOMAIN dicts[at.dict].articles
    BY <2>1, PlacesAre DEF Located
  <2>3. Claimed(at.dict, at.article) => AnsweredFor(at.dict, at.article)
    BY <2>1, <2>2 DEF Answered
  <2>4. Open(PlaceOf(at.dict, at.article))
    BY <1>1, <2>2 DEF Open
  <2> QED BY <2>2, <2>3, <2>4 DEF AnsweredFor
<1>8. CASE Last(Types) \in SearchedTypes
  <2>1. has \subseteq found /\ (OneLetterWords => found \subseteq has)
    BY <1>1, <1>2, <1>3, <1>8, LastMarked DEF Search
  <2>2. has \subseteq DOMAIN SearchWords
    BY DEF WordsIn
  <2>3. found \subseteq DOMAIN SearchWords
    BY <1>5 DEF LastFound, WordsIn
  <2>4. reslist' = IF found = DOMAIN SearchWords THEN reslist \cup {at} ELSE reslist
    BY <1>4, <1>8 DEF AllFound
  <2> HIDE DEF has, found
  <2>5. Claimed(at.dict, at.article) => RightAnswer(Sections, at \in reslist')
    BY <1>6, <1>7, <2>1, <2>2, <2>3, <2>4 DEF RightAnswer
  <2>6. reslist' = reslist \/ reslist' = reslist \cup {at}
    BY <2>4
  <2> QED BY <1>1, <2>5, <2>6, ArticleDone
<1>9. CASE Last(Types) \notin SearchedTypes
  <2>1. reslist' = reslist
    BY <1>4, <1>9
  <2>2. has = WordFind
    <3>0. Types[i] = Sections[i].type
      BY <1>2, <1>5, TypesAre
    <3>1. Len(Sections) = i /\ i \in Nat \ {0}
      BY <1>1, <1>2, <1>5, SectionsCounted
    <3>2. Last(Types) = Sections[i].type
      BY <1>1, <3>0, <3>1 DEF Last
    <3>3. WordsIn(Sections, i) = WordsIn(Sections, i - 1)
      BY <1>9, <3>1, <3>2, WordsStay
    <3> QED BY <1>5, <3>1, <3>3
  <2> HIDE DEF has, found
  <2>3. ~HasAllWords(Sections)
    BY <1>5, <1>6, <2>2
  <2>4. Claimed(at.dict, at.article) => RightAnswer(Sections, at \in reslist')
    BY <1>7, <2>1, <2>3 DEF RightAnswer
  <2> QED BY <1>1, <2>1, <2>4, ArticleDone
<1> QED BY <1>8, <1>9

\* A section of an article without a sametypesequence.
LEMMA SearchSectionKeeps ==
    ASSUME Search, SearchSection
    PROVE  Search'
<1>1. /\ pc = "sections" /\ SameQuestion /\ at' = at /\ rest' = rest
      /\ origin_data' = origin_data /\ Busy
  BY DEF SearchSection, SameQuestion, Busy
<1>2. Types = <<>> /\ SearchWords # <<>>
  BY <1>1 DEF Search
<1>3. ~Claimed(at.dict, at.article)
  BY <1>2 DEF Claimed, Searchable, Types
<1>4. \/ pc' = "next" /\ reslist' = reslist \cup {at}
      \/ pc' = pc /\ reslist' = reslist
  BY DEF SearchSection, SearchText, StepOver
<1>5. CASE pc' = "next"
  BY <1>1, <1>3, <1>4, <1>5, ArticleDone
<1>6. CASE pc' = pc /\ reslist' = reslist
  <2>1. Busy' /\ Searches' /\ Places' = Places /\ SearchWords' = SearchWords
    BY <1>1, <1>6, SameWords DEF Busy, Searches, SameQuestion
  <2>2. Answered'
    BY <1>1, <1>2, <1>6, <2>1, OthersKept
  <2>3. Types' = Types
    BY <1>1, SameArticle DEF SameQuestion
  <2> QED BY <1>1, <1>2, <1>6, <2>1, <2>2, <2>3 DEF Search
<1> QED BY <1>4, <1>5, <1>6

\* The end of such an article.
LEMMA SearchSectionsEndKeeps ==
    ASSUME Search, SearchSectionsEnd
    PROVE  Search'
<1>1. /\ pc = "sections" /\ SameQuestion /\ at' = at /\ rest' = rest /\ pc' = "next"
      /\ origin_data' = origin_data /\ reslist' = reslist /\ Busy
  BY DEF SearchSectionsEnd, SameQuestion, Busy
<1>2. Types = <<>>
  BY <1>1 DEF Search
<1>3. ~Claimed(at.dict, at.article)
  BY <1>2 DEF Claimed, Searchable, Types
<1> QED BY <1>1, <1>3, ArticleDone

\* SearchData leaves the buffer only in an article without a sametypesequence, or with a
\* size in another byte order.
LEMMA SearchOutsideKeeps ==
    ASSUME Search, SearchOutside, dicts \in Libraries
    PROVE  Search'
<1>1. /\ SameQuestion /\ at' = at /\ rest' = rest /\ origin_data' = origin_data
      /\ pc' = "search outside" /\ Busy /\ dicts' = dicts /\ SearchWords' = SearchWords
  BY DEF SearchOutside, SameQuestion, Busy
<1>2. /\ rest \subseteq Places /\ origin_data \in Seq(Int) /\ GoodWords(SearchWords)
      /\ SearchWords # <<>>
  BY <1>1 DEF Search
<1>3. Types' = Types /\ Sections' = Sections /\ Places' = Places
  BY <1>1, SameArticle, SameWords
<1>4. ASSUME Types # <<>>, InHostOrder(Types, Sections) PROVE FALSE
  <2>1. Written(Types, Sections)
    BY <1>1, <1>4, ArticleHere
  <2>2. pc = "items"
    BY <1>1, <1>4 DEF Search, Busy
  <2>3. PICK g : Marked(g)
    BY <1>4, <2>2 DEF Search
  <2>4. CASE i < Len(Types)
    <3>0. i # Len(Types)
      <4>1. Len(Types) \in Nat
        BY <1>4, <2>1, SectionsCounted
      <4> QED BY <2>4, <4>1
    <3>1. ~CanRead(Types[i], origin_data, p)
      BY <2>2, <3>0 DEF SearchOutside
    <3>2. /\ FoundIn(origin_data, p, Stored(Sections[i])) /\ GoodSection(Sections[i])
          /\ Types[i] = Sections[i].type
      BY <2>1, <2>3, <2>4, SectionInBuffer
    <3> QED BY <3>1, <3>2, SizeOfField
  <2>5. CASE ~(i < Len(Types))
    <3>1. i = Len(Types) /\ p > Len(origin_data)
      BY <2>2, <2>5 DEF SearchOutside
    <3>2. LaidOut(g, Types, Sections) /\ p = Len(g[i - 1]) /\ FoundIn(origin_data, 0, Raw)
      BY <2>3 DEF Marked
    <3>3. /\ Len(Raw) = p + Len(Last(Sections).body) /\ Len(Last(Sections).body) \in Nat
          /\ p \in Nat
      BY <1>4, <2>1, <3>1, <3>2, LaidOutFacts DEF Raw
    <3>4. Len(Raw) <= Len(origin_data) /\ Len(origin_data) \in Nat
      BY <3>2 DEF FoundIn
    <3> QED BY <3>1, <3>3, <3>4
  <2> QED BY <2>4, <2>5
<1>5. InHostOrder(Types, Sections)' = InHostOrder(Types, Sections)
  BY <1>3
<1>6. ~Busy' /\ ~Searches' /\ pc' \notin {"searched", "sections", "items"}
  BY <1>1 DEF Busy, Searches
<1> QED BY <1>1, <1>2, <1>3, <1>4, <1>5, <1>6 DEF Search

\* What remains of a sequence behind some place.
LEMMA Remains ==
    ASSUME NEW s \in Seq(Int), NEW n \in Nat
    PROVE  SubSeq(s, n + 1, Len(s)) \in Seq(Int)
<1>1. CASE n >= Len(s)
  <2>1. SubSeq(s, n + 1, Len(s)) = <<>>
    BY <1>1
  <2> QED BY <2>1
<1>2. CASE n < Len(s)
  BY <1>2
<1> QED BY <1>1, <1>2

\* The next article is read into the buffer.
LEMMA NextArticleKeeps ==
    ASSUME Search, NextArticle, dicts \in Libraries
    PROVE  Search'
<1>1. /\ pc = "next" /\ at' \in rest /\ rest' = rest \ {at'} /\ SameQuestion
      /\ reslist' = reslist /\ p' = 0 /\ i' = 1 /\ WordFind' = {}
  BY DEF NextArticle, SameQuestion
<1>2. /\ rest \subseteq Places /\ origin_data \in Seq(Int) /\ GoodWords(SearchWords)
      /\ SearchWords # <<>> /\ Answered
  BY <1>1 DEF Search, Searches
<1>3. dicts' = dicts /\ SearchWords' = SearchWords /\ Places' = Places
  BY <1>1, SameWords DEF SameQuestion
<1> DEFINE types == dicts[at'.dict].types
           sections == dicts[at'.dict].articles[at'.article]
           raw == InFile(types, sections)
           old == SubSeq(origin_data, Len(raw) + 1, Len(origin_data))
<1>4. at' \in Places
  BY <1>1, <1>2
<1>5. Located(dicts, at')
  BY <1>4, PlacesAre
<1>6. Types' = types /\ Sections' = sections /\ Raw' = raw
  BY <1>3 DEF Types, Sections, Raw
<1>7. Legal(types, sections)
  BY <1>5, ArticlesAreLegal DEF Located
<1>8. origin_data' = raw \o old /\ pc' = IF types = <<>> THEN "sections" ELSE "items"
  BY DEF NextArticle
<1>9. Cells(raw) /\ raw \in Seq(Int) /\ Len(raw) \in Nat
  BY <1>7, RawCells DEF Cells
<1>10. old \in Seq(Int)
  BY <1>2, <1>9, Remains
<1> HIDE DEF types, sections, raw, old
<1>11. origin_data' \in Seq(Int) /\ FoundIn(origin_data', 0, raw)
  BY <1>8, <1>9, <1>10, FoundBehind
<1>12. Busy' /\ Searches' /\ ~Busy
  BY <1>1, <1>8 DEF Busy, Searches
<1>13. Answered'
  <2>1. /\ \A d, a : Claimed(d, a)' = Claimed(d, a)
        /\ \A d, a : HasAllWords(dicts[d].articles[a])' = HasAllWords(dicts[d].articles[a])
        /\ OneLetterWords' = OneLetterWords
    BY <1>1, SameWords
  <2>2. ASSUME NEW d \in DOMAIN dicts, NEW a \in DOMAIN dicts[d].articles, Claimed(d, a)
        PROVE  AnsweredFor(d, a)'
    <3> DEFINE place == PlaceOf(d, a)
    <3>1. AnsweredFor(d, a)
      BY <1>2, <2>2 DEF Answered
    <3>2. AnsweredFor(d, a)' <=>
              IF place \in rest' \/ at' = place THEN place \notin reslist
              ELSE /\ HasAllWords(dicts[d].articles[a]) => place \in reslist
                   /\ OneLetterWords /\ place \in reslist => HasAllWords(dicts[d].articles[a])
      BY <1>1, <1>3, <1>12, <2>1 DEF AnsweredFor, Open, RightAnswer, PlaceOf
    <3>3. AnsweredFor(d, a) <=>
              IF place \in rest THEN place \notin reslist
              ELSE /\ HasAllWords(dicts[d].articles[a]) => place \in reslist
                   /\ OneLetterWords /\ place \in reslist => HasAllWords(dicts[d].articles[a])
      BY <1>12 DEF AnsweredFor, Open, RightAnswer
    <3>4. place \in rest <=> place \in rest' \/ at' = place
      BY <1>1
    <3> HIDE DEF place
    <3> QED BY <3>1, <3>2, <3>3, <3>4
  <2> QED BY <1>3, <2>1, <2>2 DEF Answered
<1>14. pc' = "sections" => Types' = <<>>
  BY <1>6, <1>8
<1>a. pc' = "items" => Types' # <<>>
  BY <1>6, <1>8
<1>15. ASSUME pc' = "items", InHostOrder(types, sections) PROVE \E g : Marked(g)'
  <2>1. types # <<>> /\ Written(types, sections)
    BY <1>7, <1>8, <1>15 DEF Written
  <2>2. PICK g : LaidOut(g, types, sections)
    BY <2>1, RawLaidOut
  <2>3. 1 \in 1 .. Len(types) /\ 1 - 1 = 0
    BY <2>1, SectionsCounted
  <2>4. g[0] = <<>> /\ Len(g[0]) = 0
    BY <2>2 DEF LaidOut, Together
  <2>5. WordsIn(Sections, i - 1)' = {}
    BY <1>1 DEF WordsIn
  <2>6. DOMAIN SearchWords # {}
    <3>1. SearchWords \in Seq(Seq(Int))
      BY <1>2 DEF GoodWords
    <3>2. Len(SearchWords) \in Nat \ {0} /\ DOMAIN SearchWords = 1 .. Len(SearchWords)
      BY <1>2, <3>1, EmptySeq, LenProperties
    <3>3. 1 \in DOMAIN SearchWords
      BY <3>2
    <3> QED BY <3>3
  <2>7. Marked(g)'
    BY <1>1, <1>3, <1>6, <1>11, <2>1, <2>2, <2>3, <2>4, <2>5, <2>6 DEF Marked
  <2> QED BY <2>7
<1>16. InHostOrder(Types, Sections)' = InHostOrder(types, sections)
  BY <1>6
<1>17. pc' \in {"items", "sections"}
  BY <1>8
<1> QED BY <1>1, <1>2, <1>3, <1>4, <1>11, <1>13, <1>14, <1>a, <1>15, <1>16, <1>17 DEF Search

\* The search is done.
LEMMA LookupDataReturnKeeps ==
    ASSUME Search, LookupDataReturn
    PROVE  Search'
<1>1. /\ pc = "next" /\ rest = {} /\ pc' = "searched" /\ SameQuestion /\ rest' = rest
      /\ reslist' = reslist /\ origin_data' = <<>>
  BY DEF LookupDataReturn, SameQuestion
<1>2. dicts' = dicts /\ SearchWords' = SearchWords /\ GoodWords(SearchWords)
  BY <1>1 DEF SameQuestion, Search
<1>3. ~Busy' /\ ~Busy
  BY <1>1 DEF Busy
<1>4. Answered' = Answered
  <2>1. /\ \A d, a : Claimed(d, a)' = Claimed(d, a)
        /\ \A d, a : HasAllWords(dicts[d].articles[a])' = HasAllWords(dicts[d].articles[a])
        /\ OneLetterWords' = OneLetterWords
    BY <1>1, SameWords
  <2>2. \A d, a : AnsweredFor(d, a)' = AnsweredFor(d, a)
    BY <1>1, <1>2, <1>3, <2>1 DEF AnsweredFor, Open, RightAnswer, PlaceOf
  <2> QED BY <1>2, <2>1, <2>2 DEF Answered
<1>5. SearchWords # <<>> => Answered
  BY <1>1 DEF Search, Searches
<1> QED BY <1>1, <1>2, <1>3, <1>4, <1>5 DEF Search

\* A search begins.
LEMMA LookupDataBegins ==
    ASSUME NEW phrase \in Phrases, LookupData(phrase)
    PROVE  Search'
<1>1. /\ SearchWords' = Words(phrase) /\ pc' = "next" /\ dicts' = dicts
      /\ rest' = (IF SearchWords' = <<>> THEN {} ELSE Places)
      /\ origin_data' = <<>> /\ reslist' = {}
  BY DEF LookupData
<1>2. GoodWords(SearchWords)'
  BY <1>1, WordsAreGood DEF GoodWords
<1>3. Places' = Places /\ \A d : Searchable(d)' = Searchable(d)
  BY <1>1 DEF Places, Searchable, ContainSearchData
<1>a. \A d, a : Claimed(d, a)' => Searchable(d)
  BY <1>3 DEF Claimed
<1>4. ASSUME SearchWords' # <<>> PROVE Answered'
  <2>1. \A d \in DOMAIN dicts : Searchable(d) =>
            \A a \in DOMAIN dicts[d].articles : PlaceOf(d, a) \in rest' /\ PlaceOf(d, a) \notin reslist'
    BY <1>1, <1>4, PlacesAll
  <2>2. \A d, a : PlaceOf(d, a) \in rest' /\ PlaceOf(d, a) \notin reslist' => AnsweredFor(d, a)'
    BY DEF AnsweredFor, Open, PlaceOf
  <2> QED BY <1>1, <1>a, <2>1, <2>2 DEF Answered
<1>5. ~Busy'
  BY <1>1 DEF Busy
<1>6. <<>> \in Seq(Int)
  OBVIOUS
<1> QED BY <1>1, <1>2, <1>3, <1>4, <1>5, <1>6 DEF Search

\* No words are words, too.
LEMMA NoWords == GoodWords(<<>>) /\ <<>> \in Seq(Int)
<1>1. <<>> \in Seq(Seq(Int)) /\ Len(<<>>) = 0 /\ <<>> \in Seq(Int)
  OBVIOUS
<1> QED BY <1>1 DEF GoodWords

\* Nothing is searched for.
LEMMA NoSearch ==
    ASSUME SearchWords = <<>>, rest = {}, origin_data = <<>>, ~Searches, pc # "search outside"
    PROVE  Search
<1>1. GoodWords(SearchWords) /\ origin_data \in Seq(Int)
  BY NoWords
<1>2. ~Busy /\ pc \notin {"searched", "items", "sections", "search outside"}
  BY DEF Searches, Busy
<1> QED BY <1>1, <1>2 DEF Search

\* GetWordData and parse_data leave the search alone.
LEMMA OtherStepsKeep ==
    ASSUME Search,
           \/ \E d \in DOMAIN dicts : \E a \in DOMAIN dicts[d].articles : GetWordData(d, a)
           \/ CopyItem \/ CopyOutside \/ CopyLastItem
           \/ ParseSection \/ ParseOutside \/ ParseReturn
    PROVE  Search'
<1>1. CASE \E d \in DOMAIN dicts : \E a \in DOMAIN dicts[d].articles : GetWordData(d, a)
  <2>1. /\ SearchWords' = <<>> /\ rest' = {} /\ origin_data' = <<>> /\ pc' \in {"parse", "copy"}
    BY <1>1 DEF GetWordData, ResetSearch
  <2>2. ~Searches'
    BY <2>1 DEF Searches, Busy
  <2>3. GoodWords(SearchWords')
    <3>1. <<>> \in Seq(Seq(Int)) /\ Len(<<>>) = 0
      OBVIOUS
    <3> QED BY <2>1, <3>1 DEF GoodWords
  <2>4. ~Busy' /\ pc' \notin {"searched", "items", "sections", "search outside"}
    BY <2>1 DEF Busy
  <2>5. <<>> \in Seq(Int)
    OBVIOUS
  <2> QED BY <2>1, <2>2, <2>3, <2>4, <2>5 DEF Search, GoodWords
<1>2. CASE \/ CopyItem \/ CopyOutside \/ CopyLastItem
           \/ ParseSection \/ ParseOutside \/ ParseReturn
  <2>1. /\ SameQuestion /\ rest' = rest /\ origin_data' = origin_data /\ reslist' = reslist
        /\ pc \in {"copy", "parse"}
        /\ pc' \in {"copy", "copy outside", "parse", "parse outside", "parsed"}
    BY <1>2 DEF CopyItem, CopyOutside, CopyLastItem, ParseSection, ParseOutside, ParseReturn,
                SameQuestion
  <2>2. ~Busy /\ ~Busy' /\ ~Searches'
    BY <2>1 DEF Busy, Searches
  <2>3. Places' = Places /\ SearchWords' = SearchWords
    BY <2>1, SameWords DEF SameQuestion
  <2> QED BY <2>1, <2>2, <2>3 DEF Search
<1> QED BY <1>1, <1>2

\* Every step keeps the invariant of the search.
LEMMA SearchNext == Filling /\ Search /\ [Next]_vars => Search'
<1> SUFFICES ASSUME Filling, Search, [Next]_vars PROVE Search'
  OBVIOUS
<1>1. dicts \in Libraries
  BY DEF Filling
<1>2. ASSUME NEW phrase \in Phrases, LookupData(phrase) PROVE Search'
  BY <1>2, LookupDataBegins
<1>3. CASE UNCHANGED vars \/ Outside
  <2>1. /\ SameQuestion /\ rest' = rest /\ origin_data' = origin_data /\ reslist' = reslist
        /\ pc' = pc /\ at' = at /\ p' = p /\ i' = i /\ WordFind' = WordFind
        /\ dicts' = dicts /\ SearchWords' = SearchWords
    BY <1>3 DEF Outside, vars, SameQuestion
  <2>2. /\ Places' = Places /\ \A d, a : Claimed(d, a)' = Claimed(d, a)
        /\ \A d, a : HasAllWords(dicts[d].articles[a])' = HasAllWords(dicts[d].articles[a])
        /\ OneLetterWords' = OneLetterWords
    BY <2>1, SameWords
  <2>3. Types' = Types /\ Sections' = Sections /\ Raw' = Raw
    BY <2>1, SameArticle
  <2>4. Busy' = Busy /\ Searches' = Searches
    BY <2>1 DEF Busy, Searches
  <2>5. \A d, a : AnsweredFor(d, a)' = AnsweredFor(d, a)
    BY <2>1, <2>2, <2>4 DEF AnsweredFor, Open, RightAnswer, PlaceOf
  <2>6. Answered' = Answered
    BY <2>1, <2>2, <2>5 DEF Answered
  <2>7. WordsIn(Sections, i - 1)' = WordsIn(Sections, i - 1)
    BY <2>1, <2>3 DEF WordsIn, InSection
  <2>8. \A g : Marked(g)' = Marked(g)
    BY <2>1, <2>3, <2>7 DEF Marked
  <2>9. InHostOrder(Types, Sections)' = InHostOrder(Types, Sections)
    BY <2>3
  <2> QED BY <2>1, <2>2, <2>3, <2>4, <2>6, <2>8, <2>9 DEF Search
<1>4. CASE Step
  BY <1>1, <1>3, <1>4, OtherStepsKeep, SearchOutsideKeeps, NextArticleKeeps, LookupDataReturnKeeps, SearchItemKeeps,
     SearchLastItemKeeps, SearchSectionKeeps, SearchSectionsEndKeeps DEF Step
<1> QED BY <1>2, <1>3, <1>4, OtherStepsKeep DEF Next

\* It says that the search is right when it is done.
LEMMA SearchMeans == Search => FullTextSearch
<1> SUFFICES ASSUME Search PROVE FullTextSearch
  OBVIOUS
<1>1. ASSUME pc = "searched", SearchWords # <<>>,
             NEW d \in DOMAIN dicts, NEW a \in DOMAIN dicts[d].articles, Claimed(d, a)
      PROVE  RightAnswer(dicts[d].articles[a], PlaceOf(d, a) \in reslist)
  <2>1. AnsweredFor(d, a) /\ rest = {} /\ ~Busy
    BY <1>1 DEF Search, Searches, Answered, Busy
  <2> QED BY <2>1 DEF AnsweredFor, Open
<1>2. pc = "search outside" /\ Types # <<>> => ~InHostOrder(Types, Sections)
  BY DEF Search
<1> QED BY <1>1, <1>2 DEF FullTextSearch, RightAnswer, OneLetterWords, PlaceOf, Claimed

\* The full-text search finds every article that has all words, and, for words of one
\* letter, no other: for every library and phrase, and whatever memory holds behind
\* the buffer of SearchData, of the articles of dictionaries with a sametypesequence whose
\* sizes are in the byte order of the host; and in those it stays in its buffer.
THEOREM SearchIsRight == Spec => []FullTextSearch
<1>1. Init => Search
  <2>1. Init => /\ SearchWords = <<>> /\ rest = {} /\ origin_data = <<>> /\ ~Searches
                /\ pc # "search outside"
    BY DEF Init, Searches, Busy
  <2> QED BY <2>1, NoSearch
<1> QED BY <1>1, ArticleInvariance, SearchNext, SearchMeans, PTL DEF Spec
-----------------------------------------------------------------------------
(* The lines of format.conf.                                                *)

\* What is known of a line that is read.
LineState == [from : Seq(Int), op : Operators \cup {NoOperator}, to : Seq(Int), escape : BOOLEAN]
LineBegin == [from |-> <<>>, op |-> NoOperator, to |-> <<>>, escape |-> FALSE]

\* A character is added to the side of the rule that is being read.
LEMMA AddKeeps ==
    ASSUME NEW s \in LineState, NEW c \in Int
    PROVE  Add(s, c) \in LineState
<1>1. /\ s.from \in Seq(Int) /\ s.to \in Seq(Int) /\ s.op \in Operators \cup {NoOperator}
      /\ Append(s.from, c) \in Seq(Int) /\ Append(s.to, c) \in Seq(Int)
  BY DEF LineState
<1>2. CASE s.op = NoOperator
  <2>1. Add(s, c) = [s EXCEPT !.from = Append(@, c), !.escape = FALSE]
    BY <1>2 DEF Add
  <2> QED BY <1>1, <2>1 DEF LineState
<1>3. CASE s.op # NoOperator
  <2>1. Add(s, c) = [s EXCEPT !.to = Append(@, c), !.escape = FALSE]
    BY <1>3 DEF Add
  <2> QED BY <1>1, <2>1 DEF LineState
<1> QED BY <1>2, <1>3

\* A character of a line is read.
LEMMA ConfCharTaken ==
    ASSUME NEW s \in LineState, NEW c \in Int
    PROVE  TakeConfChar(s, c) \in LineState
<1>1. s.escape \in BOOLEAN /\ Named(c) \in Int
  BY DEF LineState, Named
<1>2. CASE s.escape
  <2>1. TakeConfChar(s, c) = Add(s, Named(c))
    BY <1>2 DEF TakeConfChar
  <2> QED BY <1>1, <2>1, AddKeeps
<1>3. CASE ~s.escape /\ c = Backslash
  <2>1. TakeConfChar(s, c) = [s EXCEPT !.escape = TRUE]
    BY <1>3 DEF TakeConfChar, Backslash, Operators
  <2> QED BY <2>1 DEF LineState
<1>4. CASE ~s.escape /\ c # Backslash /\ c \in Operators /\ s.op = NoOperator
  <2>1. TakeConfChar(s, c) = [s EXCEPT !.op = c]
    BY <1>4 DEF TakeConfChar
  <2> QED BY <1>4, <2>1 DEF LineState
<1>5. CASE ~s.escape /\ c # Backslash /\ ~(c \in Operators /\ s.op = NoOperator)
  <2>1. TakeConfChar(s, c) = Add(s, c)
    BY <1>5 DEF TakeConfChar
  <2> QED BY <2>1, AddKeeps
<1> QED BY <1>2, <1>3, <1>4, <1>5

\* So a line is a rule.
LEMMA RuleIs ==
    ASSUME NEW line \in Seq(Int)
    PROVE  Rule(line) \in LineState
<1> DEFINE n == Len(line)
           F == [x \in LineState \X (1 .. n) |-> TakeConfChar(x[1], line[x[2]])]
           Next1(r, k) == IF k = 0 THEN LineBegin ELSE TakeConfChar(r[k - 1], line[k])
           Is(r) == r = [k \in 0 .. n |-> Next1(r, k)]
           f == CHOOSE r : Is(r)
<1>1. TakenLine(line) = f
  BY DEF TakenLine, LineBegin
<1>2. n \in Nat /\ \A k \in 1 .. n : line[k] \in Int
  BY ElementOfSeq
<1>3. LineBegin \in LineState
  <2>1. <<>> \in Seq(Int)
    OBVIOUS
  <2> QED BY <2>1 DEF LineBegin, LineState
<1>4. F \in [LineState \X (1 .. n) -> LineState]
  BY <1>2, ConfCharTaken
<1>5. \A v \in LineState, k \in 1 .. n : F[<<v, k>>] = TakeConfChar(v, line[k])
  OBVIOUS
<1> HIDE DEF n, F
<1>6. PICK r \in [0 .. n -> LineState] : Steps(r, n, LineBegin, F)
  BY <1>2, <1>3, <1>4, StepsExist
<1>7. Is(r)
  <2>1. \A k \in 0 .. n : k # 0 => k \in 1 .. n /\ k - 1 \in 0 .. n
    BY <1>2
  <2>2. \A k \in 0 .. n : r[k] = Next1(r, k)
    BY <1>5, <1>6, <2>1 DEF Steps
  <2>3. r = [k \in 0 .. n |-> r[k]]
    OBVIOUS
  <2> HIDE DEF Next1
  <2> QED BY <2>2, <2>3
<1>8. Is(f)
  <2> HIDE DEF Is
  <2> QED BY <1>7
<1>9. \A k \in 0 .. n : f[k] = Next1(f, k)
  <2> HIDE DEF f, Next1
  <2> QED BY <1>8
<1>10. f[0] = LineBegin /\ \A k \in 1 .. n : f[k] = TakeConfChar(f[k - 1], line[k])
  <2>1. 0 \in 0 .. n /\ \A k \in 1 .. n : k \in 0 .. n /\ k # 0
    BY <1>2
  <2> HIDE DEF f
  <2> QED BY <1>9, <2>1
<1> HIDE DEF f, Next1, Is
<1> DEFINE S == { k \in Nat : k <= n => f[k] \in LineState }
<1>11. 0 \in S
  BY <1>3, <1>10
<1>12. ASSUME NEW k \in 0 .. n - 1, k \in S PROVE k + 1 \in S
  <2>1. k <= n /\ k + 1 \in 1 .. n /\ (k + 1) - 1 = k /\ k + 1 \in Nat
    BY <1>2
  <2>2. f[k + 1] = TakeConfChar(f[k], line[k + 1]) /\ f[k] \in LineState
    BY <1>10, <1>12, <2>1
  <2>3. f[k + 1] \in LineState
    BY <1>2, <2>1, <2>2, ConfCharTaken
  <2> QED BY <2>1, <2>3
<1> HIDE DEF S
<1>13. n \in S
  BY <1>2, <1>11, <1>12, UpTo
<1>14. f[n] \in LineState
  BY <1>2, <1>13 DEF S
<1> QED BY <1>1, <1>14 DEF Rule, n

\* What the lines that were read have set: the rules of every type.
ConfState == [type : 1 .. 255, rules : [1 .. 255 -> Seq(LineState)]]
ConfBegin == [type |-> 109, rules |-> [type \in 1 .. 255 |-> <<>>]]

\* A line that is a rule, whatever its type.
IsRule(k) == Conf[k][1] \notin {Hash, Colon} /\ Rule(Conf[k]).op # NoOperator

\* What a line does: it names a type, or its rule is put behind those of the type.
Effect(s, k, t) ==
    /\ t \in ConfState
    /\ t.type = IF Conf[k][1] = Colon THEN Conf[k][2] ELSE s.type
    /\ \A type \in 1 .. 255 :
         t.rules[type] = IF IsRule(k) /\ type = s.type THEN Append(s.rules[type], Rule(Conf[k]))
                         ELSE s.rules[type]

\* A line of format.conf.
LEMMA LineOf ==
    ASSUME NEW k \in 1 .. Len(Conf)
    PROVE  /\ Conf[k] \in Seq(Int) /\ Rule(Conf[k]) \in LineState
           /\ Conf[k][1] = Colon => Conf[k][2] \in 1 .. 255
<1> DEFINE V == Seq(Int)
<1>1. Conf \in Seq(V)
  BY ConfLoads
<1>2. DOMAIN Conf = 1 .. Len(Conf)
  BY <1>1
<1> HIDE DEF V
<1>3. Conf[k] \in V
  BY <1>1, ElementOfSeq
<1> QED BY <1>2, <1>3, RuleIs, ConfLoads DEF V

\* Taking one has that effect.
LEMMA LineTaken ==
    ASSUME NEW s \in ConfState, NEW k \in 1 .. Len(Conf)
    PROVE  Effect(s, k, TakeLine(s, Conf[k]))
<1> DEFINE t == TakeLine(s, Conf[k])
           r == Rule(Conf[k])
<1>1. r \in LineState /\ (Conf[k][1] = Colon => Conf[k][2] \in 1 .. 255)
  BY LineOf
<1>2. s.type \in 1 .. 255 /\ s.rules \in [1 .. 255 -> Seq(LineState)]
  BY DEF ConfState
<1>3. CASE Conf[k][1] = Hash
  <2>1. t = s /\ Conf[k][1] # Colon /\ ~IsRule(k)
    BY <1>3 DEF TakeLine, Hash, Colon, IsRule
  <2> HIDE DEF t
  <2> QED BY <2>1 DEF Effect, t
<1>4. CASE Conf[k][1] = Colon
  <2>1. t = [s EXCEPT !.type = Conf[k][2]] /\ ~IsRule(k)
    BY <1>4 DEF TakeLine, Hash, Colon, IsRule
  <2> HIDE DEF t
  <2>2. t \in ConfState /\ t.type = Conf[k][2] /\ t.rules = s.rules
    BY <1>1, <1>4, <2>1 DEF ConfState
  <2> QED BY <1>4, <2>1, <2>2 DEF Effect, t
<1>5. CASE Conf[k][1] \notin {Hash, Colon}
  <2> DEFINE more == AddRule(s.rules[s.type], r)
  <2>1. t = [s EXCEPT !.rules[s.type] = more]
    BY <1>5 DEF TakeLine
  <2>2. s.rules[s.type] \in Seq(LineState)
    BY <1>2
  <2>3. more = IF IsRule(k) THEN Append(s.rules[s.type], r) ELSE s.rules[s.type]
    BY <1>5 DEF AddRule, IsRule
  <2>4. more \in Seq(LineState)
    BY <1>1, <2>2, <2>3
  <2> HIDE DEF t, more, r
  <2>5. /\ t \in ConfState /\ t.type = s.type
        /\ \A type \in 1 .. 255 : t.rules[type] = IF type = s.type THEN more ELSE s.rules[type]
    BY <1>2, <2>1, <2>4 DEF ConfState
  <2>6. Effect(s, k, t)
    BY <1>5, <2>3, <2>5 DEF Effect, r
  <2> QED BY <2>6 DEF t
<1> QED BY <1>3, <1>4, <1>5

\* The lines are taken one after the other.
LEMMA LinesTaken ==
    /\ Len(Conf) \in Nat /\ Loaded[0] = ConfBegin
    /\ \A k \in 1 .. Len(Conf) : /\ Loaded[k - 1] \in ConfState
                                 /\ Effect(Loaded[k - 1], k, Loaded[k])
<1> DEFINE n == Len(Conf)
           F == [x \in ConfState \X (1 .. n) |-> TakeLine(x[1], Conf[x[2]])]
           Next1(r, k) == IF k = 0 THEN ConfBegin ELSE TakeLine(r[k - 1], Conf[k])
           Is(r) == r = [k \in 0 .. n |-> Next1(r, k)]
           f == CHOOSE r : Is(r)
<1>1. Loaded = f
  BY DEF Loaded, ConfBegin
<1>2. n \in Nat
  BY ConfLoads
<1>3. ConfBegin \in ConfState
  <2>1. <<>> \in Seq(LineState) /\ 109 \in 1 .. 255
    OBVIOUS
  <2>2. [type \in 1 .. 255 |-> <<>>] \in [1 .. 255 -> Seq(LineState)]
    BY <2>1
  <2> QED BY <2>1, <2>2 DEF ConfBegin, ConfState
<1>a. \A v \in ConfState, k \in 1 .. n : Effect(v, k, TakeLine(v, Conf[k]))
  BY LineTaken
<1>4. F \in [ConfState \X (1 .. n) -> ConfState]
  BY <1>a DEF Effect
<1>5. \A v \in ConfState, k \in 1 .. n : F[<<v, k>>] = TakeLine(v, Conf[k])
  OBVIOUS
<1> HIDE DEF F
<1>6. PICK r \in [0 .. n -> ConfState] : Steps(r, n, ConfBegin, F)
  <2> HIDE DEF n
  <2> QED BY <1>2, <1>3, <1>4, StepsExist
<1>7. Is(r)
  <2>1. \A k \in 0 .. n : k # 0 => k \in 1 .. n /\ k - 1 \in 0 .. n
    BY <1>2
  <2>2. \A k \in 0 .. n : r[k] = Next1(r, k)
    BY <1>5, <1>6, <2>1 DEF Steps
  <2>3. r = [k \in 0 .. n |-> r[k]]
    OBVIOUS
  <2> HIDE DEF Next1, n
  <2> QED BY <2>2, <2>3
<1>8. Is(f)
  <2> HIDE DEF Is
  <2> QED BY <1>7
<1>9. \A k \in 0 .. n : f[k] = Next1(f, k)
  <2> HIDE DEF f, Next1
  <2> QED BY <1>8
<1>10. f[0] = ConfBegin /\ \A k \in 1 .. n : f[k] = TakeLine(f[k - 1], Conf[k])
  <2>1. 0 \in 0 .. n /\ \A k \in 1 .. n : k \in 0 .. n /\ k # 0
    BY <1>2
  <2> HIDE DEF f, n
  <2> QED BY <1>9, <2>1
<1> HIDE DEF f, Next1, Is, n
<1>11. Steps(f, n, ConfBegin, F)
  <2> DEFINE S == { k \in Nat : k <= n => /\ f[k] \in ConfState
                                          /\ \A j \in 1 .. k : f[j] = F[<<f[j - 1], j>>] }
  <2>1. 0 \in S
    BY <1>3, <1>10
  <2>2. ASSUME NEW k \in 0 .. n - 1, k \in S PROVE k + 1 \in S
    <3>1. k <= n /\ k + 1 \in 1 .. n /\ (k + 1) - 1 = k /\ k + 1 \in Nat
          /\ \A j \in 1 .. k + 1 : j = k + 1 \/ j \in 1 .. k
      BY <1>2
    <3>2. f[k + 1] = TakeLine(f[k], Conf[k + 1]) /\ f[k] \in ConfState
      BY <1>10, <2>2, <3>1
    <3>3. f[k + 1] = F[<<f[k], k + 1>>]
      BY <1>5, <3>1, <3>2
    <3>4. f[k + 1] \in ConfState
      BY <1>4, <3>1, <3>2, <3>3
    <3> QED BY <2>2, <3>1, <3>3, <3>4
  <2> HIDE DEF S
  <2>3. n \in S
    BY <1>2, <2>1, <2>2, UpTo
  <2>4. \A j \in 1 .. n : f[j] = F[<<f[j - 1], j>>]
    BY <1>2, <2>3 DEF S
  <2> QED BY <1>10, <2>4 DEF Steps
<1>12. ASSUME NEW k \in 1 .. n
       PROVE  f[k - 1] \in ConfState /\ Effect(f[k - 1], k, f[k])
  <2>1. k - 1 \in 0 .. n
    BY <1>2
  <2>2. f[k - 1] \in ConfState
    BY <1>2, <1>3, <1>4, <1>11, <2>1, StepsStay
  <2> QED BY <1>10, <1>a, <2>2
<1> QED BY <1>1, <1>2, <1>10, <1>12 DEF n

\* The type at a line is the one it names, or that of the line before.
LEMMA TypeAtIs ==
    /\ TypeAt(0) = 109
    /\ \A k \in 1 .. Len(Conf) :
         TypeAt(k) = IF Conf[k][1] = Colon THEN Conf[k][2] ELSE TypeAt(k - 1)
<1> DEFINE Named1(k) == { j \in 1 .. k : Conf[j][1] = Colon }
           Last1(k) == CHOOSE j \in Named1(k) : \A n \in Named1(k) : n <= j
<1>1. \A k : TypeAt(k) = IF Named1(k) = {} THEN 109 ELSE Conf[Last1(k)][2]
  BY DEF TypeAt
<1>2. Named1(0) = {}
  OBVIOUS
<1>3. ASSUME NEW k \in 1 .. Len(Conf)
      PROVE  TypeAt(k) = IF Conf[k][1] = Colon THEN Conf[k][2] ELSE TypeAt(k - 1)
  <2>0. Len(Conf) \in Nat /\ k \in Nat
    BY LinesTaken
  <2>1. CASE Conf[k][1] = Colon
    <3>1. k \in Named1(k) /\ \A n \in Named1(k) : n \in Int /\ n <= k
      BY <2>0, <2>1
    <3> HIDE DEF Named1
    <3>2. \A j \in Named1(k) : (\A n \in Named1(k) : n <= j) => j = k
      BY <2>0, <3>1
    <3>3. Last1(k) = k
      BY <3>1, <3>2
    <3> QED BY <1>1, <2>1, <3>1, <3>3
  <2>2. CASE Conf[k][1] # Colon
    <3>1. \A j \in 1 .. k : j = k \/ j \in 1 .. k - 1
      BY <2>0
    <3>2. \A j \in 1 .. k - 1 : j \in 1 .. k
      BY <2>0
    <3>3. Named1(k) = Named1(k - 1)
      BY <2>2, <3>1, <3>2
    <3> HIDE DEF Named1
    <3>4. Last1(k) = Last1(k - 1)
      BY <3>3
    <3> HIDE DEF Last1
    <3> QED BY <1>1, <2>2, <3>3, <3>4
  <2> QED BY <2>1, <2>2
<1> QED BY <1>1, <1>2, <1>3

\* R is the rules of a type in the first k lines: rule i is in line L[i].
RuleOf(m, type) == IsRule(m) /\ TypeAt(m) = type
Collected(L, R, type, k) ==
    /\ R \in Seq(LineState) /\ L \in [1 .. Len(R) -> 1 .. k]
    /\ \A i1 \in 1 .. Len(R) : RuleOf(L[i1], type) /\ R[i1] = Rule(Conf[L[i1]])
    /\ \A i1, j1 \in 1 .. Len(R) : i1 < j1 => L[i1] < L[j1]
    /\ \A m \in 1 .. k : RuleOf(m, type) => \E i1 \in 1 .. Len(R) : L[i1] = m

\* One more line that is one of them, and one that is not.
LEMMA OneMoreRule ==
    ASSUME NEW k \in Nat, NEW type, NEW R, NEW L, Collected(L, R, type, k),
           RuleOf(k + 1, type), Rule(Conf[k + 1]) \in LineState
    PROVE  \E M : Collected(M, Append(R, Rule(Conf[k + 1])), type, k + 1)
<1> DEFINE n == Len(R)
           r == Rule(Conf[k + 1])
           Q == Append(R, r)
           M == [x \in 1 .. n + 1 |-> IF x = n + 1 THEN k + 1 ELSE L[x]]
<1>1. R \in Seq(LineState) /\ n \in Nat /\ L \in [1 .. n -> 1 .. k] /\ r \in LineState
  BY DEF Collected
<1>2. Q \in Seq(LineState) /\ Len(Q) = n + 1 /\ Q[n + 1] = r /\ \A x \in 1 .. n : Q[x] = R[x]
  BY <1>1
<1>3. /\ n + 1 \in 1 .. n + 1 /\ \A x \in 1 .. n : x \in 1 .. n + 1 /\ x # n + 1
      /\ \A x \in 1 .. n + 1 : x = n + 1 \/ x \in 1 .. n
      /\ \A x \in 1 .. k : x \in 1 .. k + 1 /\ x < k + 1
      /\ \A x \in 1 .. k + 1 : x = k + 1 \/ x \in 1 .. k
      /\ k + 1 \in 1 .. k + 1
      /\ \A x, y \in 1 .. n + 1 : x < y => x \in 1 .. n
  BY <1>1
<1>4. M[n + 1] = k + 1 /\ \A x \in 1 .. n : M[x] = L[x]
  BY <1>3
<1>5. M \in [1 .. n + 1 -> 1 .. k + 1]
  BY <1>1, <1>3
<1> HIDE DEF M, Q, r
<1>6. \A x \in 1 .. n + 1 : RuleOf(M[x], type) /\ Q[x] = Rule(Conf[M[x]])
  BY <1>2, <1>3, <1>4 DEF Collected, r
<1>7. \A x, y \in 1 .. n + 1 : x < y => M[x] < M[y]
  BY <1>1, <1>3, <1>4 DEF Collected
<1>8. \A m \in 1 .. k + 1 : RuleOf(m, type) => \E x \in 1 .. n + 1 : M[x] = m
  BY <1>3, <1>4 DEF Collected
<1>9. Collected(M, Q, type, k + 1)
  <2> HIDE DEF n
  <2> QED BY <1>2, <1>5, <1>6, <1>7, <1>8 DEF Collected
<1> QED BY <1>9 DEF Q, r

\* One that is not one of them.
LEMMA NoMoreRules ==
    ASSUME NEW k \in Nat, NEW type, NEW R, NEW L, Collected(L, R, type, k), ~RuleOf(k + 1, type)
    PROVE  Collected(L, R, type, k + 1)
<1>1. /\ \A x \in 1 .. k : x \in 1 .. k + 1
      /\ \A x \in 1 .. k + 1 : x = k + 1 \/ x \in 1 .. k
  OBVIOUS
<1>2. L \in [1 .. Len(R) -> 1 .. k + 1]
  BY <1>1 DEF Collected
<1> QED BY <1>1, <1>2 DEF Collected

\* So the rules of a type are collected in the order of their lines.
LEMMA RulesCollected ==
    ASSUME NEW type \in 1 .. 255
    PROVE  \E L : Collected(L, CustomRep[type], type, Len(Conf))
<1> DEFINE n == Len(Conf)
           S == { k \in Nat : k <= n =>
                     /\ Loaded[k].type = TypeAt(k)
                     /\ \E L : Collected(L, Loaded[k].rules[type], type, k) }
<1>0. n \in Nat
  BY LinesTaken
<1>1. 0 \in S
  <2>1. Loaded[0].type = TypeAt(0) /\ Loaded[0].rules[type] = <<>>
    BY LinesTaken, TypeAtIs DEF ConfBegin
  <2> DEFINE e == <<>>
  <2>2. e \in Seq(LineState) /\ Len(e) = 0 /\ e \in [1 .. 0 -> 1 .. 0] /\ 1 .. 0 = {}
    OBVIOUS
  <2> HIDE DEF e
  <2>3. Collected(e, e, type, 0)
    BY <2>2 DEF Collected
  <2> QED BY <2>1, <2>3 DEF e
<1>2. ASSUME NEW k \in 0 .. n - 1, k \in S PROVE k + 1 \in S
  <2>1. k <= n /\ k + 1 \in 1 .. n /\ (k + 1) - 1 = k /\ k + 1 \in Nat /\ k \in Nat
    BY <1>0
  <2> DEFINE s == Loaded[k]
             t == Loaded[k + 1]
  <2>2. s.type = TypeAt(k) /\ \E L : Collected(L, s.rules[type], type, k)
    BY <1>2, <2>1
  <2>3. s \in ConfState /\ Effect(s, k + 1, t)
    BY <2>1, LinesTaken
  <2> HIDE DEF s, t, S, n
  <2>4. TypeAt(k + 1) = IF Conf[k + 1][1] = Colon THEN Conf[k + 1][2] ELSE TypeAt(k)
    BY <2>1, TypeAtIs DEF n
  <2>5. t.type = TypeAt(k + 1)
    BY <2>2, <2>3, <2>4 DEF Effect
  <2>6. IsRule(k + 1) => TypeAt(k + 1) = s.type
    BY <2>2, <2>4 DEF IsRule
  <2>7. PICK L : Collected(L, s.rules[type], type, k)
    BY <2>2
  <2>8. CASE RuleOf(k + 1, type)
    <3>1. t.rules[type] = Append(s.rules[type], Rule(Conf[k + 1]))
      BY <2>3, <2>6, <2>8 DEF Effect, RuleOf
    <3>2. Rule(Conf[k + 1]) \in LineState
      BY <2>1, LineOf DEF n
    <3> QED BY <2>1, <2>5, <2>7, <2>8, <3>1, <3>2, OneMoreRule DEF t, S
  <2>9. CASE ~RuleOf(k + 1, type)
    <3>1. t.rules[type] = s.rules[type]
      BY <2>3, <2>6, <2>9 DEF Effect, RuleOf
    <3> QED BY <2>1, <2>5, <2>7, <2>9, <3>1, NoMoreRules DEF t, S
  <2> QED BY <2>8, <2>9
<1> HIDE DEF S, n
<1>3. n \in S
  BY <1>0, <1>1, <1>2, UpTo
<1> QED BY <1>0, <1>3 DEF S, CustomRep, n

-----------------------------------------------------------------------------
(* replaceAll of one character.                                             *)

\* What every character of s becomes when c becomes t.
Pieces(s, c, t) == [k \in 1 .. Len(s) |-> IF s[k] = c THEN t ELSE <<s[k]>>]

\* They are sequences.
LEMMA PiecesAre ==
    ASSUME NEW s \in Seq(Int), NEW c \in Int, NEW t \in Seq(Int)
    PROVE  /\ Len(s) \in Nat /\ Pieces(s, c, t) \in [1 .. Len(s) -> Seq(Int)]
           /\ \A k \in 1 .. Len(s) :
                /\ s[k] \in Int
                /\ Pieces(s, c, t)[k] = IF s[k] = c THEN t ELSE <<s[k]>>
<1>1. Len(s) \in Nat /\ \A k \in 1 .. Len(s) : s[k] \in Int
  BY ElementOfSeq
<1>2. \A k \in 1 .. Len(s) : <<s[k]>> \in Seq(Int)
  BY <1>1
<1> QED BY <1>1, <1>2 DEF Pieces

\* Where it stands.
LEMMA PieceHere ==
    ASSUME NEW s, NEW c, NEW t, NEW k \in 1 .. Len(s), s[k] = c
    PROVE  Pieces(s, c, t)[k] = t
BY DEF Pieces

\* And where it does not.
LEMMA PieceElse ==
    ASSUME NEW s, NEW c, NEW t, NEW k \in 1 .. Len(s), NEW v, s[k] = v, v # c
    PROVE  Pieces(s, c, t)[k] = <<v>>
BY DEF Pieces

\* The function that replaceAll is defined by: a[k] is what becomes of s from k on.
AfterIs(a, s, x) ==
    LET n == Len(s) IN
    /\ a[n + 1] = <<>>
    /\ \A k \in 1 .. n : a[k] = x[k] \o a[k + 1]

\* What is put together of three.
LEMMA Associate ==
    ASSUME NEW s \in Seq(Int), NEW t \in Seq(Int), NEW u \in Seq(Int)
    PROVE  (s \o t) \o u = s \o (t \o u)
BY ConcatAssociative

\* It puts the pieces together.
LEMMA AfterTogether ==
    ASSUME NEW s \in Seq(Int), NEW x \in [1 .. Len(s) -> Seq(Int)],
           NEW a, AfterIs(a, s, x), NEW z, Together(z, x, Len(s))
    PROVE  a[1] = z[Len(s)]
<1> DEFINE n == Len(s)
           T == { j \in Nat : j <= n => a[n + 1 - j] \in Seq(Int) }
           Whole(k) == z[k] \o a[k + 1] = a[1]
           S == { k \in Nat : k <= n => Whole(k) }
<1>1. n \in Nat
  OBVIOUS
<1>2. a[n + 1] = <<>> /\ \A k \in 1 .. n : a[k] = x[k] \o a[k + 1]
  BY DEF AfterIs
<1>3. z[0] = <<>> /\ \A k \in 1 .. n : z[k] = z[k - 1] \o x[k]
  BY DEF Together
<1>4. \A k \in 0 .. n : z[k] \in Seq(Int)
  BY DEF Together
<1>5. \A k \in 1 .. n : x[k] \in Seq(Int)
  OBVIOUS
<1> HIDE DEF n
<1>6. 0 \in T
  <2>1. n + 1 - 0 = n + 1 /\ <<>> \in Seq(Int)
    BY <1>1
  <2> QED BY <1>2, <2>1
<1>7. ASSUME NEW j \in 0 .. n - 1, j \in T PROVE j + 1 \in T
  <2>1. j <= n /\ j \in Nat /\ j + 1 \in Nat /\ n + 1 - (j + 1) \in 1 .. n
        /\ (n + 1 - (j + 1)) + 1 = n + 1 - j
    BY <1>1
  <2> DEFINE k == n + 1 - (j + 1)
  <2>2. a[n + 1 - j] \in Seq(Int)
    BY <1>7, <2>1
  <2>3. a[k] = x[k] \o a[n + 1 - j] /\ x[k] \in Seq(Int)
    BY <1>2, <1>5, <2>1
  <2>4. a[k] \in Seq(Int)
    BY <2>2, <2>3
  <2> QED BY <2>1, <2>4
<1>8. \A k \in 0 .. n : a[k + 1] \in Seq(Int)
  <2> SUFFICES ASSUME NEW k \in 0 .. n PROVE a[k + 1] \in Seq(Int)
    OBVIOUS
  <2> DEFINE d == n - k
  <2>1. d \in Nat /\ d <= n /\ n + 1 - d = k + 1 /\ \A j \in 0 .. d - 1 : j \in 0 .. n - 1
    BY <1>1
  <2> HIDE DEF d, T
  <2>2. d \in T
    BY <1>6, <1>7, <2>1, UpTo
  <2> QED BY <2>1, <2>2 DEF T
<1> HIDE DEF T
<1>9. 0 \in S
  <2> DEFINE o == 0
  <2>1. o \in 0 .. n /\ o + 1 = 1
    BY <1>1
  <2> HIDE DEF o
  <2>2. a[1] \in Seq(Int)
    BY <1>8, <2>1
  <2>3. <<>> \o a[1] = a[1]
    BY <2>2, ConcatEmptySeq
  <2>4. Whole(0)
    BY <1>3, <2>1, <2>3
  <2> QED BY <2>4
<1>10. ASSUME NEW k \in 0 .. n - 1, k \in S PROVE k + 1 \in S
  <2>1. k <= n /\ k \in 0 .. n /\ k + 1 \in 0 .. n /\ k + 1 \in 1 .. n /\ (k + 1) - 1 = k /\ k + 1 \in Nat
    BY <1>1
  <2>2. z[k] \o a[k + 1] = a[1]
    BY <1>10, <2>1
  <2>3. a[k + 1] = x[k + 1] \o a[(k + 1) + 1] /\ z[k + 1] = z[k] \o x[k + 1]
    BY <1>2, <1>3, <2>1
  <2>4. z[k] \in Seq(Int) /\ x[k + 1] \in Seq(Int) /\ a[(k + 1) + 1] \in Seq(Int)
    BY <1>4, <1>5, <1>8, <2>1
  <2>5. (z[k] \o x[k + 1]) \o a[(k + 1) + 1] = z[k] \o (x[k + 1] \o a[(k + 1) + 1])
    BY <2>4, Associate
  <2>6. Whole(k + 1)
    BY <2>2, <2>3, <2>5
  <2> HIDE DEF Whole
  <2> QED BY <2>1, <2>6
<1> HIDE DEF S, Whole
<1>11. n \in S
  BY <1>1, <1>9, <1>10, UpTo
<1>12. z[n] \o a[n + 1] = a[1]
  <2>1. Whole(n)
    BY <1>1, <1>11 DEF S
  <2> QED BY <2>1 DEF Whole
<1>13. z[n] \in Seq(Int) /\ z[n] \o <<>> = z[n]
  BY <1>1, <1>4, ConcatEmptySeq
<1> QED BY <1>2, <1>12, <1>13 DEF n

\* Any pieces can be put together from the last one on.
LEMMA AfterExists ==
    ASSUME NEW s \in Seq(Int), NEW x \in [1 .. Len(s) -> Seq(Int)]
    PROVE  \E a : a = [k \in 1 .. Len(s) + 1 |-> a[k]] /\ AfterIs(a, s, x)
<1> DEFINE n == Len(s)
           V == Seq(Int)
           F == [y \in V \X (1 .. n) |-> x[n + 1 - y[2]] \o y[1]]
<1>1. n \in Nat /\ <<>> \in V
  OBVIOUS
<1>2. \A j \in 1 .. n : n + 1 - j \in 1 .. n /\ x[n + 1 - j] \in V
  <2>1. \A j \in 1 .. n : n + 1 - j \in 1 .. n
    BY <1>1
  <2>2. \A j \in 1 .. n : x[j] \in V
    OBVIOUS
  <2> QED BY <2>1, <2>2
<1>3. F \in [V \X (1 .. n) -> V]
  BY <1>2
<1>4. \A v \in V, j \in 1 .. n : F[<<v, j>>] = x[n + 1 - j] \o v
  OBVIOUS
<1> HIDE DEF F, n
<1> HIDE DEF V
<1>5. PICK r \in [0 .. n -> V] : Steps(r, n, <<>>, F)
  BY <1>1, <1>3, StepsExist
<1> DEFINE a == [k \in 1 .. n + 1 |-> r[n + 1 - k]]
<1>6. \A k \in 1 .. n + 1 : a[k] = r[n + 1 - k]
  OBVIOUS
<1>7. a[n + 1] = <<>>
  <2>1. n + 1 \in 1 .. n + 1 /\ n + 1 - (n + 1) = 0
    BY <1>1
  <2> HIDE DEF a
  <2> QED BY <1>5, <1>6, <2>1 DEF Steps
<1>8. ASSUME NEW k \in 1 .. n PROVE a[k] = x[k] \o a[k + 1]
  <2> DEFINE j == n + 1 - k
  <2>1. /\ k \in 1 .. n + 1 /\ k + 1 \in 1 .. n + 1 /\ n + 1 - (k + 1) = j - 1
        /\ j \in 1 .. n /\ n + 1 - j = k /\ j - 1 \in 0 .. n
    BY <1>1
  <2>2. a[k] = r[j] /\ a[k + 1] = r[j - 1]
    BY <1>6, <2>1
  <2> HIDE DEF a, j
  <2>3. r[j] = F[<<r[j - 1], j>>] /\ r[j - 1] \in V
    BY <1>5, <2>1 DEF Steps
  <2>4. r[j] = x[n + 1 - j] \o r[j - 1]
    BY <1>4, <2>1, <2>3
  <2> QED BY <2>1, <2>2, <2>4
<1>9. a = [k \in 1 .. n + 1 |-> a[k]]
  OBVIOUS
<1> HIDE DEF a
<1>10. AfterIs(a, s, x)
  BY <1>7, <1>8 DEF AfterIs, n
<1> QED BY <1>9, <1>10 DEF n

\* So replaceAll of one character replaces it wherever it stands.
LEMMA CharReplaced ==
    ASSUME NEW s \in Seq(Int), NEW c \in Int, NEW t \in Seq(Int),
           NEW z, Together(z, Pieces(s, c, t), Len(s))
    PROVE  ReplaceText(s, <<c>>, t) = z[Len(s)]
<1> DEFINE n == Len(s)
           x == Pieces(s, c, t)
           f == <<c>>
           FoundAt(k) == k + Len(f) - 1 <= Len(s) /\ SubSeq(s, k, k + Len(f) - 1) = f
           Next1(a, k) == CASE k > Len(s) -> <<>>
                            [] k <= Len(s) /\ FoundAt(k) -> t \o a[k + Len(f)]
                            [] OTHER -> <<s[k]>> \o a[k + 1]
           Is(a) == a = [k \in 1 .. Len(s) + 1 |-> Next1(a, k)]
           g == CHOOSE a : Is(a)
<1>1. ReplaceText(s, f, t) = g[1]
  BY DEF ReplaceText
<1>2. n \in Nat /\ x \in [1 .. n -> Seq(Int)]
      /\ \A k \in 1 .. n : s[k] \in Int /\ x[k] = IF s[k] = c THEN t ELSE <<s[k]>>
  BY PiecesAre
<1>3. \A a : \A k \in 1 .. n : Next1(a, k) = x[k] \o a[k + 1]
  <2> SUFFICES ASSUME NEW a, NEW k \in 1 .. n PROVE Next1(a, k) = x[k] \o a[k + 1]
    OBVIOUS
  <2>1. Len(f) = 1 /\ k + Len(f) - 1 = k /\ k + Len(f) = k + 1 /\ ~(k > n) /\ k <= n
    BY <1>2
  <2>2. SubSeq(s, k, k) = <<s[k]>>
    <3> DEFINE one == <<s[k]>>
               b == k - 1
    <3>1. one \in Seq(Int) /\ Len(one) = 1 /\ one[1] = s[k]
      BY <1>2
    <3>2. b \in Nat /\ b + 1 = k /\ b + 1 <= n
      BY <1>2
    <3> HIDE DEF one, b
    <3>3. \A q \in 1 .. Len(one) : s[b + q] = one[q]
      BY <3>1, <3>2
    <3>4. SubSeq(s, b + 1, b + Len(one)) = one
      BY <3>1, <3>2, <3>3, PartIs
    <3> QED BY <3>1, <3>2, <3>4 DEF one
  <2>3. FoundAt(k) <=> s[k] = c
    BY <2>1, <2>2
  <2> HIDE DEF FoundAt, x, f
  <2>4. CASE s[k] = c
    <3>1. Next1(a, k) = t \o a[k + 1]
      BY <2>1, <2>3, <2>4
    <3> QED BY <1>2, <2>4, <3>1
  <2>5. CASE s[k] # c
    <3>1. Next1(a, k) = <<s[k]>> \o a[k + 1]
      BY <2>1, <2>3, <2>5
    <3> QED BY <1>2, <2>5, <3>1
  <2> QED BY <2>4, <2>5
<1>4. \A a : Next1(a, n + 1) = <<>>
  BY <1>2
<1>5. PICK a : a = [k \in 1 .. n + 1 |-> a[k]] /\ AfterIs(a, s, x)
  BY <1>2, AfterExists
<1> HIDE DEF Next1, x
<1>6. Is(a)
  <2>1. a[n + 1] = <<>> /\ \A k \in 1 .. n : a[k] = x[k] \o a[k + 1]
    BY <1>5 DEF AfterIs
  <2>2. \A k \in 1 .. n + 1 : k = n + 1 \/ k \in 1 .. n
    BY <1>2
  <2>3. \A k \in 1 .. n + 1 : a[k] = Next1(a, k)
    BY <1>3, <1>4, <2>1, <2>2
  <2>4. [k \in 1 .. n + 1 |-> a[k]] = [k \in 1 .. n + 1 |-> Next1(a, k)]
    BY <2>3
  <2> QED BY <1>5, <2>4
<1>7. Is(g)
  <2> HIDE DEF Is
  <2> QED BY <1>6
<1>8. \A k \in 1 .. n + 1 : g[k] = Next1(g, k)
  <2> HIDE DEF g
  <2> QED BY <1>7
<1> HIDE DEF g
<1>9. AfterIs(g, s, x)
  <2>1. n + 1 \in 1 .. n + 1 /\ \A k \in 1 .. n : k \in 1 .. n + 1
    BY <1>2
  <2>2. g[n + 1] = <<>> /\ \A k \in 1 .. n : g[k] = x[k] \o g[k + 1]
    BY <1>3, <1>4, <1>8, <2>1
  <2> QED BY <2>2 DEF AfterIs
<1>10. g[1] = z[n]
  BY <1>2, <1>9, AfterTogether DEF x
<1> QED BY <1>1, <1>10


\* v is w with the first k characters of u behind it.
Extended(v, w, u, k) ==
    /\ v \in Seq(Int) /\ Len(v) = Len(w) + k
    /\ \A x \in 1 .. Len(w) : v[x] = w[x]
    /\ \A x \in 1 .. k : v[Len(w) + x] = u[x]

\* One character more.
LEMMA ExtendedMore ==
    ASSUME NEW v, NEW w \in Seq(Int), NEW u \in Seq(Int), NEW k \in 0 .. Len(u) - 1,
           Extended(v, w, u, k)
    PROVE  Extended(v \o <<u[k + 1]>>, w, u, k + 1)
<1> DEFINE one == <<u[k + 1]>>
           y == v \o one
           n == Len(w)
<1>1. n \in Nat /\ Len(u) \in Nat /\ k \in Nat
  OBVIOUS
<1>2. u[k + 1] \in Int
  <2>1. k + 1 \in 1 .. Len(u)
    BY <1>1
  <2> QED BY <2>1, ElementOfSeq
<1>3. one \in Seq(Int) /\ Len(one) = 1 /\ one[1] = u[k + 1] /\ 1 \in 1 .. Len(one)
  BY <1>2
<1>4. v \in Seq(Int) /\ Len(v) = n + k /\ (\A x \in 1 .. n : v[x] = w[x])
      /\ \A x \in 1 .. k : v[n + x] = u[x]
  BY DEF Extended
<1> HIDE DEF one, n
<1>5. /\ y \in Seq(Int) /\ Len(y) = Len(v) + 1 /\ y[Len(v) + 1] = u[k + 1]
      /\ \A x \in 1 .. Len(v) : y[x] = v[x]
  <2>1. /\ y \in Seq(Int) /\ Len(y) = Len(v) + Len(one)
        /\ \A x \in 1 .. Len(v) : y[x] = v[x]
        /\ \A x \in 1 .. Len(one) : y[Len(v) + x] = one[x]
    BY <1>3, <1>4, CatFacts
  <2> HIDE DEF y
  <2> QED BY <1>3, <2>1
<1> HIDE DEF y
<1>6. /\ \A x \in 1 .. n : x \in 1 .. Len(v)
      /\ \A x \in 1 .. k : n + x \in 1 .. Len(v)
      /\ \A x \in 1 .. k + 1 : x \in 1 .. k \/ (x = k + 1 /\ n + x = Len(v) + 1)
      /\ Len(v) + 1 = n + (k + 1)
  BY <1>1, <1>4
<1>7. \A x \in 1 .. n : y[x] = w[x]
  BY <1>4, <1>5, <1>6
<1>8. \A x \in 1 .. k + 1 : y[n + x] = u[x]
  BY <1>4, <1>5, <1>6
<1> QED BY <1>5, <1>6, <1>7, <1>8 DEF Extended, y, one, n

\* Where it does not stand nothing is replaced.
LEMMA PartStays ==
    ASSUME NEW s \in Seq(Int), NEW c \in Int, NEW t \in Seq(Int),
           NEW z, Together(z, Pieces(s, c, t), Len(s)),
           NEW b, NEW u, FoundIn(s, b, u), \A k \in 1 .. Len(u) : u[k] # c
    PROVE  z[b + Len(u)] = z[b] \o u
<1> DEFINE w == z[b]
           S == { k \in Nat : k <= Len(u) => Extended(z[b + k], w, u, k) }
<1>1. /\ b \in Nat /\ u \in Seq(Int) /\ Len(u) \in Nat /\ Len(s) \in Nat /\ b + Len(u) <= Len(s)
      /\ \A k \in 1 .. Len(u) : s[b + k] = u[k]
  BY DEF FoundIn
<1>2. \A k \in 0 .. Len(s) : z[k] \in Seq(Int)
  BY DEF Together
<1>3. \A k \in 1 .. Len(s) : z[k] = z[k - 1] \o Pieces(s, c, t)[k]
  BY DEF Together
<1>4. w \in Seq(Int)
  <2>1. b \in 0 .. Len(s)
    BY <1>1
  <2> QED BY <1>2, <2>1
<1> HIDE DEF w
<1>5. 0 \in S
  <2>1. b + 0 = b /\ Len(w) \in Nat
    BY <1>1, <1>4
  <2>2. Extended(w, w, u, 0)
    BY <1>4, <2>1 DEF Extended
  <2> QED BY <2>1, <2>2 DEF w
<1>6. ASSUME NEW k \in 0 .. Len(u) - 1, k \in S PROVE k + 1 \in S
  <2>1. /\ k <= Len(u) /\ k \in Nat /\ k + 1 \in Nat /\ k + 1 \in 1 .. Len(u)
        /\ b + (k + 1) \in 1 .. Len(s) /\ (b + (k + 1)) - 1 = b + k
    BY <1>1
  <2>2. Extended(z[b + k], w, u, k)
    BY <1>6, <2>1
  <2>3. s[b + (k + 1)] = u[k + 1] /\ u[k + 1] # c
    BY <1>1, <2>1
  <2>4. Pieces(s, c, t)[b + (k + 1)] = <<u[k + 1]>>
    <3> DEFINE d == b + (k + 1)
    <3>1. d \in 1 .. Len(s) /\ s[d] = u[k + 1] /\ s[d] # c
      BY <2>1, <2>3
    <3> HIDE DEF d
    <3>2. Pieces(s, c, t)[d] = <<u[k + 1]>>
      BY <3>1, PieceElse
    <3> QED BY <3>1, <3>2 DEF d
  <2>5. z[b + (k + 1)] = z[b + k] \o <<u[k + 1]>>
    BY <1>3, <2>1, <2>4
  <2>6. Extended(z[b + (k + 1)], w, u, k + 1)
    BY <1>1, <1>4, <2>2, <2>5, ExtendedMore
  <2> QED BY <2>1, <2>6
<1> HIDE DEF S
<1>7. Len(u) \in S
  BY <1>1, <1>5, <1>6, UpTo
<1> DEFINE v == z[b + Len(u)]
<1>8. Extended(v, w, u, Len(u))
  BY <1>1, <1>7 DEF S
<1> HIDE DEF v
<1> DEFINE y == w \o u
<1>9. /\ y \in Seq(Int) /\ Len(y) = Len(w) + Len(u) /\ Len(w) \in Nat
      /\ \A x \in 1 .. Len(w) : y[x] = w[x]
      /\ \A x \in 1 .. Len(u) : y[Len(w) + x] = u[x]
  BY <1>1, <1>4, CatFacts
<1> HIDE DEF y
<1>10. ASSUME NEW x \in 1 .. Len(y) PROVE v[x] = y[x]
  <2>1. CASE x \in 1 .. Len(w)
    BY <1>8, <1>9, <2>1 DEF Extended
  <2>2. CASE x \notin 1 .. Len(w)
    <3>1. x - Len(w) \in 1 .. Len(u) /\ Len(w) + (x - Len(w)) = x
      BY <1>1, <1>9, <2>2
    <3>2. v[Len(w) + (x - Len(w))] = u[x - Len(w)] /\ y[Len(w) + (x - Len(w))] = u[x - Len(w)]
      BY <1>8, <1>9, <3>1 DEF Extended
    <3> QED BY <3>1, <3>2
  <2> QED BY <2>1, <2>2
<1>11. v \in Seq(Int) /\ Len(v) = Len(y)
  BY <1>8, <1>9 DEF Extended
<1>12. v = y
  BY <1>9, <1>10, <1>11, SeqEqual
<1> QED BY <1>12 DEF v, w, y

\* A part that is the character, or one it does not stand in.
PartOrPiece(old, new, c, t) ==
    \/ old = <<c>> /\ new = t
    \/ (\A k \in 1 .. Len(old) : old[k] # c) /\ new = old
AllParts(u, q, m, c, t) ==
    /\ u \in [1 .. m -> Seq(Int)] /\ q \in [1 .. m -> Seq(Int)]
    /\ \A j \in 1 .. m : PartOrPiece(u[j], q[j], c, t)
IsReplaced(s, c, t, v) == ReplaceText(s, <<c>>, t) = v

\* So what was put together of such parts is put together again of what becomes of them.
LEMMA PartsReplaced ==
    ASSUME NEW m \in Nat, NEW u, NEW g, Together(g, u, m), NEW q, NEW h, Together(h, q, m),
           NEW c \in Int, NEW t \in Seq(Int), AllParts(u, q, m, c, t)
    PROVE  IsReplaced(g[m], c, t, h[m])
<1> DEFINE s == g[m]
           x == Pieces(s, c, t)
<1>0. /\ u \in [1 .. m -> Seq(Int)] /\ q \in [1 .. m -> Seq(Int)]
      /\ \A j \in 1 .. m : PartOrPiece(u[j], q[j], c, t)
  BY DEF AllParts
<1>1. \A k \in 0 .. m : g[k] \in Seq(Int) /\ h[k] \in Seq(Int)
  BY DEF Together
<1>2. s \in Seq(Int)
  <2>1. m \in 0 .. m
    OBVIOUS
  <2> QED BY <1>1, <2>1
<1> HIDE DEF s
<1>3. Len(s) \in Nat /\ x \in [1 .. Len(s) -> Seq(Int)]
  BY <1>2, PiecesAre
<1> HIDE DEF x
<1>4. PICK z : Together(z, x, Len(s))
  BY <1>3, TogetherExists
<1>5. ReplaceText(s, <<c>>, t) = z[Len(s)]
  BY <1>2, <1>4, CharReplaced DEF x
<1>a. \A k \in 0 .. Len(s) : z[k] \in Seq(Int)
  BY <1>4 DEF Together
<1>b. \A k \in 1 .. Len(s) : z[k] = z[k - 1] \o x[k]
  BY <1>4 DEF Together
<1> DEFINE S == { k \in Nat : k <= m => z[Len(g[k])] = h[k] }
<1>6. 0 \in S
  <2>1. g[0] = <<>> /\ h[0] = <<>> /\ z[0] = <<>> /\ Len(<<>>) = 0
    BY <1>4 DEF Together
  <2> QED BY <2>1
<1>7. ASSUME NEW k \in 0 .. m - 1, k \in S PROVE k + 1 \in S
  <2>1. k <= m /\ k \in 0 .. m /\ k + 1 \in 1 .. m /\ k + 1 \in 0 .. m /\ (k + 1) - 1 = k /\ k + 1 \in Nat
    OBVIOUS
  <2> DEFINE b == Len(g[k])
             part == u[k + 1]
             new == q[k + 1]
  <2>2. z[b] = h[k]
    BY <1>7, <2>1
  <2>3. FoundIn(s, b, part)
    <3>1. FoundIn(g[m], Len(g[(k + 1) - 1]), u[k + 1])
      BY <1>0, <2>1, EachIsFound
    <3> QED BY <2>1, <3>1 DEF s
  <2>4. g[k + 1] = g[k] \o part /\ h[k + 1] = h[k] \o new
    BY <2>1 DEF Together
  <2>5. part \in Seq(Int) /\ g[k] \in Seq(Int) /\ Len(part) \in Nat /\ b \in Nat
    BY <1>0, <1>1, <2>1
  <2>6. Len(g[k + 1]) = b + Len(part)
    BY <2>4, <2>5, CatFacts
  <2>7. PartOrPiece(part, new, c, t)
    BY <1>0, <2>1
  <2> HIDE DEF b, part, new, S
  <2>8. CASE part = <<c>> /\ new = t
    <3>1. Len(part) = 1 /\ part[1] = c /\ 1 \in 1 .. Len(part)
      BY <2>8
    <3>2. b + 1 \in 1 .. Len(s) /\ (b + 1) - 1 = b /\ s[b + 1] = c
      BY <1>3, <2>3, <2>5, <3>1 DEF FoundIn
    <3>3. x[b + 1] = t
      <4> DEFINE d == b + 1
      <4>1. d \in 1 .. Len(s) /\ s[d] = c
        BY <3>2
      <4> HIDE DEF d
      <4>2. Pieces(s, c, t)[d] = t
        BY <4>1, PieceHere
      <4> QED BY <4>1, <4>2 DEF d, x
    <3>4. z[b + 1] = z[b] \o t
      BY <1>b, <3>2, <3>3
    <3>5. z[Len(g[k + 1])] = h[k + 1]
      BY <2>2, <2>4, <2>6, <2>8, <3>1, <3>4
    <3> QED BY <2>1, <3>5 DEF S
  <2>9. CASE (\A j \in 1 .. Len(part) : part[j] # c) /\ new = part
    <3>1. z[b + Len(part)] = z[b] \o part
      <4>1. Together(z, Pieces(s, c, t), Len(s))
        BY <1>4 DEF x
      <4>2. \A j \in 1 .. Len(part) : part[j] # c
        BY <2>9
      <4> QED BY <1>2, <2>3, <4>1, <4>2, PartStays
    <3>2. z[Len(g[k + 1])] = h[k + 1]
      BY <2>2, <2>4, <2>6, <2>9, <3>1
    <3> QED BY <2>1, <3>2 DEF S
  <2> QED BY <2>7, <2>8, <2>9 DEF PartOrPiece
<1> HIDE DEF S
<1>8. m \in S
  BY <1>6, <1>7, UpTo
<1>9. z[Len(s)] = h[m]
  BY <1>8 DEF S, s
<1> QED BY <1>5, <1>9 DEF s, IsReplaced

-----------------------------------------------------------------------------
(* The rules of a type, one after the other.                                *)

\* What a dictionary is called, and where it is.
GoodDict(dict) == dict.path \in Seq(Int) /\ dict.name \in Seq(Int)

\* A text with the variables replaced is one.
LEMMA TextGenerated ==
    ASSUME NEW text \in Seq(Int), NEW dict, GoodDict(dict)
    PROVE  GenFormatText(text, dict) \in Seq(Int)
<1> DEFINE n == Len(text)
           s == [k \in 1 .. n |-> CASE text[k] = DICT_PATH -> dict.path
                                    [] text[k] = DICT_NAME -> dict.name
                                    [] OTHER -> <<text[k]>>]
<1>1. n \in Nat /\ DOMAIN text = 1 .. n /\ \A k \in 1 .. n : text[k] \in Int
  BY ElementOfSeq
<1>2. GenFormatText(text, dict) = FlattenSeq(s)
  BY <1>1 DEF GenFormatText
<1>3. ASSUME NEW k \in 1 .. n PROVE s[k] \in Seq(Int)
  <2>1. <<text[k]>> \in Seq(Int) /\ dict.path \in Seq(Int) /\ dict.name \in Seq(Int)
    BY <1>1 DEF GoodDict
  <2>2. s[k] = CASE text[k] = DICT_PATH -> dict.path
                 [] text[k] = DICT_NAME -> dict.name
                 [] OTHER -> <<text[k]>>
    OBVIOUS
  <2> HIDE DEF s
  <2> QED BY <2>1, <2>2 DEF DICT_PATH, DICT_NAME
<1>4. s = [k \in 1 .. n |-> s[k]]
  OBVIOUS
<1> HIDE DEF s, n
<1>5. s \in [1 .. n -> Seq(Int)]
  BY <1>3, <1>4
<1>6. PICK g : Together(g, s, n)
  BY <1>1, <1>5, TogetherExists
<1>7. FlattenSeq(s) = g[n] /\ n \in 0 .. n
  BY <1>1, <1>5, <1>6, FlattenTogether
<1>8. g[n] \in Seq(Int)
  BY <1>6, <1>7 DEF Together
<1> QED BY <1>2, <1>7, <1>8

\* A rule that looks for one character, and what it puts in.
SingleRule(rule, dict, c, t) ==
    /\ rule.op = 61 /\ From(rule, dict) = <<c>> /\ To(rule, dict) = t
    /\ c \in Int /\ t \in Seq(Int)

\* It replaces the character, wherever it stands.
LEMMA SingleReplaced ==
    ASSUME NEW rule, NEW dict, NEW c, NEW t, SingleRule(rule, dict, c, t), NEW text \in Seq(Int)
    PROVE  /\ ReplaceBy(rule, dict, text) = ReplaceText(text, <<c>>, t)
           /\ ReplaceBy(rule, dict, text) \in Seq(Int)
<1>1. ReplaceBy(rule, dict, text) = ReplaceText(text, <<c>>, t)
  BY DEF SingleRule, ReplaceBy, From, To
<1>2. c \in Int /\ t \in Seq(Int)
  BY DEF SingleRule
<1> DEFINE n == Len(text)
<1>3. n \in Nat /\ Pieces(text, c, t) \in [1 .. n -> Seq(Int)]
  BY <1>2, PiecesAre
<1>4. PICK z : Together(z, Pieces(text, c, t), n)
  BY <1>3, TogetherExists
<1>5. ReplaceText(text, <<c>>, t) = z[n] /\ n \in 0 .. n
  BY <1>2, <1>3, <1>4, CharReplaced
<1>6. z[n] \in Seq(Int)
  BY <1>4, <1>5 DEF Together
<1> QED BY <1>1, <1>5, <1>6

\* Rules of which none puts in, or looks for, what a later one looks for.
First(rule, dict) == From(rule, dict)[1]
Separate(R, dict) ==
    /\ R \in Seq(LineState)
    /\ \A k \in 1 .. Len(R) :
         /\ SingleRule(R[k], dict, First(R[k], dict), To(R[k], dict))
         /\ \A j \in 1 .. Len(R) : j < k =>
              /\ First(R[k], dict) # First(R[j], dict)
              /\ First(R[k], dict) \notin ToSet(To(R[j], dict))

\* They are applied one after the other.
LEMMA RulesApplied ==
    ASSUME NEW R, NEW dict, Separate(R, dict), NEW text \in Seq(Int)
    PROVE  LET f == ReplacedBy(R, dict, text) IN
           /\ f[0] = text
           /\ \A k \in 1 .. Len(R) : /\ f[k - 1] \in Seq(Int)
                                     /\ f[k] = ReplaceBy(R[k], dict, f[k - 1])
<1> DEFINE n == Len(R)
           V == Seq(Int)
           F == [x \in V \X (1 .. n) |-> ReplaceBy(R[x[2]], dict, x[1])]
           Next1(r, k) == IF k = 0 THEN text ELSE ReplaceBy(R[k], dict, r[k - 1])
           Is(r) == r = [k \in 0 .. n |-> Next1(r, k)]
           f == CHOOSE r : Is(r)
<1>1. ReplacedBy(R, dict, text) = f
  BY DEF ReplacedBy
<1>2. n \in Nat
  BY DEF Separate
<1>a. \A v \in V, k \in 1 .. n : ReplaceBy(R[k], dict, v) \in V
  BY SingleReplaced DEF Separate
<1>3. text \in V
  OBVIOUS
<1> HIDE DEF V
<1>4. F \in [V \X (1 .. n) -> V]
  BY <1>a
<1>5. \A v \in V, k \in 1 .. n : F[<<v, k>>] = ReplaceBy(R[k], dict, v)
  OBVIOUS
<1> HIDE DEF F
<1>6. PICK r \in [0 .. n -> V] : Steps(r, n, text, F)
  <2> HIDE DEF n
  <2> QED BY <1>2, <1>3, <1>4, StepsExist
<1>7. Is(r)
  <2>1. \A k \in 0 .. n : k # 0 => k \in 1 .. n /\ k - 1 \in 0 .. n
    BY <1>2
  <2>2. \A k \in 0 .. n : r[k] = Next1(r, k)
    BY <1>5, <1>6, <2>1 DEF Steps
  <2>3. r = [k \in 0 .. n |-> r[k]]
    OBVIOUS
  <2> HIDE DEF Next1, n
  <2> QED BY <2>2, <2>3
<1>8. Is(f)
  <2> HIDE DEF Is
  <2> QED BY <1>7
<1>9. \A k \in 0 .. n : f[k] = Next1(f, k)
  <2> HIDE DEF f, Next1
  <2> QED BY <1>8
<1>10. f[0] = text /\ \A k \in 1 .. n : f[k] = ReplaceBy(R[k], dict, f[k - 1])
  <2>1. 0 \in 0 .. n /\ \A k \in 1 .. n : k \in 0 .. n /\ k # 0
    BY <1>2
  <2> HIDE DEF f, n
  <2> QED BY <1>9, <2>1
<1> HIDE DEF f, Next1, Is, n
<1> DEFINE S == { k \in Nat : k <= n => f[k] \in V }
<1>11. 0 \in S
  BY <1>3, <1>10
<1>12. ASSUME NEW k \in 0 .. n - 1, k \in S PROVE k + 1 \in S
  <2>1. k <= n /\ k + 1 \in 1 .. n /\ (k + 1) - 1 = k /\ k + 1 \in Nat
    BY <1>2
  <2>2. f[k + 1] = ReplaceBy(R[k + 1], dict, f[k]) /\ f[k] \in V
    BY <1>10, <1>12, <2>1
  <2>3. f[k + 1] \in V
    BY <1>a, <2>1, <2>2
  <2> QED BY <2>1, <2>3
<1> HIDE DEF S
<1>13. ASSUME NEW k \in 1 .. n PROVE f[k - 1] \in V
  <2> DEFINE d == k - 1
  <2>1. d \in Nat /\ d <= n /\ \A j \in 0 .. d - 1 : j \in 0 .. n - 1
    BY <1>2
  <2> HIDE DEF d
  <2>2. d \in S
    BY <1>11, <1>12, <2>1, UpTo
  <2> QED BY <2>1, <2>2 DEF S, d
<1> QED BY <1>1, <1>10, <1>13 DEF n, V

\* What the first k rules make of a character.
Becomes(R, dict, k, c, y) ==
    \/ \E x \in 1 .. k : From(R[x], dict) = <<c>> /\ y = To(R[x], dict)
    \/ (\A x \in 1 .. k : From(R[x], dict) # <<c>>) /\ y = <<c>>

\* One rule more: it leaves alone what those before it put in.
LEMMA BecomesMore ==
    ASSUME NEW R, NEW dict, Separate(R, dict), NEW k \in 0 .. Len(R) - 1,
           NEW c, NEW y, Becomes(R, dict, k, c, y),
           NEW C, NEW T, SingleRule(R[k + 1], dict, C, T)
    PROVE  LET new == IF y = <<C>> THEN T ELSE y
           IN  PartOrPiece(y, new, C, T) /\ Becomes(R, dict, k + 1, c, new)
<1> DEFINE new == IF y = <<C>> THEN T ELSE y
<1>0. Len(R) \in Nat
  BY DEF Separate
<1>1. /\ k + 1 \in 1 .. Len(R) /\ k + 1 \in 1 .. k + 1
      /\ \A x \in 1 .. k : x \in 1 .. k + 1 /\ x \in 1 .. Len(R) /\ x < k + 1
      /\ \A x \in 1 .. k + 1 : x = k + 1 \/ x \in 1 .. k
  BY <1>0
<1>2. From(R[k + 1], dict) = <<C>> /\ To(R[k + 1], dict) = T /\ First(R[k + 1], dict) = C
  BY DEF SingleRule, First
<1>3. CASE \E x \in 1 .. k : From(R[x], dict) = <<c>> /\ y = To(R[x], dict)
  <2>1. PICK x \in 1 .. k : From(R[x], dict) = <<c>> /\ y = To(R[x], dict)
    BY <1>3
  <2>2. y \in Seq(Int) /\ C \notin ToSet(y)
    BY <1>1, <1>2, <2>1 DEF Separate, SingleRule
  <2>3. \A j \in 1 .. Len(y) : y[j] # C
    BY <2>2 DEF ToSet
  <2>4. y # <<C>>
    <3> SUFFICES ASSUME y = <<C>> PROVE FALSE
      OBVIOUS
    <3>1. 1 \in 1 .. Len(y) /\ y[1] = C
      OBVIOUS
    <3> QED BY <2>3, <3>1
  <2>5. new = y /\ x \in 1 .. k + 1
    BY <1>1, <2>4
  <2> HIDE DEF new
  <2>6. PartOrPiece(y, new, C, T)
    BY <2>3, <2>5 DEF PartOrPiece
  <2>7. Becomes(R, dict, k + 1, c, new)
    BY <2>1, <2>5 DEF Becomes
  <2> QED BY <2>6, <2>7 DEF new
<1>4. CASE (\A x \in 1 .. k : From(R[x], dict) # <<c>>) /\ y = <<c>>
  <2>1. CASE c = C
    <3>1. y = <<C>> /\ new = T /\ From(R[k + 1], dict) = <<c>>
      BY <1>2, <1>4, <2>1
    <3> HIDE DEF new
    <3>2. PartOrPiece(y, new, C, T)
      BY <3>1 DEF PartOrPiece
    <3>3. Becomes(R, dict, k + 1, c, new)
      BY <1>1, <1>2, <3>1 DEF Becomes
    <3> QED BY <3>2, <3>3 DEF new
  <2>2. CASE c # C
    <3>1. <<c>> # <<C>> /\ Len(<<c>>) = 1 /\ \A j \in 1 .. 1 : <<c>>[j] = c
      BY <2>2
    <3>2. new = y /\ y = <<c>>
      BY <1>4, <3>1
    <3> HIDE DEF new
    <3>3. \A j \in 1 .. Len(y) : y[j] # C
      BY <2>2, <3>1, <3>2
    <3>4. PartOrPiece(y, new, C, T)
      BY <3>2, <3>3 DEF PartOrPiece
    <3>5. \A x \in 1 .. k + 1 : From(R[x], dict) # <<c>>
      BY <1>1, <1>2, <1>4, <3>1
    <3>6. Becomes(R, dict, k + 1, c, new)
      BY <3>2, <3>5 DEF Becomes
    <3> QED BY <3>4, <3>6 DEF new
  <2> QED BY <2>1, <2>2
<1> QED BY <1>3, <1>4 DEF Becomes


\* What a text has become after k rules: each of its characters by itself.
TextBecomes(R, dict, k, text, y) ==
    LET m == Len(text) IN
    \E u \in [1 .. m -> Seq(Int)] : \E g :
        /\ Together(g, u, m) /\ y = g[m]
        /\ \A j \in 1 .. m : Becomes(R, dict, k, text[j], u[j])

\* A text is put together of its characters.
LEMMA TextBegins ==
    ASSUME NEW R, NEW dict, NEW text \in Seq(Int)
    PROVE  TextBecomes(R, dict, 0, text, text)
<1> DEFINE m == Len(text)
           u == [j \in 1 .. m |-> <<text[j]>>]
<1>1. m \in Nat /\ \A j \in 1 .. m : text[j] \in Int
  BY ElementOfSeq
<1>2. \A j \in 1 .. m : <<text[j]>> \in Seq(Int)
  BY <1>1
<1>3. u \in [1 .. m -> Seq(Int)] /\ \A j \in 1 .. m : u[j] = <<text[j]>>
  BY <1>2
<1> HIDE DEF u
<1>4. PICK g : Together(g, u, m)
  BY <1>1, <1>3, TogetherExists
<1> DEFINE S == { k \in Nat : k <= m => Extended(g[k], <<>>, text, k) }
<1>5. 0 \in S
  <2>1. g[0] = <<>> /\ <<>> \in Seq(Int) /\ Len(<<>>) = 0
    BY <1>4 DEF Together
  <2> DEFINE e == <<>>
  <2> HIDE DEF e
  <2>2. Extended(e, e, text, 0)
    BY <2>1 DEF Extended, e
  <2> QED BY <2>1, <2>2 DEF e
<1>6. ASSUME NEW k \in 0 .. m - 1, k \in S PROVE k + 1 \in S
  <2>1. k <= m /\ k + 1 \in 1 .. m /\ (k + 1) - 1 = k /\ k + 1 \in Nat
    BY <1>1
  <2>2. g[k + 1] = g[k] \o <<text[k + 1]>>
    BY <1>3, <1>4, <2>1 DEF Together
  <2> DEFINE e == <<>>
  <2>3. e \in Seq(Int)
    OBVIOUS
  <2>4. Extended(g[k], e, text, k)
    BY <1>6, <2>1
  <2> HIDE DEF e
  <2>5. Extended(g[k + 1], e, text, k + 1)
    BY <2>2, <2>3, <2>4, ExtendedMore
  <2> QED BY <2>1, <2>5 DEF e
<1> HIDE DEF S
<1>7. m \in S
  BY <1>1, <1>5, <1>6, UpTo
<1>8. Extended(g[m], <<>>, text, m)
  BY <1>1, <1>7 DEF S
<1>9. g[m] = text
  <2> DEFINE v == g[m]
             e == <<>>
  <2>1. Len(e) = 0 /\ Extended(v, e, text, m)
    BY <1>8
  <2> HIDE DEF v, e
  <2>2. v \in Seq(Int) /\ Len(v) = 0 + m /\ \A x \in 1 .. m : v[0 + x] = text[x]
    BY <2>1 DEF Extended
  <2>3. Len(v) = Len(text) /\ \A x \in 1 .. Len(v) : v[x] = text[x]
    BY <1>1, <2>2
  <2>4. v = text
    BY <2>2, <2>3, SeqEqual
  <2> QED BY <2>4 DEF v
<1>10. \A j \in 1 .. m : Becomes(R, dict, 0, text[j], u[j])
  <2>1. 1 .. 0 = {}
    OBVIOUS
  <2> QED BY <1>3, <2>1 DEF Becomes
<1> QED BY <1>3, <1>4, <1>9, <1>10 DEF TextBecomes

\* One rule more.
LEMMA TextBecomesMore ==
    ASSUME NEW R, NEW dict, Separate(R, dict), NEW k \in 0 .. Len(R) - 1,
           NEW text \in Seq(Int), NEW y, TextBecomes(R, dict, k, text, y)
    PROVE  TextBecomes(R, dict, k + 1, text, ReplaceBy(R[k + 1], dict, y))
<1> DEFINE m == Len(text)
           C == First(R[k + 1], dict)
           T == To(R[k + 1], dict)
<1>1. PICK u, g :
         /\ u \in [1 .. m -> Seq(Int)] /\ Together(g, u, m) /\ y = g[m]
         /\ \A j \in 1 .. m : Becomes(R, dict, k, text[j], u[j])
  BY DEF TextBecomes
<1>2. m \in Nat /\ m \in 0 .. m /\ k + 1 \in 1 .. Len(R)
  BY DEF Separate
<1>3. SingleRule(R[k + 1], dict, C, T)
  BY <1>2 DEF Separate
<1> HIDE DEF C, T
<1>4. C \in Int /\ T \in Seq(Int)
  BY <1>3 DEF SingleRule
<1> DEFINE q == [j \in 1 .. m |-> IF u[j] = <<C>> THEN T ELSE u[j]]
<1>5. q \in [1 .. m -> Seq(Int)] /\ \A j \in 1 .. m : q[j] = IF u[j] = <<C>> THEN T ELSE u[j]
  <2>1. u \in [1 .. m -> Seq(Int)]
    BY <1>1
  <2> QED BY <1>4, <2>1
<1> HIDE DEF q
<1>6. PICK h : Together(h, q, m)
  BY <1>2, <1>5, TogetherExists
<1>7. ASSUME NEW j \in 1 .. m
      PROVE  PartOrPiece(u[j], q[j], C, T) /\ Becomes(R, dict, k + 1, text[j], q[j])
  <2>1. Becomes(R, dict, k, text[j], u[j])
    BY <1>1
  <2> DEFINE a == u[j]
             b == text[j]
             new == IF a = <<C>> THEN T ELSE a
  <2>2. q[j] = new
    BY <1>5
  <2>3. PartOrPiece(a, new, C, T) /\ Becomes(R, dict, k + 1, b, new)
    <3> HIDE DEF a, b
    <3> QED BY <1>3, <2>1, BecomesMore DEF a, b
  <2> QED BY <2>2, <2>3
<1>8. IsReplaced(g[m], C, T, h[m])
  <2>1. Together(g, u, m) /\ Together(h, q, m)
    BY <1>1, <1>6
  <2>2. AllParts(u, q, m, C, T)
    BY <1>1, <1>5, <1>7 DEF AllParts
  <2> HIDE DEF m
  <2> QED BY <1>2, <1>4, <2>1, <2>2, PartsReplaced
<1>9. y \in Seq(Int)
  BY <1>1, <1>2 DEF Together
<1>10. ReplaceBy(R[k + 1], dict, y) = h[m]
  BY <1>1, <1>3, <1>8, <1>9, SingleReplaced DEF IsReplaced
<1> QED BY <1>5, <1>6, <1>7, <1>10 DEF TextBecomes

\* And all of them.
LEMMA TextReplaced ==
    ASSUME NEW R, NEW dict, Separate(R, dict), NEW text \in Seq(Int)
    PROVE  TextBecomes(R, dict, Len(R), text, ReplacedBy(R, dict, text)[Len(R)])
<1> DEFINE n == Len(R)
           f == ReplacedBy(R, dict, text)
           S == { k \in Nat : k <= n => TextBecomes(R, dict, k, text, f[k]) }
<1>1. n \in Nat
  BY DEF Separate
<1>2. f[0] = text /\ \A k \in 1 .. n : f[k] = ReplaceBy(R[k], dict, f[k - 1])
  BY RulesApplied
<1> HIDE DEF f
<1>3. 0 \in S
  BY <1>2, TextBegins
<1>4. ASSUME NEW k \in 0 .. n - 1, k \in S PROVE k + 1 \in S
  <2>1. k <= n /\ k + 1 \in 1 .. n /\ (k + 1) - 1 = k /\ k + 1 \in Nat
    BY <1>1
  <2>2. TextBecomes(R, dict, k, text, f[k])
    BY <1>4, <2>1
  <2>3. TextBecomes(R, dict, k + 1, text, ReplaceBy(R[k + 1], dict, f[k]))
    BY <2>2, TextBecomesMore
  <2>4. f[k + 1] = ReplaceBy(R[k + 1], dict, f[k])
    BY <1>2, <2>1
  <2> QED BY <2>1, <2>3, <2>4
<1> HIDE DEF S, n
<1>5. n \in S
  BY <1>1, <1>3, <1>4, UpTo
<1> QED BY <1>1, <1>5 DEF S, f, n


\* The rules of a type whose lines are single characters.
LEMMA RulesSeparate ==
    ASSUME NEW type \in 1 .. 255, NEW dict, GoodDict(dict), SingleRules(type, dict),
           NEW R, NEW L, Collected(L, R, type, Len(Conf))
    PROVE  Separate(R, dict)
<1> DEFINE n == Len(R)
<1>1. /\ R \in Seq(LineState) /\ n \in Nat /\ \A k \in 1 .. n : L[k] \in 1 .. Len(Conf)
      /\ \A k \in 1 .. n : RuleOf(L[k], type) /\ R[k] = Rule(Conf[L[k]])
      /\ \A j, k \in 1 .. n : j < k => L[j] < L[k]
  BY DEF Collected
<1>2. \A k \in 1 .. n : L[k] \in RuleLines(type)
  <2>1. DOMAIN Conf = 1 .. Len(Conf)
    BY ConfLoads
  <2> QED BY <1>1, <2>1 DEF RuleLines, RuleOf, IsRule
<1>3. \A k \in 1 .. n :
        /\ R[k].op = 61 /\ Len(From(R[k], dict)) = 1
        /\ \A j \in 1 .. n : j < k =>
             First(R[k], dict) \notin ToSet(To(R[j], dict)) \cup {First(R[j], dict)}
  <2> SUFFICES ASSUME NEW k \in 1 .. n
               PROVE  /\ R[k].op = 61 /\ Len(From(R[k], dict)) = 1
                      /\ \A j \in 1 .. n : j < k =>
                           First(R[k], dict) \notin ToSet(To(R[j], dict)) \cup {First(R[j], dict)}
    OBVIOUS
  <2>1. /\ Rule(Conf[L[k]]).op = 61 /\ Len(From(Rule(Conf[L[k]]), dict)) = 1
        /\ \A j \in RuleLines(type) : j < L[k] =>
             From(Rule(Conf[L[k]]), dict)[1] \notin ToSet(To(Rule(Conf[j]), dict))
                                                    \cup {From(Rule(Conf[j]), dict)[1]}
    BY <1>2 DEF SingleRules
  <2>2. \A j \in 1 .. n : j < k => L[j] < L[k] /\ L[j] \in RuleLines(type)
    BY <1>1, <1>2
  <2> HIDE DEF n
  <2> QED BY <1>1, <2>1, <2>2 DEF First
<1>4. ASSUME NEW k \in 1 .. n
      PROVE  SingleRule(R[k], dict, First(R[k], dict), To(R[k], dict))
  <2>1. R[k] \in LineState
    BY <1>1, ElementOfSeq
  <2>2. R[k].from \in Seq(Int) /\ R[k].to \in Seq(Int)
    BY <2>1 DEF LineState
  <2> DEFINE f == From(R[k], dict)
             t == To(R[k], dict)
  <2>3. f \in Seq(Int) /\ t \in Seq(Int)
    BY <2>2, TextGenerated DEF From, To
  <2>4. Len(f) = 1
    BY <1>3
  <2> HIDE DEF f, t
  <2>5. f[1] \in Int /\ f = <<f[1]>>
    <3>1. f[1] \in Int
      <4>1. 1 \in 1 .. Len(f)
        BY <2>4
      <4> QED BY <2>3, <4>1, ElementOfSeq
    <3> DEFINE one == <<f[1]>>
    <3>2. one \in Seq(Int) /\ Len(one) = 1 /\ one[1] = f[1]
      BY <3>1
    <3> HIDE DEF one
    <3>3. \A x \in 1 .. Len(f) : f[x] = one[x]
      BY <2>4, <3>2
    <3>4. f = one
      BY <2>3, <2>4, <3>2, <3>3, SeqEqual
    <3> QED BY <3>1, <3>4 DEF one
  <2> QED BY <1>3, <2>3, <2>5 DEF SingleRule, First, f, t
<1>5. \A k, j \in 1 .. n : j < k => /\ First(R[k], dict) # First(R[j], dict)
                                    /\ First(R[k], dict) \notin ToSet(To(R[j], dict))
  BY <1>3
<1> QED BY <1>1, <1>4, <1>5 DEF Separate

\* What they make of a character is what the line says that names it.
LEMMA CharSubstituted ==
    ASSUME NEW type \in 1 .. 255, NEW dict,
           NEW R, NEW L, Collected(L, R, type, Len(Conf)), Separate(R, dict),
           NEW c \in Int, NEW y, Becomes(R, dict, Len(R), c, y)
    PROVE  y = Substituted(type, dict, c)
<1> DEFINE n == Len(R)
           naming == { j \in RuleLines(type) : From(Rule(Conf[j]), dict) = <<c>> }
           line == CHOOSE j \in naming : TRUE
<1>1. Substituted(type, dict, c) = IF naming = {} THEN <<c>> ELSE To(Rule(Conf[line]), dict)
  BY DEF Substituted
<1>2. /\ \A j : j \in RuleLines(type) => j \in 1 .. Len(Conf) /\ RuleOf(j, type)
      /\ \A j \in 1 .. Len(Conf) : RuleOf(j, type) => j \in RuleLines(type)
  <2>1. DOMAIN Conf = 1 .. Len(Conf)
    BY ConfLoads
  <2> QED BY <2>1 DEF RuleLines, RuleOf, IsRule
<1>3. /\ n \in Nat /\ \A k \in 1 .. n : L[k] \in 1 .. Len(Conf)
      /\ \A k \in 1 .. n : RuleOf(L[k], type) /\ R[k] = Rule(Conf[L[k]])
      /\ \A m \in 1 .. Len(Conf) : RuleOf(m, type) => \E k \in 1 .. n : L[k] = m
  BY DEF Collected
<1>4. \A j \in naming : \E k \in 1 .. n : L[k] = j /\ From(R[k], dict) = <<c>>
  BY <1>2, <1>3
<1>5. \A k \in 1 .. n : From(R[k], dict) = <<c>> => L[k] \in naming
  BY <1>2, <1>3
<1> HIDE DEF n, naming
<1>6. CASE \E x \in 1 .. n : From(R[x], dict) = <<c>> /\ y = To(R[x], dict)
  <2>1. PICK x \in 1 .. n : From(R[x], dict) = <<c>> /\ y = To(R[x], dict)
    BY <1>6
  <2>2. line \in naming
    BY <1>5, <2>1
  <2>3. PICK k \in 1 .. n : L[k] = line /\ From(R[k], dict) = <<c>>
    BY <1>4, <2>2
  <2>4. First(R[k], dict) = First(R[x], dict)
    BY <2>1, <2>3 DEF First
  <2>5. k = x
    <3>1. ~(k < x) /\ ~(x < k)
      BY <2>4 DEF Separate, n
    <3> QED BY <1>3, <3>1
  <2>6. R[k] = Rule(Conf[line])
    BY <1>3, <2>3
  <2> HIDE DEF line
  <2> QED BY <1>1, <2>1, <2>2, <2>5, <2>6
<1>7. CASE (\A x \in 1 .. n : From(R[x], dict) # <<c>>) /\ y = <<c>>
  <2>1. naming = {}
    BY <1>4, <1>7
  <2> QED BY <1>1, <1>7, <2>1
<1> QED BY <1>6, <1>7 DEF Becomes, n

\* So the rules replace every character once.
LEMMA ReplacedOnceIs ==
    ASSUME NEW type \in 1 .. 255, NEW dict, GoodDict(dict), SingleRules(type, dict),
           NEW text \in Seq(Int)
    PROVE  Replaced(type, dict, text) =
               FlattenSeq([j \in DOMAIN text |-> Substituted(type, dict, text[j])])
<1> DEFINE R == CustomRep[type]
           m == Len(text)
           s == [j \in 1 .. m |-> Substituted(type, dict, text[j])]
           y == Replaced(type, dict, text)
<1>1. m \in Nat /\ DOMAIN text = 1 .. m /\ \A j \in 1 .. m : text[j] \in Int
  BY ElementOfSeq
<1>2. PICK L : Collected(L, R, type, Len(Conf))
  BY RulesCollected
<1>3. Separate(R, dict)
  BY <1>2, RulesSeparate
<1>4. TextBecomes(R, dict, Len(R), text, y)
  BY <1>3, TextReplaced DEF Replaced
<1> HIDE DEF R, y
<1>5. PICK u, g :
         /\ u \in [1 .. m -> Seq(Int)] /\ Together(g, u, m) /\ y = g[m]
         /\ \A j \in 1 .. m : Becomes(R, dict, Len(R), text[j], u[j])
  BY <1>4 DEF TextBecomes
<1>6. \A j \in 1 .. m : u[j] = Substituted(type, dict, text[j])
  BY <1>1, <1>2, <1>3, <1>5, CharSubstituted
<1>7. u = s
  <2>1. u \in [1 .. m -> Seq(Int)]
    BY <1>5
  <2> QED BY <1>6, <2>1
<1> HIDE DEF s
<1>8. FlattenSeq(u) = g[m]
  BY <1>1, <1>5, FlattenTogether
<1> QED BY <1>1, <1>5, <1>7, <1>8 DEF s, y

-----------------------------------------------------------------------------
(* The texts that parse_data returns.                                       *)

\* Where the text of a section is, among those that are shown.
LEMMA ShownAt ==
    ASSUME NEW sections, NEW dict, Len(sections) \in Nat,
           NEW k \in 1 .. Len(sections), Shown(sections[k])
    PROVE  LET shown == ShownOf(sections, dict)
           IN  shown[Len(sections)][Len(shown[k])].out =
                   Replaced(sections[k].type, dict, sections[k].body)
<1> DEFINE n == Len(sections)
           shown == ShownOf(sections, dict)
           Of(s) == [type |-> s.type, out |-> Replaced(s.type, dict, s.body)]
           V == { Of(sections[j]) : j \in 1 .. n }
           T == { j \in Nat : j <= n => shown[j] \in Seq(V) }
<1>1. n \in Nat
  OBVIOUS
<1>2. shown[0] = <<>> /\ \A j \in 1 .. n : shown[j] = AddShown(shown[j - 1], sections[j], dict)
  BY ShownGrows
<1>3. \A j \in 1 .. n : shown[j] = IF Shown(sections[j]) THEN Append(shown[j - 1], Of(sections[j]))
                                   ELSE shown[j - 1]
  BY <1>2 DEF AddShown
<1> HIDE DEF n, shown, Of
<1>4. \A j \in 1 .. n : Of(sections[j]) \in V
  OBVIOUS
<1> HIDE DEF V
<1>5. 0 \in T
  <2>1. <<>> \in Seq(V)
    OBVIOUS
  <2> QED BY <1>2, <2>1
<1>6. ASSUME NEW j \in 0 .. n - 1, j \in T PROVE j + 1 \in T
  <2>1. j <= n /\ j + 1 \in 1 .. n /\ (j + 1) - 1 = j /\ j + 1 \in Nat
    BY <1>1
  <2>2. shown[j] \in Seq(V) /\ Of(sections[j + 1]) \in V
    BY <1>4, <1>6, <2>1
  <2> DEFINE more == Append(shown[j], Of(sections[j + 1]))
  <2>3. more \in Seq(V)
    BY <2>2
  <2>4. shown[j + 1] = more \/ shown[j + 1] = shown[j]
    BY <1>3, <2>1
  <2> HIDE DEF more
  <2> QED BY <2>1, <2>2, <2>3, <2>4
<1>7. \A j \in 0 .. n : shown[j] \in Seq(V)
  <2> SUFFICES ASSUME NEW j \in 0 .. n PROVE shown[j] \in Seq(V)
    OBVIOUS
  <2>1. j \in Nat /\ j <= n /\ \A l \in 0 .. j - 1 : l \in 0 .. n - 1
    BY <1>1
  <2> HIDE DEF T
  <2>2. j \in T
    BY <1>5, <1>6, <2>1, UpTo
  <2> QED BY <2>1, <2>2 DEF T
<1> HIDE DEF T
<1> DEFINE place == Len(shown[k])
           e == Of(sections[k])
           Has(q) == q \in Seq(V) /\ place <= Len(q) /\ q[place] = e
           S == { d \in Nat : k + d <= n => Has(shown[k + d]) }
<1>8. k \in 1 .. n /\ k - 1 \in 0 .. n /\ k \in 0 .. n
  BY <1>1 DEF n
<1>9. Has(shown[k]) /\ place \in Nat \ {0}
  <2> DEFINE b == shown[k - 1]
  <2>1. b \in Seq(V) /\ e \in V
    BY <1>4, <1>7, <1>8
  <2>2. shown[k] = Append(b, e)
    BY <1>3, <1>8
  <2> HIDE DEF b, e
  <2>3. Append(b, e) \in Seq(V) /\ Len(Append(b, e)) \in Nat \ {0} /\ Append(b, e)[Len(Append(b, e))] = e
    BY <2>1
  <2> QED BY <2>2, <2>3
<1> HIDE DEF place, e, Has
<1>10. 0 \in S
  <2>1. k + 0 = k
    BY <1>8
  <2> QED BY <1>9, <2>1
<1>11. ASSUME NEW d \in 0 .. (n - k) - 1, d \in S PROVE d + 1 \in S
  <2> DEFINE j == k + d
  <2>1. j <= n /\ j + 1 \in 1 .. n /\ (j + 1) - 1 = j /\ k + (d + 1) = j + 1 /\ d \in Nat /\ d + 1 \in Nat
    BY <1>1, <1>8
  <2>2. Has(shown[j])
    BY <1>11, <2>1
  <2> HIDE DEF j
  <2> DEFINE b == shown[j]
             x == Of(sections[j + 1])
             more == Append(b, x)
  <2>3. x \in V /\ b \in Seq(V) /\ place <= Len(b) /\ b[place] = e
    BY <1>4, <2>1, <2>2 DEF Has
  <2>4. shown[j + 1] = more \/ shown[j + 1] = b
    BY <1>3, <2>1
  <2> HIDE DEF b, x
  <2>5. place \in 1 .. Len(b) /\ Len(b) \in Nat
    BY <1>9, <2>3
  <2>6. more \in Seq(V) /\ Len(more) = Len(b) + 1 /\ \A y \in 1 .. Len(b) : more[y] = b[y]
    BY <2>3
  <2> HIDE DEF more
  <2>7. Has(more)
    BY <2>3, <2>5, <2>6 DEF Has
  <2>8. Has(shown[j + 1])
    BY <2>2, <2>4, <2>7 DEF b
  <2> QED BY <2>1, <2>8
<1> HIDE DEF S
<1>12. n - k \in S
  <2>1. n - k \in Nat
    BY <1>1, <1>8
  <2> QED BY <1>10, <1>11, <2>1, UpTo
<1>13. Has(shown[n])
  <2>1. k + (n - k) = n /\ n - k \in Nat
    BY <1>1, <1>8
  <2>2. k + (n - k) <= n => Has(shown[k + (n - k)])
    BY <1>12 DEF S
  <2> QED BY <1>1, <2>1, <2>2
<1>14. shown[n][place] = Of(sections[k])
  BY <1>13 DEF Has, e
<1> QED BY <1>14 DEF shown, place, n, Of

\* A dictionary of a library.
LEMMA DictsAreGood ==
    ASSUME NEW lib \in Libraries, NEW d \in DOMAIN lib
    PROVE  GoodDict(lib[d])
<1> DEFINE B == 1 .. 255
<1>1. lib[d].path \in Seq(B) /\ lib[d].name \in Seq(B) /\ B \subseteq Int
  BY LibrariesAssumption
<1> HIDE DEF B
<1>2. lib[d].path \in Seq(Int) /\ lib[d].name \in Seq(Int)
  BY <1>1, SeqMonotonic
<1> QED BY <1>2 DEF GoodDict

\* So every text has the rules of its type applied, each character once.
LEMMA ReplacedMeans == Filling /\ ParsedIsWritten => ReplacedOnce
<1> SUFFICES ASSUME Filling, ParsedIsWritten, pc = "parsed", Parsable,
                    NEW k \in DOMAIN Sections, Shown(Sections[k]),
                    SingleRules(Sections[k].type, dicts[at.dict])
             PROVE  res[Len(ShownOf(Sections, dicts[at.dict])[k])].out =
                        FlattenSeq([j \in DOMAIN Sections[k].body |->
                            Substituted(Sections[k].type, dicts[at.dict], Sections[k].body[j])])
  BY DEF ReplacedOnce
<1> DEFINE s == Sections[k]
           dict == dicts[at.dict]
<1>1. dicts \in Libraries /\ Located(dicts, at)
  BY DEF Filling, Working
<1>2. Legal(Types, Sections)
  BY <1>1, LegalHere
<1>3. GoodDict(dict)
  BY <1>1, DictsAreGood DEF Located
<1>4. DOMAIN Sections = 1 .. Len(Sections) /\ Len(Sections) \in Nat /\ GoodSection(s)
  BY <1>2, SectionsAre
<1>5. s.type \in 1 .. 255 /\ s.body \in Seq(Int)
  BY <1>4, BodyCells DEF GoodSection, Section, Cells
<1>6. res = ShownOf(Sections, dict)[Len(Sections)]
  BY DEF ParsedIsWritten
<1>7. res[Len(ShownOf(Sections, dict)[k])].out = Replaced(s.type, dict, s.body)
  BY <1>4, <1>6, ShownAt
<1>8. Replaced(s.type, dict, s.body) =
          FlattenSeq([j \in DOMAIN s.body |-> Substituted(s.type, dict, s.body[j])])
  BY <1>3, <1>5, ReplacedOnceIs
<1> QED BY <1>7, <1>8

\* The rules of format.conf that are single characters are applied together: every
\* character of a text is replaced once, by the line that names it, for every
\* format.conf, every library and every article whose types parse_data knows and whose
\* sizes are in the byte order of the host.
THEOREM RulesApplyOnce == Spec => []ReplacedOnce
BY ArticleInvariance, AllIsParsed, ReplacedMeans, PTL

=============================================================================
