------------------------------- MODULE UrlText -------------------------------
(***************************************************************************)
(* The texts of a request: how a browser writes a word into an address     *)
(* (external), and how httplib.h takes the address apart again.  A text is *)
(* the sequence of its bytes.                                              *)
(***************************************************************************)
EXTENDS Integers, Sequences, SequencesExt, FiniteSets, FiniteSetsExt

Bytes == 0 .. 255

NUL == 0
Space == 32
Percent == 37
Ampersand == 38
Plus == 43
Minus == 45
Dot == 46
Slash == 47
Equals == 61
Digits == 48 .. 57
Letters == 65 .. 90 \cup 97 .. 122

\* c_str(): what a C function sees of a text.
CString(s) == LET end == Min({ k \in DOMAIN s : s[k] = NUL } \cup {Len(s) + 1})
              IN  SubSeq(s, 1, end - 1)
-----------------------------------------------------------------------------
(* split, is_hex, from_hex_to_i, to_utf8, decode_url.                       *)

\* The n-th number of a set, and what stands at some places of a sequence.
Nth(S, n) == CHOOSE k \in S : Cardinality({ j \in S : j < k }) = n - 1
Picked(s, places) == [n \in 1 .. Cardinality(places) |-> s[Nth(places, n)]]

\* The fields between the separators; an empty text has none.
Split(s, d) ==
    LET cuts == { k \in DOMAIN s : s[k] = d } \cup {0, Len(s) + 1}
    IN  IF s = <<>> THEN <<>>
        ELSE [n \in 1 .. Cardinality(cuts) - 1 |->
                SubSeq(s, Nth(cuts, n) + 1, Nth(cuts, n + 1) - 1)]

IsHex(c) == c \in Digits \cup 65 .. 70 \cup 97 .. 102
HexValue(c) == CASE c \in Digits -> c - 48 [] c \in 65 .. 70 -> c - 55 [] OTHER -> c - 87
HexNumber(s) ==
    LET val[k \in 0 .. Len(s)] == IF k = 0 THEN 0 ELSE val[k - 1] * 16 + HexValue(s[k])
    IN  val[Len(s)]

\* Whether cnt hex digits stand at place k.
HexAt(s, k, cnt) == k + cnt - 1 <= Len(s) /\ \A j \in k .. k + cnt - 1 : IsHex(s[j])

\* The bytes of a code below 10000 (hex); the surrogates D800 to DFFF have none.
ToUtf8(code) ==
    CASE code < 128 -> <<code>>
      [] code \in 128 .. 2047 -> <<192 + (code \div 64), 128 + (code % 64)>>
      [] code \in 55296 .. 57343 -> <<>>
      [] OTHER -> <<224 + (code \div 4096), 128 + ((code \div 64) % 64), 128 + (code % 64)>>

\* A slip: after %XX the decoding goes on one byte early.
DecodeUrlStepsShort(s) ==
    LET from[k \in 1 .. Len(s) + 1] ==
            CASE k > Len(s) -> <<>>
              [] k <= Len(s) /\ s[k] = Percent /\ HexAt(s, k + 1, 2) ->
                     <<HexNumber(SubSeq(s, k + 1, k + 2))>> \o from[k + 2]
              [] OTHER -> <<IF s[k] = Plus THEN Space ELSE s[k]>> \o from[k + 1]
    IN  from[1]

\* %uXXXX is a code, %XX a byte, + a blank; a % that neither follows is itself.
DecodeUrl(s) ==
    LET letterU == 117
        Code(k) == k < Len(s) /\ s[k] = Percent /\ s[k + 1] = letterU /\ HexAt(s, k + 2, 4)
        Byte(k) == s[k] = Percent /\ HexAt(s, k + 1, 2)
        from[k \in 1 .. Len(s) + 1] ==
            CASE k > Len(s) -> <<>>
              [] k <= Len(s) /\ Code(k) -> ToUtf8(HexNumber(SubSeq(s, k + 2, k + 5))) \o from[k + 6]
              [] k <= Len(s) /\ Byte(k) -> <<HexNumber(SubSeq(s, k + 1, k + 2))>> \o from[k + 3]
              [] OTHER -> <<IF s[k] = Plus THEN Space ELSE s[k]>> \o from[k + 1]
    IN  from[1]
-----------------------------------------------------------------------------
(* parse_query_text, and the parameters of a request.                       *)

\* The first field that is not empty is the key, the last one after it the value.
Param(s) ==
    LET fields == Split(s, Equals)
        named == { k \in DOMAIN fields : fields[k] # <<>> }
    IN  [key |-> IF named = {} THEN <<>> ELSE fields[Min(named)],
         val |-> IF named = {} \/ named = {Len(fields)} THEN <<>> ELSE DecodeUrl(Last(fields))]

ParseQueryText(s) == [k \in DOMAIN Split(s, Ampersand) |-> Param(Split(s, Ampersand)[k])]

Having(params, key) == { k \in DOMAIN params : params[k].key = key }
HasParam(params, key) == Having(params, key) # {}
GetParamValue(params, key) ==
    IF HasParam(params, key) THEN params[Min(Having(params, key))].val ELSE <<>>
-----------------------------------------------------------------------------
(* is_valid_path, and what the system makes of a path (external).           *)

DotDot == <<Dot, Dot>>
Components(path) ==
    LET names == Split(path, Slash)
    IN  Picked(names, { k \in DOMAIN names : names[k] \notin {<<>>, <<Dot>>} })

\* How far below the directory a path is after its first n components.
Level(parts, n) == n - 2 * Cardinality({ k \in 1 .. n : parts[k] = DotDot })

\* The path never climbs above the directory.
IsValidPath(path) == \A n \in DOMAIN Components(path) : Level(Components(path), n) >= 0

\* Where a path leads from a directory: the components that no later DotDot takes
\* back, and the DotDots that climb above it.
Stays(parts, k) ==
    IF parts[k] = DotDot THEN \A j \in 0 .. k - 1 : Level(parts, j) > Level(parts, k)
    ELSE \A j \in k .. Len(parts) : Level(parts, j) >= Level(parts, k)
Resolve(path) ==
    LET parts == Components(path) IN Picked(parts, { k \in DOMAIN parts : Stays(parts, k) })
-----------------------------------------------------------------------------
(* strtol() and strtoul() of a whole text, in the handler of /neigh.        *)

IsNumber(s) == s = <<>> \/ (\A k \in DOMAIN s : s[k] \in Digits)
Number(s) ==
    LET val[k \in 0 .. Len(s)] == IF k = 0 THEN 0 ELSE val[k - 1] * 10 + (s[k] - 48)
    IN  val[Len(s)]

\* The number, or def when anything but digits stands there; nothing is 0.  The
\* code looks at what follows the number in a temporary text that is gone by
\* then; one of up to 15 characters, as here, is still found where it was.
Strtoul(s, def) == IF IsNumber(s) THEN Number(s) ELSE def
Strtol(s, def) ==
    IF Len(s) > 1 /\ s[1] = Minus /\ IsNumber(Tail(s)) THEN -Number(Tail(s))
    ELSE Strtoul(s, def)
-----------------------------------------------------------------------------
(* A browser: forms and jQuery write a blank as +, a link as %20.           *)

HexDigit(n) == IF n < 10 THEN 48 + n ELSE 55 + n
Unreserved == Digits \cup Letters \cup {Minus, Dot}
EncodeURIComponent(s, blank) ==
    FlattenSeq([k \in DOMAIN s |->
        IF s[k] \in Unreserved THEN <<s[k]>>
        ELSE IF s[k] = Space THEN blank
        ELSE <<Percent, HexDigit(s[k] \div 16), HexDigit(s[k] % 16)>>])
Blanks == { <<Plus>>, <<Percent, 50, 48>> }
=============================================================================
