----------------------------- MODULE ResponseOut -----------------------------
(***************************************************************************)
(* The output template: what the constructor of ResponseOut makes of the   *)
(* file, and what make_content makes of the results.  A template is the    *)
(* sequence of its texts, variables {{x}}, markers {{m:c}} and loops       *)
(* {{for:}} {{endfor:}}; the content that of the texts and values put out. *)
(* The name of a variable is the sequence of its letters.                  *)
(***************************************************************************)
EXTENDS Integers, Sequences, SequencesExt

TextToken(text) == [t |-> "text", text |-> text]
VarToken(key) == [t |-> "var", text |-> key]
MarkerToken(flag) == [t |-> "marker", flag |-> flag]
ForToken == [t |-> "for"]
EndForToken == [t |-> "endfor"]
Tokens == {"text", "var", "marker", "for", "endfor"}

\* The value of a variable, and whether it is put out as a JSON string.
Value(of, escaped) == [value |-> of, json |-> escaped]
FirstLetter(key) == SubSeq(key, 1, 1)
STR == <<"s", "t", "r">>
IDX == <<"i", "d", "x">>
WORD == <<"w", "o", "r", "d">>
DEFINITION == <<"d", "e", "f", "i", "n", "i", "t", "i", "o", "n">>
BOOKNAME == <<"b", "o", "o", "k", "n", "a", "m", "e">>
-----------------------------------------------------------------------------
(* The constructor.                                                         *)

MarkerHolder(flag) == [holderType |-> "M", flag |-> flag]
TextHolder(token, marker) ==
    [holderType |-> "T", text |-> token.text, var |-> token.t = "var", flag |-> marker]
ForHolder == [holderType |-> "F", innerHolder |-> <<>>]

\* pusher: to the loop that was begun last, while one is open.
Push(s, th) ==
    IF s.stateflag > 0
    THEN [s EXCEPT !.elements[Len(s.elements)].innerHolder = Append(@, th)]
    ELSE [s EXCEPT !.elements = Append(@, th)]

EndFor(s) == [s EXCEPT !.stateflag = @ - 1]

ParseToken(s, token) ==
    CASE token.t \in {"text", "var"} -> Push(s, TextHolder(token, s.marker))
      [] token.t = "marker" -> Push([s EXCEPT !.marker = token.flag], MarkerHolder(token.flag))
      [] token.t = "for" -> [Push(s, ForHolder) EXCEPT !.stateflag = @ + 1]
      [] OTHER -> EndFor(s)
Begun == [elements |-> <<>>, stateflag |-> 0, marker |-> "none"]
Elements(template) ==
    LET read[k \in 0 .. Len(template)] ==
            IF k = 0 THEN Begun ELSE ParseToken(read[k - 1], template[k])
    IN  read[Len(template)].elements
-----------------------------------------------------------------------------
(* make_content.                                                            *)

\* The variables outside a loop, and in turn n of one, by their first letter.
WrapGetter(str, key) == IF key = STR THEN <<"str", str>> ELSE <<>>
ForFunc(res_list, n, str, key) ==
    CASE FirstLetter(key) = <<"i">> -> <<"idx", n>>
      [] FirstLetter(key) = <<"w">> -> <<"word", res_list[n]>>
      [] FirstLetter(key) = <<"d">> -> <<"definition", res_list[n]>>
      [] FirstLetter(key) = <<"b">> -> <<"bookname", res_list[n]>>
      [] OTHER -> WrapGetter(str, key)

\* TextHolder::toString; a marker or a loop inside a loop puts out nothing.
Put1(th, value) == IF th.var THEN Value(value, th.flag = "j") ELSE th.text
LoopTurn(fh, res_list, n, str) ==
    FlattenSeq([k \in DOMAIN fh.innerHolder |->
        LET th == fh.innerHolder[k] IN
        IF th.holderType = "T" THEN <<Put1(th, ForFunc(res_list, n, str, th.text))>> ELSE <<>>])
ForHolderToString(fh, res_list, str) ==
    FlattenSeq([n \in DOMAIN res_list |-> LoopTurn(fh, res_list, n, str)])

\* Without isWrap only what follows a marker b is put out, and what no marker precedes.
Outputs(elements, k, isWrap) ==
    LET markers == { j \in 1 .. k : elements[j].holderType = "M" }
        last == CHOOSE j \in markers : \A i \in markers : i <= j
    IN  isWrap \/ markers = {} \/ elements[last].flag = "b"
ElementToString(elem, res_list, str) ==
    CASE elem.holderType = "M" -> <<>>
      [] elem.holderType = "T" -> <<Put1(elem, WrapGetter(str, elem.text))>>
      [] elem.holderType = "F" -> ForHolderToString(elem, res_list, str)

MakeContent(template, isWrap, res_list, str) ==
    LET elements == Elements(template) IN
    FlattenSeq([k \in DOMAIN elements |->
        IF Outputs(elements, k, isWrap) THEN ElementToString(elements[k], res_list, str) ELSE <<>>])
=============================================================================
