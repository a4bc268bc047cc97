------------------------------ MODULE HttpServer ------------------------------
(***************************************************************************)
(* httplib::Server as main() of sdwv.cpp runs it: the accept loop answers  *)
(* one connection at a time and closes it, version HTTP/1.0 knowing no     *)
(* keep-alive.  The server runs beside its clients, who connect, send      *)
(* their request piece by piece, stop in the middle, close or break the    *)
(* connection.  What process_phrase and get_neighbour make of a word is    *)
(* the subject of Query and LibsCursor; here it is the record of a call.   *)
(***************************************************************************)
EXTENDS UrlText

CONSTANTS
    Clients,
    Requests,       \* what a client may ask: see Tokens
    Backlog,        \* how many connections may wait for accept()
    DataFiles,      \* the files there are: the paths to them from the data directory
    None            \* no connection, no file

ASSUME NoneAssumption == None \notin Clients \cup DataFiles

VARIABLES
    asked,      \* the request of each client
    todo,       \* what the client has yet to send, piece by piece
    peer,       \* its end of the connection
    wire,       \* what it sent and the server has not read
    answer,     \* what it got back
    backlog,    \* the connections that wait for accept(), in their order
    conn, pc,   \* the connection that is served, and what runs
    req, rout,  \* the request as far as it is read, the library's page buffer
    left,       \* how much of the body is still to come
    res         \* the response

clientvars == <<asked, todo, peer>>
servervars == <<backlog, conn, pc, req, rout, left, res>>
vars == <<clientvars, wire, answer, servervars>>
-----------------------------------------------------------------------------
(* What goes over a connection (external): request and header lines, the    *)
(* empty line "end", bytes of the body, lines of a chunked body, and the    *)
(* part of a line that nothing follows.                                     *)

Junk == [tok |-> "junk"]
Part == [tok |-> "part"]
End == [tok |-> "end"]
Byte == [tok |-> "byte"]
Size(n) == [tok |-> "size", size |-> n]
Header(name, value) == [tok |-> "header", name |-> name, value |-> value]
Line(method, path, query) ==
    [tok |-> "line", method |-> method, path |-> path, query |-> query]
IsLine(t) == t.tok # "byte"

\* The names of the parameters, as autohint.js and the form of out.htm send them.
KeyW == <<119>>
KeyCo == <<99, 111>>
KeyOff == <<111, 102, 102>>
KeyLen == <<108, 101, 110>>
Root == <<Slash>>
Neigh == <<Slash, 110, 101, 105, 103, 104>>

\* What is asked for by address, by GET or HEAD: a word without a NUL, numbers that mean
\* what strtol() makes of them, and a path of which nothing has to be encoded.
Gets == {"search", "content", "neigh", "file"}
Texts == Seq(1 .. 255)
ASSUME RequestsAssumption ==
    \A r \in Requests :
        /\ r.op \in Gets => r.method \in {"GET", "HEAD"}
        /\ r.op \in {"search", "content", "neigh"} => r.word \in Texts /\ r.blank \in Blanks
        /\ r.op = "neigh" => /\ r.off \in Texts /\ r.means.off = Strtol(r.off, 0)
                            /\ r.len \in Texts /\ r.means.len = Strtoul(r.len, 10)
        /\ r.op = "file" => /\ r.path \in Seq(1 .. 255 \ {Percent, Plus})
                           /\ r.path \notin {<<>>, Root, Neigh}

KeyVal(key, val, blank) == key \o <<Equals>> \o EncodeURIComponent(val, blank)
Query(r) ==
    LET w == KeyVal(KeyW, r.word, r.blank) IN
    CASE r.op = "search" -> w
      [] r.op = "content" -> w \o <<Ampersand>> \o KeyVal(KeyCo, <<99>>, r.blank)
      [] r.op = "neigh" -> w \o <<Ampersand>> \o KeyVal(KeyOff, r.off, r.blank)
                             \o <<Ampersand>> \o KeyVal(KeyLen, r.len, r.blank)
      [] OTHER -> <<>>
Path(r) == CASE r.op \in {"search", "content"} -> Root
             [] r.op = "neigh" -> Neigh
             [] OTHER -> r.path

\* A chunked body is one chunk and the last, empty one.
Body(r) ==
    CASE r.op # "post" -> <<>>
      [] r.op = "post" /\ r.body = "chunked" ->
             <<Size(r.size)>> \o [k \in 1 .. r.size |-> Byte] \o <<End, Size(0), End>>
      [] OTHER -> [k \in 1 .. r.size |-> Byte]
Headers(r) ==
    CASE r.op = "post" /\ r.body = "length" -> <<Header("Content-Length", r.size)>>
      [] r.op = "post" /\ r.body = "chunked" -> <<Header("Transfer-Encoding", "chunked")>>
      [] r.op = "post" /\ r.body = "multipart" ->
             <<Header("Content-Length", r.size), Header("Content-Type", "multipart")>>
      [] r.op = "search" -> <<Header("Host", "any")>>
      [] OTHER -> <<>>
Tokens(r) ==
    IF r.op = "junk" THEN <<Junk, End>>
    ELSE <<Line(r.method, Path(r), Query(r))>> \o Headers(r) \o <<End>> \o Body(r)

\* A client before it asks; a request and a response as the server makes them; and
\* an answer that never arrived.
Unasked == [op |-> "none"]
NoRequest == [method |-> "", path |-> <<>>, params |-> <<>>, headers |-> <<>>]
NoResponse == [status |-> -1, body |-> <<>>]
Lost == [status |-> 0, body |-> <<>>]
-----------------------------------------------------------------------------
Init ==
    /\ asked = [c \in Clients |-> Unasked]
    /\ todo = [c \in Clients |-> <<>>]
    /\ peer = [c \in Clients |-> "away"]
    /\ wire = [c \in Clients |-> <<>>]
    /\ answer = [c \in Clients |-> NoResponse]
    /\ backlog = <<>> /\ conn = None /\ pc = "accept"
    /\ req = NoRequest /\ rout = <<>> /\ left = 0 /\ res = NoResponse

(* The clients (external).                                                  *)

Connect(c) ==
    /\ peer[c] = "away"
    /\ pc # "exited" /\ Len(backlog) < Backlog
    /\ \E r \in Requests : /\ asked' = [asked EXCEPT ![c] = r]
                           /\ todo' = [todo EXCEPT ![c] = Tokens(r)]
    /\ peer' = [peer EXCEPT ![c] = "open"]
    /\ backlog' = Append(backlog, c)
    /\ UNCHANGED <<wire, answer, conn, pc, req, rout, left, res>>

Send(c) ==
    /\ peer[c] = "open" /\ todo[c] # <<>>
    /\ wire' = [wire EXCEPT ![c] = Append(@, Head(todo[c]))]
    /\ todo' = [todo EXCEPT ![c] = Tail(@)]
    /\ UNCHANGED <<asked, peer, answer, servervars>>

\* Everything is sent, and the client says so: shutdown() of its sending side.
Finish(c) ==
    /\ peer[c] = "open" /\ todo[c] = <<>>
    /\ peer' = [peer EXCEPT ![c] = "half"]
    /\ UNCHANGED <<asked, todo, wire, answer, servervars>>

\* The client closes, perhaps in the middle of a line.
Leave(c) ==
    /\ peer[c] \in {"open", "half"}
    /\ peer' = [peer EXCEPT ![c] = "gone"]
    /\ \E cut \in BOOLEAN :
         /\ cut => todo[c] # <<>> /\ IsLine(Head(todo[c]))
         /\ wire' = IF cut THEN [wire EXCEPT ![c] = Append(@, Part)] ELSE wire
    /\ todo' = [todo EXCEPT ![c] = <<>>]
    /\ UNCHANGED <<asked, answer, servervars>>

\* The connection breaks, and what was not read is lost.
Break(c) ==
    /\ peer[c] \in {"open", "half", "gone"}
    /\ peer' = [peer EXCEPT ![c] = "broken"]
    /\ wire' = [wire EXCEPT ![c] = <<>>] /\ todo' = [todo EXCEPT ![c] = <<>>]
    /\ UNCHANGED <<asked, answer, servervars>>
-----------------------------------------------------------------------------
(* Server::listen.                                                          *)

Accept ==
    /\ pc = "accept" /\ backlog # <<>>
    /\ conn' = Head(backlog) /\ backlog' = Tail(backlog)
    /\ pc' = "line" /\ req' = NoRequest
    /\ UNCHANGED <<clientvars, wire, answer, rout, left, res>>

\* The listening socket is closed, listen() returns and the program ends.
AcceptFails ==
    /\ pc = "accept"
    /\ pc' = "exited" /\ backlog' = <<>>
    /\ peer' = [c \in Clients |-> IF c \in ToSet(backlog) THEN "broken" ELSE peer[c]]
    /\ UNCHANGED <<asked, todo, wire, answer, conn, req, rout, left, res>>
-----------------------------------------------------------------------------
(* process_request: what is read.                                           *)

Broken == peer[conn] = "broken"
AtEnd == wire[conn] = <<>> /\ peer[conn] \in {"half", "gone"}
Arrived == wire[conn] # <<>>
Next1 == Head(wire[conn])
Take(n) == wire' = [wire EXCEPT ![conn] = SubSeq(@, n + 1, Len(@))]
UnchangedReading == UNCHANGED <<clientvars, answer, backlog, conn, rout>>

Respond(status, body) == res' = [status |-> status, body |-> body] /\ pc' = "write"
BadRequest == Respond(400, <<>>)
GoOn(where) == pc' = where /\ UNCHANGED res

\* The function f; TLC works its values out once, and not at every use.
Tabulated(f) == CHOOSE g \in {f} : g = f

\* parse_request_line: the path and the parameters, decoded; of every request line.
Lines == { Tokens(r)[1] : r \in { q \in Requests : q.op # "junk" } }
ParseRequestLine ==
    Tabulated([line \in Lines |-> [method |-> line.method, path |-> DecodeUrl(line.path),
                                   params |-> ParseQueryText(line.query), headers |-> <<>>]])

\* A slip: a request is answered before its headers are read.
RequestLineOnly ==
    /\ pc = "line"
    /\ \/ /\ Arrived /\ Take(1)
          /\ IF Next1.tok = "line"
             THEN /\ req' = ParseRequestLine[Next1]
                  /\ GoOn(IF Next1.method = "POST" THEN "headers" ELSE "route")
             ELSE UNCHANGED req /\ BadRequest
       \/ (AtEnd \/ Broken) /\ GoOn("close") /\ UNCHANGED <<wire, req>>
    /\ UNCHANGED left /\ UnchangedReading

\* When there is no line at all nothing is answered.
RequestLine ==
    /\ pc = "line"
    /\ \/ /\ Arrived /\ Take(1)
          /\ IF Next1.tok = "line"
             THEN req' = ParseRequestLine[Next1] /\ GoOn("headers")
             ELSE UNCHANGED req /\ BadRequest
       \/ (AtEnd \/ Broken) /\ GoOn("close") /\ UNCHANGED <<wire, req>>
    /\ UNCHANGED left /\ UnchangedReading

\* read_headers: up to the empty line; a line that is no header is passed over.
ReadHeader ==
    /\ pc = "headers"
    /\ \/ /\ Arrived /\ Next1 # End /\ Take(1)
          /\ req' = IF Next1.tok = "header" THEN [req EXCEPT !.headers = Append(@, Next1)]
                    ELSE req
          /\ GoOn("headers")
       \/ (AtEnd \/ Broken) /\ BadRequest /\ UNCHANGED <<wire, req>>
    /\ UNCHANGED left /\ UnchangedReading

GetHeaderValue(name, def) ==
    LET at == { k \in DOMAIN req.headers : req.headers[k].name = name }
    IN  IF at = {} THEN def ELSE req.headers[Min(at)].value
ContentLength == GetHeaderValue("Content-Length", 0)
Method == req.method

\* A slip: every request has a body.
ReadContentAlways == TRUE

\* Only a POST request has a body.
ReadContent == Method = "POST"

\* read_content: by its length, in chunks, or up to the end of the connection.
EndOfHeaders ==
    /\ pc = "headers" /\ Arrived /\ Next1 = End /\ Take(1)
    /\ left' = ContentLength
    /\ GoOn(CASE ~ReadContent -> "route"
              [] ReadContent /\ ContentLength # 0 -> "length"
              [] ReadContent /\ ContentLength = 0 ->
                     IF GetHeaderValue("Transfer-Encoding", "") = "chunked" THEN "size" ELSE "toend")
    /\ UNCHANGED req /\ UnchangedReading

ReadWithLength ==
    /\ pc = "length"
    /\ \/ Arrived /\ Take(1) /\ left' = left - 1
          /\ GoOn(IF left = 1 THEN "route" ELSE "length")
       \/ (AtEnd \/ Broken) /\ BadRequest /\ UNCHANGED <<wire, left>>
    /\ UNCHANGED req /\ UnchangedReading

ReadWithoutLength ==
    /\ pc = "toend"
    /\ \/ Arrived /\ Take(1) /\ GoOn("toend")
       \/ AtEnd /\ GoOn("route") /\ UNCHANGED wire
       \/ Broken /\ BadRequest /\ UNCHANGED wire
    /\ UNCHANGED <<req, left>> /\ UnchangedReading

\* read_content_chunked.  The size of a chunk; part of one may read as any number,
\* and what follows the last, empty chunk is left unread.
ChunkSize ==
    /\ pc = "size"
    /\ \/ /\ Arrived /\ Next1.tok = "size" /\ Take(1)
          /\ left' = Next1.size
          /\ GoOn(IF left' = 0 THEN "route" ELSE "chunk")
       \/ Arrived /\ Next1 = Part /\ Take(1) /\ UNCHANGED left /\ (GoOn("route") \/ BadRequest)
       \/ (AtEnd \/ Broken) /\ BadRequest /\ UNCHANGED <<wire, left>>
    /\ UNCHANGED req /\ UnchangedReading

\* One recv(), which returns what is there of the chunk.
Here == LET ends == { k \in DOMAIN wire[conn] : IsLine(wire[conn][k]) }
        IN  Min(ends \cup {Len(wire[conn]) + 1}) - 1
Chunk ==
    /\ pc = "chunk"
    /\ \/ Arrived /\ Take(Min({Here, left})) /\ GoOn("chunkend")
       \/ (AtEnd \/ Broken) /\ BadRequest /\ UNCHANGED wire
    /\ UNCHANGED <<req, left>> /\ UnchangedReading

\* The line after a chunk: when it is not empty, the rest of a chunk of which only
\* part was there, the reading stops as if all was read.
ChunkEnd ==
    /\ pc = "chunkend"
    /\ \/ Here < Len(wire[conn]) /\ Take(Here + 1)
          /\ GoOn(IF Here = 0 /\ Next1 = End THEN "size" ELSE "route")
       \/ /\ Here = Len(wire[conn]) /\ (Broken \/ peer[conn] \in {"half", "gone"})
          /\ Take(Here)
          /\ IF Here = 0 THEN BadRequest ELSE GoOn("route")
    /\ UNCHANGED <<req, left>> /\ UnchangedReading
-----------------------------------------------------------------------------
(* routing, the handlers of sdwv.cpp, and what is written.                  *)

IndexHtml == <<105, 110, 100, 101, 120, 46, 104, 116, 109, 108>>

\* The data directory has no file where the handlers of main() are: neither has dist.
ASSUME DataFilesAssumption == {<<IndexHtml>>, <<Tail(Neigh)>>} \cap DataFiles = {}

\* A slip: any path is good.
FileOfAny(path) ==
    LET where == Resolve(IF Last(path) = Slash THEN path \o IndexHtml ELSE path)
    IN  IF where \in DataFiles THEN where ELSE None

\* handle_file_request: the file that a path leads to, if it is valid.
FileOf(path) ==
    LET where == Resolve(IF Last(path) = Slash THEN path \o IndexHtml ELSE path)
    IN  IF IsValidPath(path) /\ where \in DataFiles THEN where ELSE None
HandleFileRequest == Tabulated([path \in { DecodeUrl(line.path) : line \in Lines } |-> FileOf(path)])
File == IF Method = "GET" THEN HandleFileRequest[req.path] ELSE None

\* A slip: the page of the last answer is still there.
ProcessPhraseAppends(word, all) ==
    rout' = Append(rout, [call |-> "process_phrase", word |-> word, all |-> all])

\* Library::process_phrase begins with rout.reset().
ProcessPhrase(word, all) ==
    rout' = <<[call |-> "process_phrase", word |-> word, all |-> all]>>
Neighbours(word, off, len) ==
    IF word = <<>> THEN <<>>
    ELSE <<[call |-> "get_neighbour", word |-> word, off |-> off, len |-> len]>>

Word == CString(GetParamValue(req.params, KeyW))

\* The form data of a POST request are read, which may fail; no handler wants them.
Route ==
    /\ pc = "route"
    /\ \/ /\ File # None
          /\ Respond(200, <<[call |-> "read_file", path |-> File]>>)
          /\ UNCHANGED rout
       \/ /\ Method # "POST" /\ File = None
          /\ \/ req.path = Root /\ ProcessPhrase(Word, ~HasParam(req.params, KeyCo))
                /\ Respond(200, rout')
             \/ /\ req.path = Neigh
                /\ Respond(200, Neighbours(Word, Strtol(CString(GetParamValue(req.params, KeyOff)), 0),
                                           Strtoul(CString(GetParamValue(req.params, KeyLen)), 10)))
                /\ UNCHANGED rout
             \/ req.path \notin {Root, Neigh} /\ Respond(404, <<>>) /\ UNCHANGED rout
       \/ /\ Method = "POST"
          /\ \/ Respond(404, <<>>)
             \/ GetHeaderValue("Content-Type", "") = "multipart" /\ BadRequest
          /\ UNCHANGED rout
    /\ UNCHANGED <<clientvars, wire, answer, backlog, conn, req, left>>

\* write_response: what cannot be sent is not noticed; HEAD gets no body.
WriteResponse ==
    /\ pc = "write"
    /\ answer' = IF peer[conn] \in {"open", "half"}
                 THEN [answer EXCEPT ![conn] =
                          IF Method = "HEAD" THEN [res EXCEPT !.body = <<>>] ELSE res]
                 ELSE answer
    /\ pc' = "close"
    /\ UNCHANGED <<clientvars, wire, backlog, conn, req, rout, left, res>>

\* read_and_close_socket: closed with something unread, or still to come, the
\* connection is reset, and the answer may be lost on its way.
CloseSocket ==
    /\ pc = "close"
    /\ peer' = [peer EXCEPT ![conn] = IF @ \in {"open", "half"} THEN "over" ELSE @]
    /\ \/ UNCHANGED answer
       \/ /\ wire[conn] # <<>> \/ todo[conn] # <<>>
          /\ answer' = [answer EXCEPT ![conn] = Lost]
    /\ wire' = [wire EXCEPT ![conn] = <<>>] /\ todo' = [todo EXCEPT ![conn] = <<>>]
    /\ pc' = "accept" /\ conn' = None /\ req' = NoRequest /\ res' = NoResponse /\ left' = 0
    /\ UNCHANGED <<asked, backlog, rout>>
-----------------------------------------------------------------------------
Server ==
    \/ Accept \/ RequestLine \/ ReadHeader \/ EndOfHeaders
    \/ ReadWithLength \/ ReadWithoutLength \/ ChunkSize \/ Chunk \/ ChunkEnd
    \/ Route \/ WriteResponse \/ CloseSocket

Next ==
    \/ Server \/ AcceptFails
    \/ \E c \in Clients : Connect(c) \/ Send(c) \/ Finish(c) \/ Leave(c) \/ Break(c)

Spec == Init /\ [][Next]_vars

\* The server goes on while it can.  A client that began to send its request sends
\* all of it, and a body without a length it ends; it may as well leave.
EndsBody(c) == asked[c].op = "post" /\ Finish(c)
FairSpec ==
    /\ Spec
    /\ WF_vars(Server)
    /\ \A c \in Clients : WF_vars(Send(c)) /\ WF_vars(EndsBody(c))
-----------------------------------------------------------------------------
Answered(c) == answer[c] \notin {NoResponse, Lost}
Asks(c, ops) == asked[c].op \in ops

WordArrives(r) ==
    LET params == ParseQueryText(Query(r))
        text(key) == CString(GetParamValue(params, key))
    IN  /\ DecodeUrl(Path(r)) = Path(r) /\ FileOf(Path(r)) = None
        /\ text(KeyW) = r.word
        /\ r.op \in {"search", "content"} => (HasParam(params, KeyCo) <=> r.op = "content")
        /\ r.op = "neigh" => /\ Strtol(text(KeyOff), 0) = r.means.off
                             /\ Strtoul(text(KeyLen), 10) = r.means.len
PathArrives(r) ==
    /\ DecodeUrl(r.path) = r.path /\ r.path \notin {Root, Neigh}
    /\ LET where == Resolve(IF Last(r.path) = Slash THEN r.path \o IndexHtml ELSE r.path)
       IN  IsValidPath(r.path) <=> DotDot \notin ToSet(where)
Arrives ==
    Tabulated([r \in Requests |->
        CASE r.op \in {"search", "content", "neigh"} -> WordArrives(r)
          [] r.op = "file" -> PathArrives(r)
          [] OTHER -> TRUE])

\* What a client encodes is what the server decodes, whatever characters are in it, and
\* a path counts as valid when it never leaves the directory.
TextsArrive == \A c \in Clients : asked[c] # Unasked => Arrives[asked[c]]

\* A client that asked for a word gets the page of that word and of no other, all
\* of it or its content only, and the neighbours of a word by the numbers it sent,
\* whatever the characters of the word, whatever others ask for before and whoever
\* leaves while a page is made.
AnswerRight ==
    \A c \in Clients : Asks(c, {"search", "content", "neigh"}) /\ Answered(c) =>
        /\ answer[c].status = 200
        /\ asked[c].method = "HEAD" => answer[c].body = <<>>
        /\ asked[c].method = "GET" =>
            LET r == asked[c] IN
            answer[c].body =
                IF r.op = "neigh"
                THEN IF r.word = <<>> THEN <<>>
                     ELSE <<[call |-> "get_neighbour", word |-> r.word,
                             off |-> r.means.off, len |-> r.means.len]>>
                ELSE <<[call |-> "process_phrase", word |-> r.word, all |-> r.op = "search"]>>

\* A path is answered with the file it leads to, if it never leaves the data
\* directory and there is such a file, and with 404 otherwise.
FileOfThePath ==
    \A c \in Clients : Asks(c, {"file"}) /\ Answered(c) =>
        LET path == asked[c].path
            where == Resolve(IF Last(path) = Slash THEN path \o IndexHtml ELSE path)
        IN  IF asked[c].method = "GET" /\ DotDot \notin ToSet(where) /\ where \in DataFiles
            THEN answer[c] = [status |-> 200, body |-> <<[call |-> "read_file", path |-> where]>>]
            ELSE answer[c] = [status |-> 404, body |-> <<>>]

\* A client that asks by GET or HEAD and stays gets its answer: the server does not
\* close the connection before all of the request is read.
NoAnswerLost ==
    \A c \in Clients :
        Asks(c, Gets) /\ peer[c] = "over" => Answered(c)

\* Every connection comes to its end, though one is served at a time and whoever
\* is served may leave, break or send half a request: none waits for ever.
EveryConnectionEnds ==
    \A c \in Clients :
        peer[c] \in {"open", "half"} ~> peer[c] \in {"over", "gone", "broken"}
=============================================================================
