-------------------------- MODULE HttpServerProofs --------------------------
(***************************************************************************)
(* For any clients, requests and backlog: whoever asks by GET or HEAD and  *)
(* stays gets an answer, and it is the answer to what it asked, whatever   *)
(* the characters of the words and paths.                                  *)
(***************************************************************************)
EXTENDS HttpServer, Sorting, FiniteSetTheorems, SequenceTheorems, TLAPS

Staying(c) == peer[c] \in {"open", "half"}
Unread(c) == wire[c] \o todo[c]

\* The pieces of a request that is asked for by address.
Host == Header("Host", "any")
RequestLineOf(r) == Line(r.method, Path(r), Query(r))
Pieces(r) == {RequestLineOf(r), Host, End}

\* What the variables may be.
Types ==
    /\ asked \in [Clients -> Requests \cup {Unasked}]
    /\ peer \in [Clients -> {"away", "open", "half", "gone", "broken", "over"}]
    /\ DOMAIN todo = Clients /\ DOMAIN wire = Clients /\ DOMAIN answer = Clients
    /\ conn \in Clients \cup {None}
    /\ pc \in {"accept", "exited"} <=> conn = None
    /\ \A c \in Clients : peer[c] = "away" => wire[c] = <<>> /\ answer[c] = NoResponse

\* Every connection is in one place: waiting, served, or neither.
Queue ==
    /\ backlog \in Seq(Clients)
    /\ \A i, j \in DOMAIN backlog : backlog[i] = backlog[j] => i = j
    /\ \A i \in DOMAIN backlog :
          backlog[i] # conn /\ peer[backlog[i]] \in {"open", "half", "gone", "broken"}
    /\ conn # None => peer[conn] \in {"open", "half", "gone", "broken"}

\* A client that asks by address and stays: what it has sent and the server has not
\* read, and what it has yet to send, is what is left of its request.
Whole(c) ==
    Asks(c, Gets) /\ Staying(c) =>
        /\ wire[c] \in Seq(Pieces(asked[c])) /\ todo[c] \in Seq(Pieces(asked[c]))
        /\ peer[c] = "half" => todo[c] = <<>>
        /\ c \in ToSet(backlog) => Unread(c) = Tokens(asked[c])
        /\ c = conn /\ pc = "line" => Unread(c) = Tokens(asked[c])
        /\ c = conn /\ pc = "headers" => Unread(c) \in {<<Host, End>>, <<End>>}
        /\ c = conn /\ pc \in {"route", "write", "close"} => Unread(c) = <<>>

\* What the server makes of a request line, whatever else it did before.
PageFor(line) ==
    LET path == DecodeUrl(line.path)
        params == ParseQueryText(line.query)
        word == CString(GetParamValue(params, KeyW))
        number(key) == CString(GetParamValue(params, key))
    IN  IF line.method = "GET" /\ FileOf(path) # None
        THEN [status |-> 200, body |-> <<[call |-> "read_file", path |-> FileOf(path)]>>]
        ELSE IF path = Root
        THEN [status |-> 200, body |-> <<[call |-> "process_phrase", word |-> word,
                                          all |-> ~HasParam(params, KeyCo)]>>]
        ELSE IF path = Neigh
        THEN [status |-> 200, body |-> Neighbours(word, Strtol(number(KeyOff), 0),
                                                  Strtoul(number(KeyLen), 10))]
        ELSE [status |-> 404, body |-> <<>>]
AnswerTo(r) ==
    LET made == PageFor(RequestLineOf(r))
    IN  IF r.method = "HEAD" THEN [status |-> made.status, body |-> <<>>] ELSE made

\* What the server has read of the request it serves, and made of it.
Served ==
    conn # None /\ Asks(conn, Gets) /\ Staying(conn) =>
        LET line == RequestLineOf(asked[conn]) IN
        /\ pc \in {"line", "headers", "route", "write", "close"}
        /\ pc \in {"headers", "route", "write"} =>
              /\ DOMAIN req = DOMAIN NoRequest /\ req.method = line.method
              /\ req.path = DecodeUrl(line.path)
              /\ req.params = ParseQueryText(line.query)
        /\ pc = "write" => res = PageFor(line)
        /\ pc = "close" => Answered(conn)

\* An answer is the answer to the request of this client.
OwnAnswers ==
    \A c \in Clients : Asks(c, Gets) /\ Answered(c) => answer[c] = AnswerTo(asked[c])

\* All this together.
HttpInv == Types /\ Queue /\ (\A c \in Clients : Whole(c)) /\ Served /\ OwnAnswers /\ NoAnswerLost
-----------------------------------------------------------------------------
(* Sequences of pieces. *)

\* A piece is sent: what is unread stays what it was.
LEMMA SendOne ==
    ASSUME NEW X, NEW s \in Seq(X), NEW t \in Seq(X), t # <<>>
    PROVE  /\ Append(s, Head(t)) \in Seq(X) /\ Tail(t) \in Seq(X)
           /\ Append(s, Head(t)) \o Tail(t) = s \o t
<1>1. Head(t) \in X /\ Tail(t) \in Seq(X) /\ t = <<Head(t)>> \o Tail(t)
  OBVIOUS
<1>2. Append(s, Head(t)) \in Seq(X)
  BY <1>1
<1>3. Append(s, Head(t)) \o Tail(t) = s \o t
  BY <1>1, <1>2
<1> QED
  BY <1>1, <1>2, <1>3

\* A piece is read: the first of what is unread.
LEMMA TakeOne ==
    ASSUME NEW X, NEW s \in Seq(X), NEW t \in Seq(X), s # <<>>
    PROVE  /\ SubSeq(s, 2, Len(s)) \in Seq(X)
           /\ s \o t # <<>> /\ Head(s) = Head(s \o t)
           /\ SubSeq(s, 2, Len(s)) \o t = Tail(s \o t)
<1> DEFINE u == SubSeq(s, 2, Len(s))
<1>1. Len(s) \in Nat \ {0} /\ Len(t) \in Nat
  OBVIOUS
<1>2. /\ u \in Seq(X) /\ Len(u) = Len(s) - 1
      /\ \A k \in 1 .. Len(s) - 1 : u[k] = s[k + 1]
  BY <1>1
<1>3. s \o t \in Seq(X) /\ Len(s \o t) = Len(s) + Len(t)
  OBVIOUS
<1>4. s \o t # <<>> /\ Head(s) = Head(s \o t)
  BY <1>1, <1>3
<1>5. /\ Tail(s \o t) \in Seq(X) /\ Len(Tail(s \o t)) = Len(s) + Len(t) - 1
      /\ \A k \in 1 .. Len(s) + Len(t) - 1 : Tail(s \o t)[k] = (s \o t)[k + 1]
  BY <1>1, <1>3
<1> HIDE DEF u
<1>6. u \o t \in Seq(X) /\ Len(u \o t) = Len(s) + Len(t) - 1
  <2>1. u \in Seq(X)
    BY <1>2
  <2>2. u \o t \in Seq(X) /\ Len(u \o t) = Len(u) + Len(t)
    BY <2>1
  <2> QED
    BY <1>1, <1>2, <2>2
<1>7. \A k \in 1 .. Len(s) + Len(t) - 1 : (u \o t)[k] = (s \o t)[k + 1]
  BY <1>1, <1>2, <1>6
<1>8. u \o t = Tail(s \o t)
  BY <1>5, <1>6, <1>7
<1> QED
  BY <1>2, <1>4, <1>8 DEF u

\* Nothing is unread only when nothing is left at either end.
LEMMA NothingUnread ==
    ASSUME NEW X, NEW s \in Seq(X), NEW t \in Seq(X)
    PROVE  s \o t = <<>> <=> s = <<>> /\ t = <<>>
OBVIOUS

\* Two pieces, one after the other.
LEMMA Pair ==
    ASSUME NEW X, NEW a \in X, NEW b \in X
    PROVE  <<a>> \o <<b>> = <<a, b>>
<1> DEFINE s == <<a>> \o <<b>>
           t == <<a, b>>
<1>1. /\ <<a>> \in Seq(X) /\ Len(<<a>>) = 1 /\ <<a>>[1] = a
      /\ <<b>> \in Seq(X) /\ Len(<<b>>) = 1 /\ <<b>>[1] = b
  OBVIOUS
<1>2. s \in Seq(X) /\ Len(s) = 2 /\ s[1] = a /\ s[2] = b
  BY <1>1
<1>3. t \in Seq(X) /\ Len(t) = 2 /\ t[1] = a /\ t[2] = b
  OBVIOUS
<1> HIDE DEF s, t
<1>4. s = t
  BY <1>2, <1>3
<1> QED
  BY <1>4 DEF s, t

\* Three of them.
LEMMA Triple ==
    ASSUME NEW X, NEW a \in X, NEW b \in X, NEW c \in X
    PROVE  <<a>> \o <<b>> \o <<c>> = <<a, b, c>>
<1> DEFINE s == <<a, b>> \o <<c>>
           t == <<a, b, c>>
<1>1. /\ <<a, b>> \in Seq(X) /\ Len(<<a, b>>) = 2 /\ <<a, b>>[1] = a /\ <<a, b>>[2] = b
      /\ <<c>> \in Seq(X) /\ Len(<<c>>) = 1 /\ <<c>>[1] = c
  OBVIOUS
<1>2. s \in Seq(X) /\ Len(s) = 3 /\ s[1] = a /\ s[2] = b /\ s[3] = c
  BY <1>1
<1>3. t \in Seq(X) /\ Len(t) = 3 /\ t[1] = a /\ t[2] = b /\ t[3] = c
  OBVIOUS
<1> HIDE DEF s, t
<1>4. s = t
  BY <1>2, <1>3
<1> QED
  BY <1>4, Pair DEF s, t

\* What is sent by one who asks by address: the request line, one header at most,
\* and the empty line.
LEMMA TokensOfGet ==
    ASSUME NEW r \in Requests, r.op \in Gets
    PROVE  /\ Tokens(r) \in Seq(Pieces(r)) /\ Tokens(r) # <<>>
           /\ Head(Tokens(r)) = RequestLineOf(r)
           /\ Tail(Tokens(r)) \in {<<Host, End>>, <<End>>}
           /\ RequestLineOf(r) \in Lines
           /\ RequestLineOf(r).method \in {"GET", "HEAD"}
           /\ RequestLineOf(r).tok = "line" /\ Host.tok = "header" /\ Host # End
<1> DEFINE X == Pieces(r)
           l == RequestLineOf(r)
<1>1. Body(r) = <<>> /\ Headers(r) \in {<<Host>>, <<>>}
  BY DEF Gets, Body, Headers, Host
<1>a. Tokens(r) = <<l>> \o Headers(r) \o <<End>> \o <<>>
  BY <1>1 DEF Tokens, RequestLineOf, Gets
<1>b. l \in X /\ Host \in X /\ End \in X
  BY DEF Pieces
<1> HIDE DEF X, l
<1>c. /\ <<l, Host, End>> \in Seq(X) /\ <<l, End>> \in Seq(X) /\ <<l>> \in Seq(X)
      /\ Head(<<l, Host, End>>) = l /\ Head(<<l, End>>) = l
      /\ Tail(<<l, Host, End>>) = <<Host, End>> /\ Tail(<<l, End>>) = <<End>>
  BY <1>b
<1>2. Tokens(r) \in {<<l, Host, End>>, <<l, End>>}
  <2>1. CASE Headers(r) = <<Host>>
    <3>1. <<l>> \o <<Host>> \o <<End>> = <<l, Host, End>>
      BY <1>b, Triple
    <3> QED
      BY <1>a, <1>c, <2>1, <3>1
  <2>2. CASE Headers(r) = <<>>
    <3>1. <<l>> \o <<>> = <<l>> /\ <<l>> \o <<End>> = <<l, End>>
      BY <1>b, <1>c, Pair
    <3> QED
      BY <1>a, <1>c, <2>2, <3>1
  <2> QED
    BY <1>1, <2>1, <2>2
<1>d. Tokens(r) \in Seq(X) /\ Tokens(r) # <<>> /\ Head(Tokens(r)) = l
      /\ Tail(Tokens(r)) \in {<<Host, End>>, <<End>>}
  <2>1. CASE Tokens(r) = <<l, Host, End>>
    BY <1>c, <2>1
  <2>2. CASE Tokens(r) = <<l, End>>
    BY <1>c, <2>2
  <2> QED
    BY <1>2, <2>1, <2>2
<1>3. Tokens(r)[1] = l
  BY <1>d
<1>4. l \in Lines
  BY <1>3 DEF Lines, Gets
<1>5. l.method \in {"GET", "HEAD"} /\ l.tok = "line"
  BY RequestsAssumption DEF l, RequestLineOf, Line
<1>6. Host.tok = "header" /\ Host # End
  BY DEF Host, Header, End
<1> QED
  BY <1>d, <1>4, <1>5, <1>6 DEF X, l
-----------------------------------------------------------------------------
(* What the clients do. *)

\* Nobody has asked yet.
LEMMA InitInv == Init => HttpInv
<1> SUFFICES ASSUME Init PROVE HttpInv
  OBVIOUS
<1>1. Types /\ Queue
  BY NoneAssumption DEF Init, Types, Queue
<1>2. \A c \in Clients : ~Asks(c, Gets) /\ ~Answered(c)
  BY DEF Init, Asks, Gets, Unasked, Answered
<1> QED
  BY <1>1, <1>2 DEF Init, HttpInv, Whole, Served, OwnAnswers, NoAnswerLost

\* A client connects: it is the last to wait, and has all of its request to send.
LEMMA ConnectInv ==
    ASSUME HttpInv, NEW c \in Clients, Connect(c)
    PROVE  HttpInv'
<1> USE DEF HttpInv
<1>1. PICK r \in Requests : /\ asked' = [asked EXCEPT ![c] = r]
                             /\ todo' = [todo EXCEPT ![c] = Tokens(r)]
  BY DEF Connect
<1>2. /\ peer[c] = "away" /\ wire[c] = <<>> /\ answer[c] = NoResponse
      /\ c # conn /\ pc # "exited" /\ c \notin ToSet(backlog)
      /\ peer' = [peer EXCEPT ![c] = "open"]
      /\ UNCHANGED <<wire, answer, conn, pc, req, rout, left, res>>
      /\ backlog' = Append(backlog, c)
  <2>1. /\ peer[c] = "away" /\ pc # "exited"
        /\ peer' = [peer EXCEPT ![c] = "open"]
        /\ UNCHANGED <<wire, answer, conn, pc, req, rout, left, res>>
        /\ backlog' = Append(backlog, c)
    BY DEF Connect
  <2>2. wire[c] = <<>> /\ answer[c] = NoResponse
    BY <2>1 DEF Types
  <2>3. c # conn
    BY <2>1, NoneAssumption DEF Queue
  <2>4. c \notin ToSet(backlog)
    BY <2>1 DEF Queue, ToSet
  <2> QED
    BY <2>1, <2>2, <2>3, <2>4
<1>3. Types'
  BY <1>1, <1>2 DEF Types
<1>4. /\ backlog' \in Seq(Clients) /\ Len(backlog') = Len(backlog) + 1
      /\ \A i \in DOMAIN backlog : backlog'[i] = backlog[i]
      /\ backlog'[Len(backlog) + 1] = c
      /\ DOMAIN backlog' = DOMAIN backlog \cup {Len(backlog) + 1}
  BY <1>2 DEF Queue
<1>5. Queue'
  <2>1. \A i \in DOMAIN backlog : backlog[i] # c
    BY <1>2 DEF ToSet
  <2>2. conn # None => peer'[conn] = peer[conn]
    BY <1>2 DEF Types
  <2>3. \A i \in DOMAIN backlog : peer'[backlog[i]] = peer[backlog[i]]
    BY <1>2, <2>1 DEF Types, Queue
  <2> QED
    BY <1>2, <1>4, <2>1, <2>2, <2>3 DEF Types, Queue
<1>6. ASSUME NEW d \in Clients
      PROVE  Whole(d)'
  <2>1. CASE d # c
    <3>1. /\ asked'[d] = asked[d] /\ todo'[d] = todo[d] /\ peer'[d] = peer[d]
          /\ d \in ToSet(backlog') <=> d \in ToSet(backlog)
      BY <1>1, <1>2, <1>4, <2>1 DEF Types, ToSet
    <3> QED
      BY <1>2, <3>1 DEF Whole, Asks, Staying, Unread
  <2>2. CASE d = c
    <3>1. asked'[c] = r /\ todo'[c] = Tokens(r) /\ peer'[c] = "open" /\ wire'[c] = <<>>
      BY <1>1, <1>2 DEF Types
    <3>2. CASE r.op \in Gets
      <4>1. Tokens(r) \in Seq(Pieces(r)) /\ <<>> \in Seq(Pieces(r))
        BY <3>2, TokensOfGet
      <4>2. <<>> \o Tokens(r) = Tokens(r)
        BY <4>1
      <4> QED
        BY <1>2, <2>2, <3>1, <4>1, <4>2 DEF Whole, Unread
    <3>3. CASE r.op \notin Gets
      BY <2>2, <3>1, <3>3 DEF Whole, Asks
    <3> QED
      BY <3>2, <3>3
  <2> QED
    BY <2>1, <2>2
<1>7. Served'
  BY <1>1, <1>2 DEF Served, Types, Asks, Staying, Answered
<1>8. OwnAnswers' /\ NoAnswerLost'
  BY <1>1, <1>2 DEF OwnAnswers, NoAnswerLost, Types, Asks, Answered
<1> QED
  BY <1>3, <1>5, <1>6, <1>7, <1>8

\* A client sends the next piece.
LEMMA SendInv ==
    ASSUME HttpInv, NEW c \in Clients, Send(c)
    PROVE  HttpInv'
<1> USE DEF HttpInv
<1>1. /\ peer[c] = "open" /\ todo[c] # <<>>
      /\ wire' = [wire EXCEPT ![c] = Append(wire[c], Head(todo[c]))]
      /\ todo' = [todo EXCEPT ![c] = Tail(todo[c])]
      /\ UNCHANGED <<asked, peer, answer, servervars>>
  BY DEF Send
<1>2. Types' /\ Queue'
  BY <1>1 DEF Types, Queue, servervars
<1>3. ASSUME NEW d \in Clients
      PROVE  Whole(d)'
  <2>1. CASE d # c
    BY <1>1, <2>1 DEF Types, servervars, Whole, Asks, Staying, Unread
  <2>2. CASE d = c /\ Asks(c, Gets)
    <3> DEFINE X == Pieces(asked[c])
    <3>1. wire[c] \in Seq(X) /\ todo[c] \in Seq(X)
      BY <1>1, <2>2 DEF Whole, Staying
    <3>2. /\ wire'[c] = Append(wire[c], Head(todo[c])) /\ todo'[c] = Tail(todo[c])
      BY <1>1 DEF Types
    <3> HIDE DEF X
    <3>3. /\ wire'[c] \in Seq(X) /\ todo'[c] \in Seq(X)
          /\ wire'[c] \o todo'[c] = wire[c] \o todo[c]
      <4> DEFINE s == wire[c]
                 t == todo[c]
      <4>1. s \in Seq(X) /\ t \in Seq(X) /\ t # <<>>
        BY <1>1, <3>1
      <4> HIDE DEF s, t
      <4>2. /\ Append(s, Head(t)) \in Seq(X) /\ Tail(t) \in Seq(X)
            /\ Append(s, Head(t)) \o Tail(t) = s \o t
        BY <4>1, SendOne
      <4> QED
        BY <3>2, <4>2 DEF s, t
    <3> QED
      BY <1>1, <2>2, <3>3 DEF X, servervars, Whole, Asks, Staying, Unread
  <2>3. CASE d = c /\ ~Asks(c, Gets)
    BY <1>1, <2>3 DEF Whole, Asks
  <2> QED
    BY <2>1, <2>2, <2>3
<1>4. Served' /\ OwnAnswers' /\ NoAnswerLost'
  BY <1>1 DEF servervars, Served, OwnAnswers, NoAnswerLost, Asks, Staying, Answered
<1> QED
  BY <1>2, <1>3, <1>4

\* A client stops sending, leaves, or its connection breaks.
LEMMA ClosesInv ==
    ASSUME HttpInv, NEW c \in Clients, Finish(c) \/ Leave(c) \/ Break(c)
    PROVE  HttpInv'
<1> USE DEF HttpInv
<1>1. /\ peer[c] \in {"open", "half", "gone", "broken"} /\ peer[c] # "away"
      /\ peer'[c] \in {"half", "gone", "broken"}
      /\ peer'[c] = "half" => Finish(c) /\ todo'[c] = <<>> /\ peer[c] = "open"
      /\ UNCHANGED <<asked, answer, servervars>>
      /\ \A d \in Clients \ {c} :
            peer'[d] = peer[d] /\ wire'[d] = wire[d] /\ todo'[d] = todo[d]
      /\ peer' \in [Clients -> {"away", "open", "half", "gone", "broken", "over"}]
      /\ DOMAIN todo' = Clients /\ DOMAIN wire' = Clients
  <2>1. CASE Finish(c)
    BY <2>1 DEF Finish, Types
  <2>2. CASE Leave(c)
    BY <2>2 DEF Leave, Types
  <2>3. CASE Break(c)
    BY <2>3 DEF Break, Types
  <2> QED
    BY <2>1, <2>2, <2>3
<1>2. Types'
  BY <1>1 DEF Types, servervars
<1>3. Queue'
  BY <1>1 DEF Types, Queue, servervars
<1>4. ASSUME NEW d \in Clients
      PROVE  Whole(d)'
  <2>1. CASE d # c
    BY <1>1, <2>1 DEF servervars, Whole, Asks, Staying, Unread
  <2>2. CASE d = c /\ peer'[c] # "half"
    BY <1>1, <2>2 DEF Whole, Staying
  <2>3. CASE d = c /\ peer'[c] = "half"
    <3>1. wire' = wire /\ todo' = todo
      BY <1>1, <2>3 DEF Finish
    <3> QED
      BY <1>1, <2>3, <3>1 DEF servervars, Whole, Asks, Staying, Unread
  <2> QED
    BY <2>1, <2>2, <2>3
<1>5. Served'
  <2>1. conn \in Clients /\ Staying(conn)' => Staying(conn)
    BY <1>1 DEF Staying, servervars
  <2> QED
    BY <1>1, <2>1 DEF Types, servervars, Served, Asks, Answered
<1>6. OwnAnswers' /\ NoAnswerLost'
  BY <1>1 DEF OwnAnswers, NoAnswerLost, Asks, Answered
<1> QED
  BY <1>2, <1>3, <1>4, <1>5, <1>6
-----------------------------------------------------------------------------
(* What the server does. *)

\* The accept loop takes the connection that waits longest.
LEMMA AcceptInv ==
    ASSUME HttpInv, Accept
    PROVE  HttpInv'
<1> USE DEF HttpInv
<1> DEFINE c == Head(backlog)
<1>1. /\ pc = "accept" /\ backlog # <<>> /\ backlog' = Tail(backlog)
      /\ conn' = c /\ pc' = "line" /\ UNCHANGED <<clientvars, wire, answer>>
  BY DEF Accept
<1>2. backlog \in Seq(Clients)
  BY DEF Queue
<1>3. /\ c \in Clients /\ c = backlog[1] /\ 1 \in DOMAIN backlog
      /\ Tail(backlog) \in Seq(Clients)
      /\ \A i \in DOMAIN Tail(backlog) : i + 1 \in DOMAIN backlog /\ i + 1 # 1
                                       /\ Tail(backlog)[i] = backlog[i + 1]
  BY <1>1, <1>2
<1> HIDE DEF c
<1>4. Types'
  BY <1>1, <1>3, NoneAssumption DEF Types, clientvars
<1>5. Queue'
  <2>1. \A i, j \in DOMAIN backlog' : backlog'[i] = backlog'[j] => i = j
    <3> TAKE i, j \in DOMAIN backlog'
    <3>1. /\ i + 1 \in DOMAIN backlog /\ j + 1 \in DOMAIN backlog
          /\ backlog'[i] = backlog[i + 1] /\ backlog'[j] = backlog[j + 1]
          /\ i \in Nat /\ j \in Nat
      BY <1>1, <1>3
    <3>2. backlog[i + 1] = backlog[j + 1] => i + 1 = j + 1
      BY <3>1 DEF Queue
    <3> QED
      BY <3>1, <3>2
  <2>2. \A i \in DOMAIN backlog' :
           /\ backlog'[i] # conn'
           /\ peer'[backlog'[i]] \in {"open", "half", "gone", "broken"}
    <3> TAKE i \in DOMAIN backlog'
    <3>1. i + 1 \in DOMAIN backlog /\ i + 1 # 1 /\ backlog'[i] = backlog[i + 1]
      BY <1>1, <1>3
    <3> QED
      BY <1>1, <1>3, <3>1 DEF Queue, clientvars
  <2>3. peer'[conn'] \in {"open", "half", "gone", "broken"}
    BY <1>1, <1>3 DEF Queue, clientvars
  <2> QED
    BY <1>1, <1>3, <2>1, <2>2, <2>3 DEF Queue
<1>6. ASSUME NEW d \in Clients
      PROVE  Whole(d)'
  <2>1. d \in ToSet(backlog') \/ d = c => d \in ToSet(backlog)
    BY <1>1, <1>3 DEF ToSet
  <2> QED
    BY <1>1, <2>1 DEF clientvars, Whole, Asks, Staying, Unread
<1>7. Served'
  BY <1>1 DEF Served
<1>8. OwnAnswers' /\ NoAnswerLost'
  BY <1>1 DEF clientvars, OwnAnswers, NoAnswerLost, Asks, Answered
<1> QED
  BY <1>4, <1>5, <1>6, <1>7, <1>8

\* The listening socket is closed: who waits is turned away.
LEMMA AcceptFailsInv ==
    ASSUME HttpInv, AcceptFails
    PROVE  HttpInv'
<1> USE DEF HttpInv
<1>1. /\ pc = "accept" /\ pc' = "exited" /\ backlog' = <<>> /\ conn' = conn /\ conn = None
      /\ peer' = [d \in Clients |-> IF d \in ToSet(backlog) THEN "broken" ELSE peer[d]]
      /\ UNCHANGED <<asked, todo, wire, answer>>
  BY DEF AcceptFails, Types
<1>2. Types'
  BY <1>1 DEF Types
<1>3. Queue' /\ Served'
  BY <1>1 DEF Queue, Served
<1>4. ASSUME NEW d \in Clients
      PROVE  Whole(d)'
  <2>1. Staying(d)' => peer'[d] = peer[d] /\ Staying(d)
    BY <1>1 DEF Staying
  <2>2. d # None /\ d \notin ToSet(backlog')
    BY <1>1, NoneAssumption DEF ToSet
  <2> QED
    BY <1>1, <2>1, <2>2 DEF Whole, Asks, Unread
<1>5. OwnAnswers'
  BY <1>1 DEF OwnAnswers, Asks, Answered
<1>6. NoAnswerLost'
  BY <1>1 DEF NoAnswerLost, Asks, Answered
<1> QED
  BY <1>2, <1>3, <1>4, <1>5, <1>6

\* The server reads from the connection it serves, or notices that nothing comes: all
\* else stays, and only who asks by address and stays is left to look at.
LEMMA ReadingInv ==
    ASSUME HttpInv, UnchangedReading,
           pc \notin {"accept", "exited"}, pc' \notin {"accept", "exited"},
           DOMAIN wire' = Clients, \A d \in Clients \ {conn} : wire'[d] = wire[d],
           Asks(conn, Gets) /\ Staying(conn) => Whole(conn)' /\ Served'
    PROVE  HttpInv'
<1> USE DEF HttpInv
<1>1. UNCHANGED <<asked, todo, peer, answer, backlog, conn>> /\ conn \in Clients /\ conn # None
  BY NoneAssumption DEF UnchangedReading, clientvars, Types
<1>2. Types'
  <2>1. peer[conn] # "away"
    BY <1>1 DEF Queue
  <2> QED
    BY <1>1, <2>1 DEF Types
<1>3. Queue' /\ OwnAnswers' /\ NoAnswerLost'
  BY <1>1 DEF Queue, OwnAnswers, NoAnswerLost, Asks, Answered
<1>4. Served'
  BY <1>1 DEF Served, Asks, Staying
<1>5. ASSUME NEW d \in Clients
      PROVE  Whole(d)'
  <2>1. CASE d = conn
    BY <1>1, <2>1 DEF Whole, Asks, Staying
  <2>2. CASE d # conn
    BY <1>1, <2>2 DEF Whole, Asks, Staying, Unread
  <2> QED
    BY <2>1, <2>2
<1> QED
  BY <1>2, <1>3, <1>4, <1>5

\* Whoever asks by address and stays has its pieces arrive: the server never finds the
\* end of the connection before that of the request, and what it takes is the next piece.
LEMMA NextPiece ==
    ASSUME HttpInv, pc \in {"line", "headers"},
           conn # None, Asks(conn, Gets), Staying(conn)
    PROVE  /\ conn \in Clients /\ asked[conn] \in Requests /\ ~AtEnd /\ ~Broken
           /\ pc = "line" => Unread(conn) = Tokens(asked[conn])
           /\ pc = "headers" => Unread(conn) \in {<<Host, End>>, <<End>>}
           /\ Arrived => /\ Next1 = Head(Unread(conn))
                         /\ SubSeq(wire[conn], 2, Len(wire[conn])) \in Seq(Pieces(asked[conn]))
                         /\ SubSeq(wire[conn], 2, Len(wire[conn])) \o todo[conn]
                               = Tail(Unread(conn))
<1> USE DEF HttpInv
<1> DEFINE r == asked[conn]
           X == Pieces(r)
           s == wire[conn]
           t == todo[conn]
<1>1. conn \in Clients /\ r \in Requests
  BY DEF Types, Asks, Gets, Unasked
<1> Whole(conn)
  BY <1>1
<1>2. /\ pc = "line" => Unread(conn) = Tokens(r)
      /\ pc = "headers" => Unread(conn) \in {<<Host, End>>, <<End>>}
  BY DEF Whole
<1>a. s \in Seq(X) /\ t \in Seq(X)
  BY DEF Whole
<1>b. peer[conn] = "half" => t = <<>>
  BY DEF Whole
<1>3. Unread(conn) # <<>>
  <2>1. Tokens(r) # <<>>
    BY <1>1, TokensOfGet DEF Asks
  <2> QED
    BY <1>2, <2>1
<1>4. ~Broken /\ ~AtEnd
  <2>1. s = <<>> /\ t = <<>> => Unread(conn) = <<>>
    BY <1>a, NothingUnread DEF Unread
  <2>2. peer[conn] = "half" => s # <<>>
    BY <1>b, <1>3, <2>1
  <2>3. peer[conn] \in {"open", "half"}
    BY DEF Staying
  <2> QED
    BY <2>2, <2>3 DEF Broken, AtEnd
<1>5. ASSUME Arrived
      PROVE  /\ Next1 = Head(Unread(conn)) /\ SubSeq(s, 2, Len(s)) \in Seq(X)
             /\ SubSeq(s, 2, Len(s)) \o t = Tail(Unread(conn))
  <2>1. s # <<>> /\ Next1 = Head(s) /\ Unread(conn) = s \o t
    BY <1>5 DEF Arrived, Next1, Unread
  <2>2. s \in Seq(X) /\ t \in Seq(X)
    BY <1>a
  <2> HIDE DEF s, t, X
  <2>3. /\ SubSeq(s, 2, Len(s)) \in Seq(X) /\ Head(s) = Head(s \o t)
        /\ SubSeq(s, 2, Len(s)) \o t = Tail(s \o t)
    BY <2>1, <2>2, TakeOne
  <2> QED
    BY <2>1, <2>3
<1> QED
  BY <1>1, <1>2, <1>4, <1>5

\* The piece that is taken.
LEMMA TakeNext ==
    ASSUME HttpInv, conn \in Clients, Take(1)
    PROVE  /\ DOMAIN wire' = Clients /\ \A d \in Clients \ {conn} : wire'[d] = wire[d]
           /\ wire'[conn] = SubSeq(wire[conn], 2, Len(wire[conn]))
BY DEF HttpInv, Types, Take

\* The request that is served is read on: what a client that stays has yet to be read
\* is still what is left of its request.
LEMMA ReadOn ==
    ASSUME HttpInv, conn \in Clients, conn # None, UnchangedReading,
           Asks(conn, Gets), Staying(conn),
           wire'[conn] \in Seq(Pieces(asked[conn])),
           \/ pc' = "headers" /\ wire'[conn] \o todo[conn] \in {<<Host, End>>, <<End>>}
           \/ pc' = "route" /\ wire'[conn] \o todo[conn] = <<>>
    PROVE  Whole(conn)'
<1>1. UNCHANGED <<asked, todo, peer, answer, backlog, conn>>
  BY DEF UnchangedReading, clientvars
<1>2. conn \notin ToSet(backlog)
  BY DEF HttpInv, Queue, ToSet
<1>3. Whole(conn)
  BY DEF HttpInv
<1>4. /\ wire'[conn] \in Seq(Pieces(asked'[conn])) /\ todo'[conn] \in Seq(Pieces(asked'[conn]))
  BY <1>1, <1>3 DEF Whole
<1>5. peer'[conn] = "half" => todo'[conn] = <<>>
  BY <1>1, <1>3 DEF Whole
<1>6. conn \notin ToSet(backlog')
  BY <1>1, <1>2
<1>7. pc' # "line" /\ (pc' = "headers" => Unread(conn)' \in {<<Host, End>>, <<End>>})
  BY <1>1 DEF Unread
<1>8. pc' \in {"route", "write", "close"} => Unread(conn)' = <<>>
  BY <1>1 DEF Unread
<1> QED
  BY <1>1, <1>4, <1>5, <1>6, <1>7, <1>8 DEF Whole

\* The request line and the path of a request line, in the tables of what is read.
LEMMA Tables ==
    ASSUME NEW line \in Lines
    PROVE  /\ ParseRequestLine[line] =
                 [method |-> line.method, path |-> DecodeUrl(line.path),
                  params |-> ParseQueryText(line.query), headers |-> <<>>]
           /\ HandleFileRequest[DecodeUrl(line.path)] = FileOf(DecodeUrl(line.path))
<1>1. \A f : Tabulated(f) = f
  BY DEF Tabulated
<1>2. ParseRequestLine =
          [l \in Lines |-> [method |-> l.method, path |-> DecodeUrl(l.path),
                           params |-> ParseQueryText(l.query), headers |-> <<>>]]
  BY <1>1 DEF ParseRequestLine
<1>3. HandleFileRequest = [path \in { DecodeUrl(l.path) : l \in Lines } |-> FileOf(path)]
  BY <1>1 DEF HandleFileRequest
<1> QED
  BY <1>2, <1>3

\* The request line is read: what is left is what follows it.
LEMMA RequestLineInv ==
    ASSUME HttpInv, RequestLine
    PROVE  HttpInv'
<1>1. pc = "line" /\ UnchangedReading /\ pc' \notin {"accept", "exited"}
  BY DEF RequestLine, GoOn, BadRequest, Respond
<1>2. conn \in Clients /\ conn # None
  BY <1>1 DEF HttpInv, Types
<1>3. CASE Arrived /\ Take(1)
  <2>1. /\ DOMAIN wire' = Clients /\ \A d \in Clients \ {conn} : wire'[d] = wire[d]
        /\ wire'[conn] = SubSeq(wire[conn], 2, Len(wire[conn]))
    BY <1>2, <1>3, TakeNext
  <2>2. ASSUME Asks(conn, Gets), Staying(conn)
        PROVE  Whole(conn)' /\ Served'
    <3> DEFINE r == asked[conn]
    <3>1. /\ UNCHANGED <<asked, todo, peer, answer, backlog, conn>>
          /\ conn \notin ToSet(backlog)
      BY <1>1 DEF UnchangedReading, clientvars, HttpInv, Queue, ToSet
    <3>2. /\ r \in Requests /\ Next1 = Head(Tokens(r)) /\ ~AtEnd /\ ~Broken
          /\ wire'[conn] \in Seq(Pieces(r)) /\ wire'[conn] \o todo[conn] = Tail(Tokens(r))
      BY <1>1, <1>2, <1>3, <2>1, <2>2, NextPiece
    <3>3. /\ Next1 = RequestLineOf(r) /\ Next1.tok = "line" /\ Next1 \in Lines
          /\ Tail(Tokens(r)) \in {<<Host, End>>, <<End>>}
      BY <2>2, <3>2, TokensOfGet DEF Asks
    <3>4. req' = ParseRequestLine[Next1] /\ pc' = "headers"
      BY <3>2, <3>3 DEF RequestLine, GoOn
    <3>a. req' = [method |-> Next1.method, path |-> DecodeUrl(Next1.path),
                  params |-> ParseQueryText(Next1.query), headers |-> <<>>]
      BY <3>3, <3>4, Tables
    <3>5. Served'
      BY <1>2, <3>1, <3>3, <3>4, <3>a DEF Served, Asks, Staying, NoRequest
    <3>6. wire'[conn] \o todo[conn] \in {<<Host, End>>, <<End>>}
      BY <3>2, <3>3
    <3> QED
      BY <1>1, <1>2, <2>2, <3>2, <3>4, <3>5, <3>6, ReadOn
  <2> QED
    BY <1>1, <2>1, <2>2, ReadingInv
<1>4. CASE (AtEnd \/ Broken) /\ wire' = wire
  <2>1. ~(Asks(conn, Gets) /\ Staying(conn))
    BY <1>1, <1>2, <1>4, NextPiece
  <2>2. DOMAIN wire' = Clients /\ \A d \in Clients \ {conn} : wire'[d] = wire[d]
    BY <1>4 DEF HttpInv, Types
  <2> QED
    BY <1>1, <2>1, <2>2, ReadingInv
<1> QED
  BY <1>3, <1>4 DEF RequestLine

\* A header is read: the empty line is still to come.
LEMMA ReadHeaderInv ==
    ASSUME HttpInv, ReadHeader
    PROVE  HttpInv'
<1>1. pc = "headers" /\ UnchangedReading /\ pc' \notin {"accept", "exited"}
  BY DEF ReadHeader, GoOn, BadRequest, Respond
<1>2. conn \in Clients /\ conn # None
  BY <1>1 DEF HttpInv, Types
<1>3. CASE Arrived /\ Next1 # End /\ Take(1)
  <2>1. /\ DOMAIN wire' = Clients /\ \A d \in Clients \ {conn} : wire'[d] = wire[d]
        /\ wire'[conn] = SubSeq(wire[conn], 2, Len(wire[conn]))
    BY <1>2, <1>3, TakeNext
  <2>2. ASSUME Asks(conn, Gets), Staying(conn)
        PROVE  Whole(conn)' /\ Served'
    <3> DEFINE r == asked[conn]
    <3>1. /\ UNCHANGED <<asked, todo, peer, answer, backlog, conn>>
          /\ conn \notin ToSet(backlog)
      BY <1>1 DEF UnchangedReading, clientvars, HttpInv, Queue, ToSet
    <3>2. /\ Next1 = Head(Unread(conn)) /\ ~AtEnd /\ ~Broken
          /\ Unread(conn) \in {<<Host, End>>, <<End>>}
          /\ wire'[conn] \in Seq(Pieces(r)) /\ wire'[conn] \o todo[conn] = Tail(Unread(conn))
      BY <1>1, <1>2, <1>3, <2>1, <2>2, NextPiece
    <3>3. Unread(conn) = <<Host, End>>
      BY <1>3, <3>2
    <3>4. wire'[conn] \o todo[conn] = <<End>>
      BY <3>2, <3>3
    <3>5. pc' = "headers" /\ (req' = req \/ req' = [req EXCEPT !.headers = Append(@, Next1)])
      BY <3>2 DEF ReadHeader, GoOn
    <3>6. Served
      BY DEF HttpInv
    <3>7. /\ DOMAIN req' = DOMAIN NoRequest /\ req'.method = req.method
          /\ req'.path = req.path /\ req'.params = req.params
      <4>1. DOMAIN req = DOMAIN NoRequest
        BY <1>1, <1>2, <2>2, <3>6 DEF Served
      <4>2. {"method", "path", "params"} \subseteq DOMAIN req
        BY <4>1 DEF NoRequest
      <4> QED
        BY <3>5, <4>1, <4>2
    <3>8. Served'
      BY <1>1, <1>2, <2>2, <3>1, <3>5, <3>6, <3>7 DEF Served, Asks, Staying
    <3> QED
      BY <1>1, <1>2, <2>2, <3>2, <3>4, <3>5, <3>8, ReadOn
  <2> QED
    BY <1>1, <2>1, <2>2, ReadingInv
<1>4. CASE (AtEnd \/ Broken) /\ wire' = wire
  <2>1. ~(Asks(conn, Gets) /\ Staying(conn))
    BY <1>1, <1>2, <1>4, NextPiece
  <2>2. DOMAIN wire' = Clients /\ \A d \in Clients \ {conn} : wire'[d] = wire[d]
    BY <1>4 DEF HttpInv, Types
  <2> QED
    BY <1>1, <2>1, <2>2, ReadingInv
<1> QED
  BY <1>3, <1>4 DEF ReadHeader

\* The empty line is read, and nothing follows it.
LEMMA EndOfHeadersInv ==
    ASSUME HttpInv, EndOfHeaders
    PROVE  HttpInv'
<1>1. /\ pc = "headers" /\ UnchangedReading /\ Arrived /\ Next1 = End /\ Take(1)
      /\ req' = req
      /\ pc' \in {"route", "length", "size", "toend"} /\ (~ReadContent => pc' = "route")
  BY DEF EndOfHeaders, GoOn
<1>2. conn \in Clients /\ conn # None
  BY <1>1 DEF HttpInv, Types
<1>3. /\ DOMAIN wire' = Clients /\ \A d \in Clients \ {conn} : wire'[d] = wire[d]
      /\ wire'[conn] = SubSeq(wire[conn], 2, Len(wire[conn]))
  BY <1>1, <1>2, TakeNext
<1>4. ASSUME Asks(conn, Gets), Staying(conn)
      PROVE  Whole(conn)' /\ Served'
  <2> DEFINE r == asked[conn]
  <2>1. /\ UNCHANGED <<asked, todo, peer, answer, backlog, conn>>
        /\ conn \notin ToSet(backlog)
    BY <1>1 DEF UnchangedReading, clientvars, HttpInv, Queue, ToSet
  <2>2. /\ r \in Requests /\ Next1 = Head(Unread(conn))
        /\ Unread(conn) \in {<<Host, End>>, <<End>>}
        /\ wire'[conn] \in Seq(Pieces(r)) /\ wire'[conn] \o todo[conn] = Tail(Unread(conn))
    BY <1>1, <1>2, <1>3, <1>4, NextPiece
  <2>3. Host # End /\ RequestLineOf(r).method \in {"GET", "HEAD"}
    BY <1>4, <2>2, TokensOfGet DEF Asks
  <2>4. Unread(conn) = <<End>>
    BY <1>1, <2>2, <2>3
  <2>5. wire'[conn] \o todo[conn] = <<>>
    BY <2>2, <2>4
  <2>6. Served
    BY DEF HttpInv
  <2>7. pc' = "route"
    BY <1>1, <1>2, <1>4, <2>3, <2>6 DEF Served, ReadContent, Method
  <2>8. Served'
    BY <1>1, <1>2, <1>4, <2>1, <2>6, <2>7 DEF Served, Asks, Staying
  <2> QED
    BY <1>1, <1>2, <1>4, <2>2, <2>5, <2>7, <2>8, ReadOn
<1> QED
  BY <1>1, <1>3, <1>4, ReadingInv

\* The body of a POST request: nobody who asks by address is served meanwhile.
LEMMA BodyInv ==
    ASSUME HttpInv, ReadWithLength \/ ReadWithoutLength \/ ChunkSize \/ Chunk \/ ChunkEnd
    PROVE  HttpInv'
<1>1. /\ pc \in {"length", "toend", "size", "chunk", "chunkend"} /\ UnchangedReading
      /\ pc' \notin {"accept", "exited"}
      /\ wire' = wire \/ \E n \in {1, Min({Here, left}), Here + 1, Here} : Take(n)
  <2>1. CASE ReadWithLength
    BY <2>1 DEF ReadWithLength, GoOn, BadRequest, Respond
  <2>2. CASE ReadWithoutLength
    BY <2>2 DEF ReadWithoutLength, GoOn, BadRequest, Respond
  <2>3. CASE ChunkSize
    BY <2>3 DEF ChunkSize, GoOn, BadRequest, Respond
  <2>4. CASE Chunk
    BY <2>4 DEF Chunk, GoOn, BadRequest, Respond
  <2>5. CASE ChunkEnd
    BY <2>5 DEF ChunkEnd, GoOn, BadRequest, Respond
  <2> QED
    BY <2>1, <2>2, <2>3, <2>4, <2>5
<1>2. DOMAIN wire' = Clients /\ \A d \in Clients \ {conn} : wire'[d] = wire[d]
  BY <1>1 DEF HttpInv, Types, Take
<1>3. ~(Asks(conn, Gets) /\ Staying(conn))
  BY <1>1 DEF HttpInv, Types, Served
<1> QED
  BY <1>1, <1>2, <1>3, ReadingInv

\* The page of a request line has a status and a body.
LEMMA PageHasStatus ==
    ASSUME NEW line
    PROVE  /\ PageFor(line) = [status |-> PageFor(line).status, body |-> PageFor(line).body]
           /\ PageFor(line).status \in {200, 404}
<1> DEFINE path == DecodeUrl(line.path)
<1>1. CASE line.method = "GET" /\ FileOf(path) # None
  BY <1>1 DEF PageFor
<1>2. CASE ~(line.method = "GET" /\ FileOf(path) # None) /\ path = Root
  BY <1>2 DEF PageFor
<1>3. CASE ~(line.method = "GET" /\ FileOf(path) # None) /\ path # Root /\ path = Neigh
  BY <1>3 DEF PageFor
<1>4. CASE ~(line.method = "GET" /\ FileOf(path) # None) /\ path # Root /\ path # Neigh
  <2>1. PageFor(line) = [status |-> 404, body |-> <<>>]
    BY <1>4 DEF PageFor
  <2> QED
    BY <2>1
<1> QED
  BY <1>1, <1>2, <1>3, <1>4

\* The request is routed: what was read of it decides which page is made.
LEMMA RouteInv ==
    ASSUME HttpInv, Route
    PROVE  HttpInv'
<1>1. /\ pc = "route" /\ pc' = "write"
      /\ UNCHANGED <<asked, todo, peer, wire, answer, backlog, conn, req>>
  BY DEF Route, Respond, BadRequest, clientvars
<1>2. conn \in Clients /\ conn # None
  BY <1>1 DEF HttpInv, Types
<1>3. Types' /\ Queue' /\ OwnAnswers' /\ NoAnswerLost'
  BY <1>1 DEF HttpInv, Types, Queue, OwnAnswers, NoAnswerLost, Asks, Answered
<1>4. ASSUME NEW d \in Clients
      PROVE  Whole(d)'
  BY <1>1 DEF HttpInv, Whole, Asks, Staying, Unread
<1>5. ASSUME Asks(conn, Gets), Staying(conn)
      PROVE  res' = PageFor(RequestLineOf(asked[conn]))
  <2> DEFINE line == RequestLineOf(asked[conn])
             file == FileOf(DecodeUrl(line.path))
  <2>1. /\ req.method = line.method /\ req.path = DecodeUrl(line.path)
        /\ req.params = ParseQueryText(line.query)
    BY <1>1, <1>2, <1>5 DEF HttpInv, Served
  <2>2. line.method \in {"GET", "HEAD"} /\ line \in Lines
    <3>1. asked[conn] \in Requests
      BY <1>2, <1>5 DEF HttpInv, Types, Asks, Gets, Unasked
    <3> QED
      BY <1>5, <3>1, TokensOfGet DEF Asks
  <2>3. File = IF line.method = "GET" THEN file ELSE None
    BY <2>1, <2>2, Tables DEF File, Method
  <2>4. Word = CString(GetParamValue(ParseQueryText(line.query), KeyW))
    BY <2>1 DEF Word
  <2>5. Root # Neigh
    BY DEF Root, Neigh
  <2> HIDE DEF line, file
  <2>6. CASE File # None
    <3>1. res' = [status |-> 200, body |-> <<[call |-> "read_file", path |-> file]>>]
      BY <2>1, <2>2, <2>3, <2>6 DEF Route, Respond, Method
    <3> QED
      BY <2>3, <2>6, <3>1 DEF PageFor, line, file
  <2>7. CASE File = None /\ req.path = Root
    <3>1. res' = [status |-> 200,
                  body |-> <<[call |-> "process_phrase", word |-> Word,
                              all |-> ~HasParam(req.params, KeyCo)]>>]
      BY <2>1, <2>2, <2>5, <2>7 DEF Route, Respond, ProcessPhrase, Method
    <3> QED
      BY <2>1, <2>3, <2>4, <2>7, <3>1 DEF PageFor, line, file
  <2>8. CASE File = None /\ req.path = Neigh
    <3>1. res' = [status |-> 200,
                  body |-> Neighbours(Word,
                      Strtol(CString(GetParamValue(req.params, KeyOff)), 0),
                      Strtoul(CString(GetParamValue(req.params, KeyLen)), 10))]
      BY <2>1, <2>2, <2>5, <2>8 DEF Route, Respond, Method
    <3> QED
      BY <2>1, <2>3, <2>4, <2>5, <2>8, <3>1 DEF PageFor, line, file
  <2>9. CASE File = None /\ req.path \notin {Root, Neigh}
    <3>1. res' = [status |-> 404, body |-> <<>>]
      BY <2>1, <2>2, <2>9 DEF Route, Respond, Method
    <3> QED
      BY <2>1, <2>3, <2>9, <3>1 DEF PageFor, line, file
  <2> QED
    BY <2>6, <2>7, <2>8, <2>9
<1>6. Served'
  BY <1>1, <1>5 DEF HttpInv, Served, Asks, Staying
<1> QED
  BY <1>3, <1>4, <1>6 DEF HttpInv

\* The response is written: it is the page of the request.
LEMMA WriteResponseInv ==
    ASSUME HttpInv, WriteResponse
    PROVE  HttpInv'
<1> DEFINE sent == IF req.method = "HEAD" THEN [res EXCEPT !.body = <<>>] ELSE res
<1>1. /\ pc = "write" /\ pc' = "close"
      /\ answer' = IF Staying(conn) THEN [answer EXCEPT ![conn] = sent] ELSE answer
      /\ UNCHANGED <<asked, todo, peer, wire, backlog, conn, req, res>>
  BY DEF WriteResponse, clientvars, Staying, Method
<1> HIDE DEF sent
<1>2. conn \in Clients /\ conn # None /\ DOMAIN answer = Clients
  BY <1>1 DEF HttpInv, Types
<1>3. Types'
  <2>1. peer[conn] # "away"
    BY <1>2 DEF HttpInv, Queue
  <2> QED
    BY <1>1, <1>2, <2>1 DEF HttpInv, Types
<1>4. Queue'
  BY <1>1 DEF HttpInv, Queue
<1>5. ASSUME NEW d \in Clients
      PROVE  Whole(d)'
  BY <1>1 DEF HttpInv, Whole, Asks, Staying, Unread
<1>6. ASSUME Asks(conn, Gets), Staying(conn)
      PROVE  sent = AnswerTo(asked[conn]) /\ sent \notin {NoResponse, Lost}
  <2> DEFINE line == RequestLineOf(asked[conn])
  <2>1. res = PageFor(line) /\ req.method = line.method
    BY <1>1, <1>2, <1>6 DEF HttpInv, Served
  <2>2. line.method = asked[conn].method
    BY DEF RequestLineOf, Line
  <2> HIDE DEF line
  <2> DEFINE status == PageFor(line).status
             body == PageFor(line).body
  <2>3. PageFor(line) = [status |-> status, body |-> body] /\ status \in {200, 404}
    BY PageHasStatus
  <2> HIDE DEF status, body
  <2>4. [[status |-> status, body |-> body] EXCEPT !.body = <<>>] = [status |-> status, body |-> <<>>]
    OBVIOUS
  <2>5. sent = IF asked[conn].method = "HEAD" THEN [status |-> status, body |-> <<>>]
               ELSE [status |-> status, body |-> body]
    BY <2>1, <2>2, <2>3, <2>4 DEF sent
  <2>6. sent = AnswerTo(asked[conn])
    BY <2>3, <2>5 DEF AnswerTo, line, status, body
  <2>7. sent.status \in {200, 404} /\ NoResponse.status = -1 /\ Lost.status = 0
    BY <2>3, <2>5 DEF NoResponse, Lost
  <2> QED
    BY <2>6, <2>7
<1>7. Served'
  <2>1. Asks(conn, Gets) /\ Staying(conn) => answer'[conn] = sent
    BY <1>1, <1>2
  <2> QED
    BY <1>1, <1>6, <2>1 DEF Served, Asks, Staying, Answered
<1>8. OwnAnswers'
  <2> SUFFICES ASSUME NEW d \in Clients, Asks(d, Gets), Answered(d)'
               PROVE  answer'[d] = AnswerTo(asked[d])
    BY <1>1 DEF OwnAnswers, Asks
  <2>1. CASE d = conn /\ Staying(conn)
    BY <1>1, <1>2, <1>6, <2>1
  <2>2. CASE d # conn \/ ~Staying(conn)
    <3>1. answer'[d] = answer[d]
      BY <1>1, <1>2, <2>2
    <3> QED
      BY <3>1 DEF HttpInv, OwnAnswers, Answered
  <2> QED
    BY <2>1, <2>2
<1>9. NoAnswerLost'
  <2> SUFFICES ASSUME NEW d \in Clients, Asks(d, Gets), peer[d] = "over"
               PROVE  Answered(d)'
    BY <1>1 DEF NoAnswerLost, Asks
  <2>1. d # conn
    BY <1>2 DEF HttpInv, Queue
  <2>2. answer'[d] = answer[d]
    BY <1>1, <1>2, <2>1
  <2> QED
    BY <2>2 DEF HttpInv, NoAnswerLost, Answered
<1> QED
  BY <1>3, <1>4, <1>5, <1>7, <1>8, <1>9 DEF HttpInv

\* The connection is closed: who stayed has nothing unread, so its answer arrives.
LEMMA CloseSocketInv ==
    ASSUME HttpInv, CloseSocket
    PROVE  HttpInv'
<1>1. /\ pc = "close" /\ pc' = "accept" /\ conn' = None
      /\ peer' = [peer EXCEPT ![conn] = IF Staying(conn) THEN "over" ELSE peer[conn]]
      /\ \/ answer' = answer
         \/ /\ wire[conn] # <<>> \/ todo[conn] # <<>>
            /\ answer' = [answer EXCEPT ![conn] = Lost]
      /\ wire' = [wire EXCEPT ![conn] = <<>>] /\ todo' = [todo EXCEPT ![conn] = <<>>]
      /\ UNCHANGED <<asked, backlog>>
  BY DEF CloseSocket, Staying
<1>2. conn \in Clients /\ conn # None
  BY <1>1 DEF HttpInv, Types
<1>3. /\ peer \in [Clients -> {"away", "open", "half", "gone", "broken", "over"}]
      /\ DOMAIN answer = Clients /\ DOMAIN wire = Clients /\ DOMAIN todo = Clients
      /\ peer[conn] # "away"
  BY <1>2 DEF HttpInv, Types, Queue
<1>4. \A d \in Clients \ {conn} : /\ peer'[d] = peer[d] /\ answer'[d] = answer[d]
                                  /\ wire'[d] = wire[d] /\ todo'[d] = todo[d]
  BY <1>1, <1>3
<1>5. peer'[conn] \notin {"away", "open", "half"}
  BY <1>1, <1>2, <1>3 DEF Staying
<1>6. Types'
  <2>1. /\ peer' \in [Clients -> {"away", "open", "half", "gone", "broken", "over"}]
        /\ DOMAIN answer' = Clients /\ DOMAIN wire' = Clients /\ DOMAIN todo' = Clients
    BY <1>1, <1>2, <1>3
  <2>2. ASSUME NEW d \in Clients, peer'[d] = "away"
        PROVE  wire'[d] = <<>> /\ answer'[d] = NoResponse
    <3>1. d # conn
      BY <1>5, <2>2
    <3> QED
      BY <1>4, <2>2, <3>1 DEF HttpInv, Types
  <2> QED
    BY <1>1, <2>1, <2>2 DEF HttpInv, Types
<1>7. Queue'
  <2>1. /\ backlog' = backlog /\ backlog \in Seq(Clients) /\ conn' = None
        /\ \A i \in DOMAIN backlog : backlog[i] \in Clients
    BY <1>1 DEF HttpInv, Queue
  <2>2. \A i \in DOMAIN backlog :
           backlog[i] # None /\ peer'[backlog[i]] \in {"open", "half", "gone", "broken"}
    BY <1>4, <2>1, NoneAssumption DEF HttpInv, Queue
  <2> QED
    BY <2>1, <2>2 DEF HttpInv, Queue
<1>8. ASSUME NEW d \in Clients
      PROVE  Whole(d)'
  <2>1. CASE d = conn
    BY <1>5, <2>1 DEF Whole, Staying
  <2>2. CASE d # conn
    <3>1. Whole(d) /\ d # conn'
      BY <1>1, NoneAssumption DEF HttpInv
    <3> QED
      BY <1>1, <1>4, <2>2, <3>1 DEF Whole, Asks, Staying, Unread
  <2> QED
    BY <2>1, <2>2
<1>9. Served'
  BY <1>1 DEF Served
<1>10. Asks(conn, Gets) /\ Staying(conn) => answer' = answer /\ Answered(conn)
  <2> SUFFICES ASSUME Asks(conn, Gets), Staying(conn)
               PROVE  answer' = answer /\ Answered(conn)
    OBVIOUS
  <2>1. Whole(conn) /\ Answered(conn)
    BY <1>1, <1>2 DEF HttpInv, Served
  <2>2. /\ wire[conn] \in Seq(Pieces(asked[conn])) /\ todo[conn] \in Seq(Pieces(asked[conn]))
        /\ wire[conn] \o todo[conn] = <<>>
    BY <1>1, <1>2, <2>1 DEF Whole, Unread
  <2>3. wire[conn] = <<>> /\ todo[conn] = <<>>
    BY <2>2, NothingUnread
  <2> QED
    BY <1>1, <2>1, <2>3
<1>11. OwnAnswers'
  <2> SUFFICES ASSUME NEW d \in Clients, Asks(d, Gets), Answered(d)'
               PROVE  answer'[d] = AnswerTo(asked[d])
    BY <1>1 DEF OwnAnswers, Asks
  <2>1. answer'[d] = answer[d]
    BY <1>1, <1>2, <1>3, <1>4 DEF Answered
  <2> QED
    BY <2>1 DEF HttpInv, OwnAnswers, Answered
<1>12. NoAnswerLost'
  <2> SUFFICES ASSUME NEW d \in Clients, Asks(d, Gets), peer'[d] = "over"
               PROVE  Answered(d)'
    BY <1>1 DEF NoAnswerLost, Asks
  <2>1. CASE d = conn
    <3>1. Staying(conn)
      BY <1>1, <1>2, <1>3, <2>1 DEF HttpInv, Queue
    <3> QED
      BY <1>10, <2>1, <3>1 DEF Answered
  <2>2. CASE d # conn
    BY <1>4, <2>2 DEF HttpInv, NoAnswerLost, Answered
  <2> QED
    BY <2>1, <2>2
<1> QED
  BY <1>6, <1>7, <1>8, <1>9, <1>11, <1>12 DEF HttpInv
-----------------------------------------------------------------------------
(* The invariant, and that answers arrive. *)

\* HttpInv, the invariant behind the two below, holds in every reachable state of the
\* server and its clients, whoever connects, sends, leaves or breaks, and when.
THEOREM HttpInvariance == Spec => []HttpInv
<1>1. HttpInv /\ Next => HttpInv'
  BY AcceptInv, RequestLineInv, ReadHeaderInv, EndOfHeadersInv, BodyInv, RouteInv,
     WriteResponseInv, CloseSocketInv, AcceptFailsInv, ConnectInv, SendInv, ClosesInv
  DEF Next, Server
<1>2. HttpInv /\ UNCHANGED vars => HttpInv'
  <2> SUFFICES ASSUME HttpInv, UNCHANGED vars PROVE HttpInv'
    OBVIOUS
  <2> USE DEF vars, clientvars, servervars
  <2>1. Types' /\ Queue'
    BY DEF HttpInv, Types, Queue
  <2>2. \A c \in Clients : Whole(c)'
    BY DEF HttpInv, Whole, Asks, Staying, Unread
  <2>3. Served' /\ OwnAnswers' /\ NoAnswerLost'
    BY DEF HttpInv, Served, OwnAnswers, NoAnswerLost, Asks, Staying, Answered
  <2> QED
    BY <2>1, <2>2, <2>3 DEF HttpInv
<1>3. HttpInv /\ [Next]_vars => HttpInv'
  BY <1>1, <1>2
<1> QED
  BY InitInv, <1>3, PTL DEF Spec

\* A client that asks by GET or HEAD and stays gets its answer: the server never closes
\* the connection with part of the request unread (Server::process_request).
THEOREM AnswersArrive == Spec => []NoAnswerLost
<1>1. HttpInv => NoAnswerLost
  BY DEF HttpInv
<1> QED
  BY HttpInvariance, <1>1, PTL

-----------------------------------------------------------------------------
(* The numbers of a set, in their order. *)

\* The numbers of f, in their order.
Rises(f, m) ==
    /\ m \in Nat /\ f \in [1 .. m -> Int]
    /\ \A i, j \in 1 .. m : i < j => f[i] < f[j]
Places(f, m) == { f[i] : i \in 1 .. m }

\* There are as many of them as places in f.
LEMMA PlacesCount ==
    ASSUME NEW m, NEW f, Rises(f, m)
    PROVE  IsFiniteSet(Places(f, m)) /\ Cardinality(Places(f, m)) = m
<1> DEFINE S == 1 .. m
           T == Places(f, m)
<1>1. m \in Nat /\ f \in [S -> Int] /\ \A i, j \in S : i < j => f[i] < f[j]
  BY DEF Rises
<1>2. IsFiniteSet(S) /\ Cardinality(S) = m
  BY <1>1, FS_Interval
<1>3. f \in [S -> T] /\ \A y \in T : \E x \in S : f[x] = y
  BY <1>1 DEF Places
<1>4. \A i, j \in S : f[i] = f[j] => i = j
  <2>1. \A i \in S : i \in Int /\ f[i] \in Int
    BY <1>1
  <2>2. \A i, j \in S : i # j => i < j \/ j < i
    OBVIOUS
  <2> HIDE DEF S
  <2> QED BY <1>1, <2>1, <2>2
<1> HIDE DEF S, T
<1>5. f \in Surjection(S, T) /\ f \in Injection(S, T)
  BY <1>3, <1>4 DEF Surjection, Injection, IsInjective
<1>6. IsFiniteSet(T) /\ Cardinality(T) = Cardinality(S)
  BY <1>2, <1>5, FS_Surjection
<1> QED BY <1>2, <1>6 DEF T

\* The n-th of them is the one at place n.
LEMMA NthIs ==
    ASSUME NEW m, NEW f, Rises(f, m), NEW n \in 1 .. m
    PROVE  Nth(Places(f, m), n) = f[n]
<1> DEFINE S == Places(f, m)
           Below(k) == { j \in S : j < k }
<1>1. m \in Nat /\ f \in [1 .. m -> Int] /\ \A i, j \in 1 .. m : i < j => f[i] < f[j]
  BY DEF Rises
<1>2. ASSUME NEW i \in 1 .. m PROVE Cardinality(Below(f[i])) = i - 1
  <2> DEFINE g == [k \in 1 .. i - 1 |-> f[k]]
  <2>1. Rises(g, i - 1)
    BY <1>1 DEF Rises
  <2>2. \A k \in 1 .. m : f[k] < f[i] <=> k < i
    <3>1. \A k \in 1 .. m : f[k] \in Int /\ k \in Int
      BY <1>1
    <3> QED BY <1>1, <3>1
  <2>3. Below(f[i]) = Places(g, i - 1)
    <3>1. Places(g, i - 1) = { f[k] : k \in 1 .. i - 1 }
      BY DEF Places
    <3>2. \A j : j \in Below(f[i]) <=> j \in S /\ j < f[i]
      OBVIOUS
    <3>3. \A j : j \in S <=> \E k \in 1 .. m : j = f[k]
      BY DEF Places
    <3>4. \A k \in 1 .. i - 1 : k \in 1 .. m /\ k < i
      BY <1>1
    <3>5. \A k \in 1 .. m : k < i => k \in 1 .. i - 1
      OBVIOUS
    <3> HIDE DEF g, Below, S
    <3>6. \A j : j \in Below(f[i]) <=> j \in Places(g, i - 1)
      BY <2>2, <3>1, <3>2, <3>3, <3>4, <3>5
    <3> QED BY <3>6
  <2> QED BY <2>1, <2>3, PlacesCount
<1>3. f[n] \in S
  BY DEF Places
<1>4. ASSUME NEW k \in S, Cardinality(Below(k)) = n - 1 PROVE k = f[n]
  <2>1. PICK i \in 1 .. m : k = f[i]
    BY DEF Places
  <2>2. i - 1 = n - 1
    BY <1>2, <1>4, <2>1
  <2> QED BY <2>1, <2>2
<1>5. Nth(S, n) = CHOOSE k \in S : Cardinality(Below(k)) = n - 1
  BY DEF Nth
<1>6. Cardinality(Below(f[n])) = n - 1
  BY <1>2
<1> HIDE DEF Below, S
<1> QED BY <1>3, <1>4, <1>5, <1>6 DEF S

\* One more number, above the others.
IsAbove(x, f, m) == x \in Int /\ \A i \in 1 .. m : f[i] < x
Continues(g, f, m, x) ==
    /\ Rises(g, m + 1) /\ Places(g, m + 1) = Places(f, m) \cup {x}
    /\ g[m + 1] = x /\ \A i \in 1 .. m : g[i] = f[i]

\* There are such numbers with x behind them.
LEMMA RiseFurther ==
    ASSUME NEW m, NEW f, Rises(f, m), NEW x, IsAbove(x, f, m)
    PROVE  \E g : Continues(g, f, m, x)
<1> DEFINE g == [i \in 1 .. m + 1 |-> IF i = m + 1 THEN x ELSE f[i]]
<1>0. x \in Int /\ \A i \in 1 .. m : f[i] < x
  BY DEF IsAbove
<1>1. m \in Nat /\ f \in [1 .. m -> Int] /\ \A i, j \in 1 .. m : i < j => f[i] < f[j]
  BY DEF Rises
<1>2. /\ \A i \in 1 .. m : i \in 1 .. m + 1 /\ i # m + 1
      /\ \A i \in 1 .. m + 1 : i = m + 1 \/ i \in 1 .. m
      /\ m + 1 \in 1 .. m + 1 /\ m + 1 \in Nat
  BY <1>1
<1>3. g[m + 1] = x /\ \A i \in 1 .. m : g[i] = f[i]
  BY <1>2
<1>4. g \in [1 .. m + 1 -> Int]
  BY <1>0, <1>1
<1> HIDE DEF g
<1>5. \A i, j \in 1 .. m + 1 : i < j => g[i] < g[j]
  <2> SUFFICES ASSUME NEW i \in 1 .. m + 1, NEW j \in 1 .. m + 1, i < j PROVE g[i] < g[j]
    OBVIOUS
  <2>1. i \in 1 .. m
    BY <1>1
  <2> QED BY <1>0, <1>1, <1>2, <1>3, <2>1
<1>6. Rises(g, m + 1)
  BY <1>2, <1>4, <1>5 DEF Rises
<1>7. Places(g, m + 1) = Places(f, m) \cup {x}
  <2>1. \A y : y \in Places(g, m + 1) <=> \E i \in 1 .. m + 1 : y = g[i]
    BY DEF Places
  <2>2. \A y : y \in Places(f, m) <=> \E i \in 1 .. m : y = f[i]
    BY DEF Places
  <2>3. \A y : y \in Places(g, m + 1) <=> y \in Places(f, m) \/ y = x
    BY <1>2, <1>3, <2>1, <2>2
  <2> QED BY <2>3
<1> QED BY <1>3, <1>6, <1>7 DEF Continues

\* Any numbers up to n are in some order.
LEMMA InOrder ==
    ASSUME NEW n \in Nat, NEW S, S \subseteq 1 .. n
    PROVE  \E m, f : Rises(f, m) /\ Places(f, m) = S
<1> DEFINE Up(k) == { x \in S : x <= k }
           R == { k \in Nat : k <= n => \E m, f : Rises(f, m) /\ Places(f, m) = Up(k) }
<1>0. \A x \in S : x \in Int /\ 1 <= x /\ x <= n
  OBVIOUS
<1>1. 0 \in R
  <2> DEFINE e == [i \in 1 .. 0 |-> 0]
  <2>1. Rises(e, 0)
    BY DEF Rises
  <2>2. Places(e, 0) = {}
    BY DEF Places
  <2>3. Up(0) = {}
    <3>1. \A x \in S : ~(x <= 0)
      BY <1>0
    <3> HIDE DEF R
    <3> QED BY <3>1
  <2> QED BY <2>1, <2>2, <2>3
<1>2. ASSUME NEW k \in 0 .. n - 1, k \in R PROVE k + 1 \in R
  <2>1. PICK m, f : Rises(f, m) /\ Places(f, m) = Up(k)
    BY <1>2
  <2>2. CASE k + 1 \notin S
    <3>1. Up(k + 1) = Up(k)
      <4>1. \A x \in S : x <= k + 1 <=> x <= k
        BY <1>0, <2>2
      <4> QED BY <4>1
    <3> QED BY <2>1, <3>1
  <2>3. CASE k + 1 \in S
    <3>1. f \in [1 .. m -> Int]
      BY <2>1 DEF Rises
    <3>2. \A i \in 1 .. m : f[i] \in Up(k)
      BY <2>1 DEF Places
    <3>3. \A i \in 1 .. m : f[i] < k + 1
      BY <3>1, <3>2
    <3>4. PICK g : Continues(g, f, m, k + 1)
      <4>1. IsAbove(k + 1, f, m)
        BY <3>3 DEF IsAbove
      <4> QED BY <2>1, <4>1, RiseFurther
    <3>5. Rises(g, m + 1) /\ Places(g, m + 1) = Up(k) \cup {k + 1}
      BY <2>1, <3>4 DEF Continues
    <3>10. Up(k + 1) = Up(k) \cup {k + 1}
      <4>1. \A x \in S : x <= k + 1 <=> x <= k \/ x = k + 1
        BY <1>0
      <4>2. k + 1 <= k + 1
        OBVIOUS
      <4> QED BY <2>3, <4>1, <4>2 DEF Up
    <3> HIDE DEF Up
    <3> QED BY <3>5, <3>10 DEF R
  <2> QED BY <2>2, <2>3
<1>3. Up(n) = S
  BY <1>0
<1> HIDE DEF R
<1>4. n \in R
  BY <1>1, <1>2, UpTo
<1> QED BY <1>3, <1>4 DEF R

\* What stands at these places.
LEMMA PickedIs ==
    ASSUME NEW m, NEW f, Rises(f, m), NEW s
    PROVE  Picked(s, Places(f, m)) = [n \in 1 .. m |-> s[f[n]]]
<1>1. Cardinality(Places(f, m)) = m
  BY PlacesCount
<1>2. \A n \in 1 .. m : Nth(Places(f, m), n) = f[n]
  BY NthIs
<1> QED BY <1>1, <1>2 DEF Picked
-----------------------------------------------------------------------------
(* split. *)

\* f goes over the separators d of s, with a place before and one behind the text.
Separates(f, m, s, d) ==
    /\ Rises(f, m) /\ m >= 2 /\ f[1] = 0 /\ f[m] = Len(s) + 1
    /\ \A k \in 1 .. Len(s) : s[k] = d <=> k \in Places(f, m)

\* What is between them.
Fields(s, f, m) == [n \in 1 .. m - 1 |-> SubSeq(s, f[n] + 1, f[n + 1] - 1)]

\* Split() finds the fields between the separators.
LEMMA SplitIs ==
    ASSUME NEW s \in Seq(Int), s # <<>>, NEW d, NEW m, NEW f, Separates(f, m, s, d)
    PROVE  Split(s, d) = Fields(s, f, m)
<1> DEFINE cuts == { k \in DOMAIN s : s[k] = d } \cup {0, Len(s) + 1}
<1>0. /\ Rises(f, m) /\ m >= 2 /\ f[1] = 0 /\ f[m] = Len(s) + 1
      /\ \A k \in 1 .. Len(s) : s[k] = d <=> k \in Places(f, m)
  BY DEF Separates
<1>1. m \in Nat /\ f \in [1 .. m -> Int] /\ \A i, j \in 1 .. m : i < j => f[i] < f[j]
  BY <1>0 DEF Rises
<1>2. DOMAIN s = 1 .. Len(s) /\ Len(s) \in Nat
  OBVIOUS
<1>3. \A i \in 1 .. m : f[i] \in {0, Len(s) + 1} \cup 1 .. Len(s)
  <2> SUFFICES ASSUME NEW i \in 1 .. m, i # 1, i # m
               PROVE  f[i] \in 1 .. Len(s)
    BY <1>0
  <2>1. 1 \in 1 .. m /\ m \in 1 .. m /\ 1 < i /\ i < m
    BY <1>0, <1>1
  <2>2. f[i] \in Int /\ f[1] < f[i] /\ f[i] < f[m]
    BY <1>1, <2>1
  <2> QED BY <1>0, <1>2, <2>2
<1>4. \A k : k \in Places(f, m) <=> \E i \in 1 .. m : k = f[i]
  BY DEF Places
<1>5. 0 \in Places(f, m) /\ Len(s) + 1 \in Places(f, m)
  <2>1. 1 \in 1 .. m /\ m \in 1 .. m
    BY <1>0, <1>1
  <2> QED BY <1>0, <1>4, <2>1
<1>6. \A k : k \in cuts <=> k \in {0, Len(s) + 1} \/ (k \in 1 .. Len(s) /\ s[k] = d)
  BY <1>2
<1> HIDE DEF cuts
<1>7. \A k \in Places(f, m) : k \in {0, Len(s) + 1} \cup 1 .. Len(s)
  BY <1>3, <1>4
<1>8. \A k : k \in cuts <=> k \in Places(f, m)
  BY <1>0, <1>5, <1>6, <1>7
<1>9. cuts = Places(f, m)
  BY <1>8
<1>10. Cardinality(cuts) = m /\ \A n \in 1 .. m : Nth(cuts, n) = f[n]
  BY <1>0, <1>9, PlacesCount, NthIs
<1>11. Split(s, d) = [n \in 1 .. Cardinality(cuts) - 1 |->
                       SubSeq(s, Nth(cuts, n) + 1, Nth(cuts, n + 1) - 1)]
  BY DEF Split, cuts
<1>12. \A n \in 1 .. m - 1 : n \in 1 .. m /\ n + 1 \in 1 .. m
  BY <1>1
<1>13. Split(s, d) = [n \in 1 .. m - 1 |-> SubSeq(s, f[n] + 1, f[n + 1] - 1)]
  BY <1>10, <1>11, <1>12
<1> QED BY <1>13 DEF Fields

\* A text without separators is one field.
LEMMA SplitOne ==
    ASSUME NEW s \in Seq(Int), s # <<>>, NEW d, \A k \in 1 .. Len(s) : s[k] # d
    PROVE  Split(s, d) = <<s>>
<1> DEFINE n == Len(s)
           f == [i \in 1 .. 2 |-> IF i = 1 THEN 0 ELSE n + 1]
<1>1. n \in Nat
  OBVIOUS
<1> HIDE DEF n
<1>2. f[1] = 0 /\ f[2] = n + 1
  OBVIOUS
<1>3. Rises(f, 2)
  BY <1>1 DEF Rises
<1>4. Places(f, 2) = {0, n + 1}
  <2>1. \A k : k \in Places(f, 2) <=> \E i \in 1 .. 2 : k = f[i]
    BY DEF Places
  <2>2. \A i \in 1 .. 2 : i = 1 \/ i = 2
    OBVIOUS
  <2>3. 1 \in 1 .. 2 /\ 2 \in 1 .. 2
    OBVIOUS
  <2> HIDE DEF f
  <2> QED BY <1>2, <2>1, <2>2, <2>3
<1>5. \A k \in 1 .. n : s[k] = d <=> k \in Places(f, 2)
  BY <1>1, <1>4 DEF n
<1> HIDE DEF f
<1>a. Separates(f, 2, s, d)
  BY <1>2, <1>3, <1>5 DEF Separates, n
<1>6. Split(s, d) = Fields(s, f, 2)
  BY <1>a, SplitIs
<1>7. SubSeq(s, f[1] + 1, f[1 + 1] - 1) = s
  <2>1. f[1] + 1 = 1 /\ f[1 + 1] - 1 = n
    BY <1>1, <1>2
  <2>2. SubSeq(s, 0 + 1, 0 + Len(s)) = s
    <3>1. 0 + Len(s) <= Len(s) /\ \A p \in 1 .. Len(s) : s[0 + p] = s[p]
      OBVIOUS
    <3> QED BY <3>1, PartIs
  <2> QED BY <1>1, <2>1, <2>2 DEF n
<1>8. 1 .. 2 - 1 = {1}
  OBVIOUS
<1>9. [i \in {1} |-> SubSeq(s, f[i] + 1, f[i + 1] - 1)] = <<s>>
  <2>1. <<s>> = [i \in {1} |-> s]
    OBVIOUS
  <2> QED BY <1>7, <2>1
<1> QED BY <1>6, <1>8, <1>9 DEF Fields

\* Two texts with a separator between them.
Joined(a, d, b) == a \o <<d>> \o b

\* Both texts are found in it, with the separator between them.
LEMMA JoinedIs ==
    ASSUME NEW a \in Seq(Int), NEW b \in Seq(Int), NEW d \in Int
    PROVE  /\ Joined(a, d, b) \in Seq(Int)
           /\ Len(Joined(a, d, b)) = Len(a) + 1 + Len(b)
           /\ FoundIn(Joined(a, d, b), 0, a)
           /\ Joined(a, d, b)[Len(a) + 1] = d
           /\ FoundIn(Joined(a, d, b), Len(a) + 1, b)
<1> DEFINE e == <<d>>
           u == a \o e
<1>1. e \in Seq(Int) /\ Len(e) = 1 /\ e[1] = d
  OBVIOUS
<1> HIDE DEF e
<1>2. u \in Seq(Int) /\ Len(u) = Len(a) + 1 /\ FoundIn(u, 0, a) /\ FoundIn(u, Len(a), e)
  <2>1. /\ u \in Seq(Int) /\ Len(u) = Len(a) + Len(e)
        /\ FoundIn(u, 0, a) /\ FoundIn(u, Len(a), e)
    BY ONLY a \in Seq(Int), <1>1, FoundBehind
  <2> HIDE DEF u
  <2> QED BY <1>1, <2>1
<1>3. u[Len(a) + 1] = d
  <2>1. 1 \in 1 .. Len(e)
    BY <1>1
  <2> QED BY <1>1, <1>2, <2>1 DEF FoundIn
<1> HIDE DEF u
<1>4. /\ u \o b \in Seq(Int) /\ Len(u \o b) = Len(u) + Len(b)
      /\ FoundIn(u \o b, 0, u) /\ FoundIn(u \o b, Len(u), b)
  BY <1>2, FoundBehind
<1>5. FoundIn(u \o b, 0 + 0, a)
  BY <1>2, <1>4, PartOfPart
<1>6. (u \o b)[Len(a) + 1] = d
  <2>1. Len(a) \in Nat
    OBVIOUS
  <2>2. Len(a) + 1 \in 1 .. Len(u) /\ 0 + (Len(a) + 1) = Len(a) + 1
    BY <1>2, <2>1
  <2>3. (u \o b)[0 + (Len(a) + 1)] = u[Len(a) + 1]
    BY <1>4, <2>2 DEF FoundIn
  <2> QED BY <1>3, <2>2, <2>3
<1>7. Joined(a, d, b) = u \o b
  BY DEF Joined, u, e
<1> QED BY <1>2, <1>4, <1>5, <1>6, <1>7

\* A part of a text, taken out of it.
LEMMA Taken ==
    ASSUME NEW s, NEW at, NEW t, FoundIn(s, at, t)
    PROVE  SubSeq(s, at + 1, at + Len(t)) = t
BY PartIs DEF FoundIn

\* A separator cuts a text in two.
LEMMA SplitTwo ==
    ASSUME NEW a \in Seq(Int), NEW b \in Seq(Int), NEW d \in Int,
           \A k \in 1 .. Len(a) : a[k] # d, \A k \in 1 .. Len(b) : b[k] # d
    PROVE  Split(Joined(a, d, b), d) = <<a, b>>
<1> DEFINE s == Joined(a, d, b)
           m == Len(a)
           n == Len(b)
           f == [i \in 1 .. 3 |-> IF i = 1 THEN 0 ELSE IF i = 2 THEN m + 1 ELSE m + 1 + n + 1]
<1>1. /\ s \in Seq(Int) /\ Len(s) = m + 1 + n /\ s[m + 1] = d
      /\ FoundIn(s, 0, a) /\ FoundIn(s, m + 1, b)
  BY JoinedIs
<1>2. m \in Nat /\ n \in Nat
  OBVIOUS
<1>a. /\ \A k \in 1 .. m : s[k] = a[k]
      /\ \A k \in 1 .. n : s[m + 1 + k] = b[k]
  <2>1. \A k \in 1 .. m : 0 + k = k
    BY <1>2
  <2> QED BY <1>1, <2>1 DEF FoundIn
<1> HIDE DEF m, n, s
<1>3. f[1] = 0 /\ f[2] = m + 1 /\ f[3] = m + 1 + n + 1
  OBVIOUS
<1>4. Rises(f, 3)
  BY <1>2 DEF Rises
<1>5. Places(f, 3) = {0, m + 1, m + 1 + n + 1}
  <2>1. \A k : k \in Places(f, 3) <=> \E i \in 1 .. 3 : k = f[i]
    BY DEF Places
  <2>2. \A i \in 1 .. 3 : i = 1 \/ i = 2 \/ i = 3
    OBVIOUS
  <2>3. 1 \in 1 .. 3 /\ 2 \in 1 .. 3 /\ 3 \in 1 .. 3
    OBVIOUS
  <2> HIDE DEF f
  <2> QED BY <1>3, <2>1, <2>2, <2>3
<1> HIDE DEF f
<1>6. ASSUME NEW k \in 1 .. Len(s) PROVE s[k] = d <=> k \in Places(f, 3)
  <2>1. CASE k <= m
    <3>0. k \in 1 .. m /\ k # m + 1 /\ k # 0 /\ k # m + 1 + n + 1
      BY <1>2, <2>1
    <3>1. s[k] # d
      BY <1>a, <3>0 DEF m
    <3> QED BY <1>5, <3>0, <3>1
  <2>2. CASE k = m + 1
    BY <1>1, <1>5, <2>2
  <2>3. CASE k > m + 1
    <3>1. k - (m + 1) \in 1 .. n /\ m + 1 + (k - (m + 1)) = k
      BY <1>1, <1>2, <2>3
    <3>2. s[k] # d
      BY <1>a, <3>1 DEF n
    <3>3. k # m + 1 /\ k # 0 /\ k # m + 1 + n + 1
      BY <1>1, <1>2, <2>3
    <3> QED BY <1>5, <3>2, <3>3
  <2> QED BY <1>1, <1>2, <2>1, <2>2, <2>3
<1>7. Separates(f, 3, s, d)
  BY <1>1, <1>3, <1>4, <1>6 DEF Separates
<1>8. s # <<>>
  BY <1>1, <1>2
<1>9. Split(s, d) = Fields(s, f, 3)
  <2>1. s \in Seq(Int)
    BY <1>1
  <2> QED BY ONLY <2>1, <1>7, <1>8, SplitIs
<1>10. SubSeq(s, f[1] + 1, f[1 + 1] - 1) = a
  <2>1. f[1] + 1 = 0 + 1 /\ f[1 + 1] - 1 = 0 + Len(a)
    BY <1>2, <1>3 DEF m
  <2>2. SubSeq(s, 0 + 1, 0 + Len(a)) = a
    BY <1>1, Taken
  <2> QED BY ONLY <2>1, <2>2
<1>11. SubSeq(s, f[2] + 1, f[2 + 1] - 1) = b
  <2>1. f[2] + 1 = (m + 1) + 1 /\ f[2 + 1] - 1 = (m + 1) + Len(b)
    BY <1>2, <1>3 DEF n
  <2>2. SubSeq(s, (m + 1) + 1, (m + 1) + Len(b)) = b
    BY <1>1, Taken
  <2> QED BY ONLY <2>1, <2>2
<1>12. 1 .. 3 - 1 = {1, 2}
  OBVIOUS
<1>13. <<a, b>> = [i \in {1, 2} |-> IF i = 1 THEN a ELSE b]
  OBVIOUS
<1>14. Fields(s, f, 3) = <<a, b>>
  <2>1. Fields(s, f, 3) = [i \in {1, 2} |-> SubSeq(s, f[i] + 1, f[i + 1] - 1)]
    BY <1>12 DEF Fields
  <2> QED BY <2>1, <1>10, <1>11, <1>13
<1> QED BY <1>9, <1>14 DEF s

\* Two separators cut it in three.
LEMMA SplitThree ==
    ASSUME NEW a \in Seq(Int), NEW b \in Seq(Int), NEW c \in Seq(Int), NEW d \in Int,
           \A k \in 1 .. Len(a) : a[k] # d, \A k \in 1 .. Len(b) : b[k] # d,
           \A k \in 1 .. Len(c) : c[k] # d
    PROVE  Split(Joined(Joined(a, d, b), d, c), d) = <<a, b, c>>
<1> DEFINE u == Joined(a, d, b)
           s == Joined(u, d, c)
           m == Len(a)
           n == Len(b)
           q == Len(c)
           x == m + 1
           y == x + n + 1
           z == y + q + 1
           f == [i \in 1 .. 4 |-> IF i = 1 THEN 0 ELSE IF i = 2 THEN x ELSE IF i = 3 THEN y ELSE z]
<1>1. m \in Nat /\ n \in Nat /\ q \in Nat
  OBVIOUS
<1>2. /\ u \in Seq(Int) /\ Len(u) = m + 1 + n /\ u[m + 1] = d
      /\ FoundIn(u, 0, a) /\ FoundIn(u, m + 1, b)
  BY JoinedIs
<1> HIDE DEF u
<1>3. /\ s \in Seq(Int) /\ Len(s) = Len(u) + 1 + q /\ s[Len(u) + 1] = d
      /\ FoundIn(s, 0, u) /\ FoundIn(s, Len(u) + 1, c)
  BY <1>2, JoinedIs
<1> HIDE DEF s
<1>4. FoundIn(s, 0 + 0, a) /\ FoundIn(s, 0 + (m + 1), b)
  BY ONLY <1>2, <1>3, PartOfPart
<1>5. s[0 + (m + 1)] = d
  <2>1. m + 1 \in 1 .. Len(u)
    BY <1>1, <1>2
  <2> QED BY <1>2, <1>3, <2>1 DEF FoundIn
<1> HIDE DEF m, n, q
<1>6. /\ x \in Nat /\ y \in Nat /\ z \in Nat /\ 0 < x /\ x < y /\ y < z /\ Len(s) + 1 = z
      /\ Len(u) + 1 = y /\ 0 + (m + 1) = x /\ 0 + 0 = 0
  BY <1>1, <1>2, <1>3
<1>7. /\ FoundIn(s, 0, a) /\ FoundIn(s, x, b) /\ FoundIn(s, y, c) /\ s[x] = d /\ s[y] = d
  BY <1>3, <1>4, <1>5, <1>6
<1>8. x - 1 = m /\ y - 1 = x + n /\ z - 1 = y + q
  BY <1>1
<1> HIDE DEF x, y, z
<1>9. f[1] = 0 /\ f[2] = x /\ f[3] = y /\ f[4] = z
  OBVIOUS
<1>10. Rises(f, 4)
  BY <1>6 DEF Rises
<1>11. Places(f, 4) = {0, x, y, z}
  <2>1. \A k : k \in Places(f, 4) <=> \E i \in 1 .. 4 : k = f[i]
    BY DEF Places
  <2>2. \A i \in 1 .. 4 : i = 1 \/ i = 2 \/ i = 3 \/ i = 4
    OBVIOUS
  <2>3. 1 \in 1 .. 4 /\ 2 \in 1 .. 4 /\ 3 \in 1 .. 4 /\ 4 \in 1 .. 4
    OBVIOUS
  <2> HIDE DEF f
  <2> QED BY <1>9, <2>1, <2>2, <2>3
<1> HIDE DEF f
<1>12. ASSUME NEW k \in 1 .. Len(s) PROVE s[k] = d <=> k \in Places(f, 4)
  <2>0. k \in Nat /\ k # 0 /\ k # z
    BY <1>6
  <2>1. CASE k < x
    <3>1. k \in 1 .. m /\ 0 + k = k
      BY <1>1, <1>6, <1>8, <2>1
    <3>2. s[k] = a[k] /\ a[k] # d
      BY <1>7, <3>1 DEF m, FoundIn
    <3>3. k # x /\ k # y
      BY <1>6, <2>1
    <3> QED BY <1>11, <2>0, <3>2, <3>3
  <2>2. CASE k = x \/ k = y
    BY <1>7, <1>11, <2>2
  <2>3. CASE k > x /\ k < y
    <3>1. k - x \in 1 .. n /\ x + (k - x) = k
      BY <1>1, <1>6, <1>8, <2>3
    <3>2. s[x + (k - x)] = b[k - x] /\ b[k - x] # d
      BY <1>7, <3>1 DEF n, FoundIn
    <3>3. k # x /\ k # y
      BY <1>6, <2>3
    <3> QED BY <1>11, <2>0, <3>1, <3>2, <3>3
  <2>4. CASE k > y
    <3>1. k - y \in 1 .. q /\ y + (k - y) = k
      BY <1>1, <1>6, <1>8, <2>4
    <3>2. s[y + (k - y)] = c[k - y] /\ c[k - y] # d
      BY <1>7, <3>1 DEF q, FoundIn
    <3>3. k # x /\ k # y
      BY <1>6, <2>4
    <3> QED BY <1>11, <2>0, <3>1, <3>2, <3>3
  <2> QED BY <1>6, <2>0, <2>1, <2>2, <2>3, <2>4
<1>13. Separates(f, 4, s, d)
  BY <1>6, <1>9, <1>10, <1>12 DEF Separates
<1>14. s # <<>> /\ s \in Seq(Int)
  BY <1>3, <1>6
<1>15. Split(s, d) = Fields(s, f, 4)
  BY ONLY <1>13, <1>14, SplitIs
<1>16. /\ SubSeq(s, f[1] + 1, f[1 + 1] - 1) = a
       /\ SubSeq(s, f[2] + 1, f[2 + 1] - 1) = b
       /\ SubSeq(s, f[3] + 1, f[3 + 1] - 1) = c
  <2>1. SubSeq(s, 0 + 1, 0 + m) = a /\ SubSeq(s, x + 1, x + n) = b /\ SubSeq(s, y + 1, y + q) = c
    BY <1>7, Taken DEF m, n, q
  <2>2. 0 + m = x - 1
    BY <1>1, <1>8
  <2> QED BY <1>8, <1>9, <2>1, <2>2
<1>17. Fields(s, f, 4) = [i \in {1, 2, 3} |-> SubSeq(s, f[i] + 1, f[i + 1] - 1)]
  <2>1. 1 .. 4 - 1 = {1, 2, 3}
    OBVIOUS
  <2> QED BY <2>1 DEF Fields
<1>18. <<a, b, c>> = [i \in {1, 2, 3} |-> IF i = 1 THEN a ELSE IF i = 2 THEN b ELSE c]
  OBVIOUS
<1>19. Fields(s, f, 4) = <<a, b, c>>
  BY ONLY <1>16, <1>17, <1>18
<1> QED BY <1>15, <1>19 DEF s, u
-----------------------------------------------------------------------------
(* decode_url. *)

\* What it makes of s from place k on, with g for what follows.
IsCode(s, k) == k < Len(s) /\ s[k] = Percent /\ s[k + 1] = 117 /\ HexAt(s, k + 2, 4)
IsByte(s, k) == s[k] = Percent /\ HexAt(s, k + 1, 2)
Decoded(s, g, k) ==
    CASE k > Len(s) -> <<>>
      [] k <= Len(s) /\ IsCode(s, k) -> ToUtf8(HexNumber(SubSeq(s, k + 2, k + 5))) \o g[k + 6]
      [] k <= Len(s) /\ IsByte(s, k) -> <<HexNumber(SubSeq(s, k + 1, k + 2))>> \o g[k + 3]
      [] OTHER -> <<IF s[k] = Plus THEN Space ELSE s[k]>> \o g[k + 1]
Decodes(g, s, from) == \A k \in from .. Len(s) + 1 : g[k] = Decoded(s, g, k)

\* A code is no byte, for u is no digit.
LEMMA CodeIsNoByte ==
    ASSUME NEW s, NEW k \in Nat, IsCode(s, k)
    PROVE  ~IsByte(s, k)
<1>1. ~IsHex(117)
  BY DEF IsHex, Digits
<1>2. k + 1 \in k + 1 .. k + 1 + 2 - 1
  OBVIOUS
<1> QED BY <1>1, <1>2 DEF IsCode, IsByte, HexAt

\* It depends on what is behind k only.
LEMMA DecodesAhead ==
    ASSUME NEW s \in Seq(Int), NEW g, NEW h, NEW k \in 1 .. Len(s) + 1,
           \A j \in k + 1 .. Len(s) + 1 : g[j] = h[j]
    PROVE  Decoded(s, g, k) = Decoded(s, h, k)
<1>1. Len(s) \in Nat /\ k \in Nat
  OBVIOUS
<1>2. CASE k > Len(s)
  BY <1>2 DEF Decoded
<1>3. CASE k <= Len(s) /\ IsCode(s, k)
  <2>1. k + 6 \in k + 1 .. Len(s) + 1
    <3>1. (k + 2) + 4 - 1 <= Len(s)
      BY <1>3 DEF IsCode, HexAt
    <3> QED BY <1>1, <3>1
  <2>2. g[k + 6] = h[k + 6]
    BY <2>1
  <2>3. ~IsByte(s, k)
    BY <1>1, <1>3, CodeIsNoByte
  <2> QED BY <2>2, <2>3, <1>1, <1>3 DEF Decoded
<1>4. CASE k <= Len(s) /\ ~IsCode(s, k) /\ IsByte(s, k)
  <2>1. k + 3 \in k + 1 .. Len(s) + 1
    <3>1. (k + 1) + 2 - 1 <= Len(s)
      BY <1>4 DEF IsByte, HexAt
    <3> QED BY <1>1, <3>1
  <2>2. g[k + 3] = h[k + 3]
    BY <2>1
  <2> QED BY <2>2, <1>1, <1>4 DEF Decoded
<1>5. CASE k <= Len(s) /\ ~IsCode(s, k) /\ ~IsByte(s, k)
  <2>1. k + 1 \in k + 1 .. Len(s) + 1
    BY <1>1, <1>5
  <2>2. g[k + 1] = h[k + 1]
    BY <2>1
  <2> QED BY <2>2, <1>1, <1>5 DEF Decoded
<1> QED BY <1>1, <1>2, <1>3, <1>4, <1>5

\* There is such a function.
LEMMA DecodingExists ==
    ASSUME NEW s \in Seq(Int)
    PROVE  \E g : g = [k \in 1 .. Len(s) + 1 |-> Decoded(s, g, k)]
<1> DEFINE n == Len(s)
           S == { m \in Nat : m <= n => \E g : Decodes(g, s, n + 1 - m) }
<1>0. n \in Nat
  OBVIOUS
<1> HIDE DEF n
<1>1. 0 \in S
  <2> DEFINE e == [k \in {n + 1} |-> <<>>]
  <2>1. \A k \in n + 1 .. n + 1 : k = n + 1 /\ k > n
    BY <1>0
  <2>2. \A k \in n + 1 .. n + 1 : e[k] = <<>> /\ Decoded(s, e, k) = <<>>
    BY <2>1 DEF Decoded, n
  <2>3. n + 1 - 0 = n + 1
    BY <1>0
  <2>4. Decodes(e, s, n + 1 - 0)
    BY <2>2, <2>3 DEF Decodes, n
  <2> QED BY <2>4
<1>2. ASSUME NEW m \in 0 .. n - 1, m \in S PROVE m + 1 \in S
  <2> DEFINE at == n + 1 - (m + 1)
  <2>0. at \in 1 .. n /\ n + 1 - m = at + 1 /\ m <= n /\ m + 1 \in Nat
    BY <1>0
  <2>1. PICK g : Decodes(g, s, at + 1)
    BY <1>2, <2>0
  <2> HIDE DEF at
  <2> DEFINE h == [k \in at .. n + 1 |-> IF k = at THEN Decoded(s, g, at) ELSE g[k]]
  <2>2. /\ \A k \in at + 1 .. n + 1 : k \in at .. n + 1 /\ k # at
        /\ \A k \in at .. n + 1 : k = at \/ k \in at + 1 .. n + 1
        /\ at \in at .. n + 1
    BY <1>0, <2>0
  <2>3. h[at] = Decoded(s, g, at) /\ \A k \in at + 1 .. n + 1 : h[k] = g[k]
    BY <2>2
  <2> HIDE DEF h
  <2>4. ASSUME NEW k \in at .. n + 1 PROVE h[k] = Decoded(s, h, k)
    <3>1. k \in 1 .. n + 1 /\ \A j \in k + 1 .. n + 1 : j \in at + 1 .. n + 1
      BY <1>0, <2>0
    <3>2. \A j \in k + 1 .. n + 1 : g[j] = h[j]
      BY <2>3, <3>1
    <3>3. Decoded(s, g, k) = Decoded(s, h, k)
      BY <3>1, <3>2, DecodesAhead DEF n
    <3>4. h[k] = Decoded(s, g, k)
      <4>1. CASE k = at
        BY <2>3, <4>1
      <4>2. CASE k \in at + 1 .. n + 1
        BY <2>1, <2>3, <4>2 DEF Decodes, n
      <4> QED BY <2>2, <4>1, <4>2
    <3> QED BY <3>3, <3>4
  <2>5. Decodes(h, s, at)
    BY <2>4 DEF Decodes, n
  <2> QED BY <2>0, <2>5 DEF at
<1> HIDE DEF S
<1>3. n \in S
  BY <1>0, <1>1, <1>2, UpTo
<1>4. PICK g : Decodes(g, s, 1)
  <2>1. n + 1 - n = 1 /\ n <= n
    BY <1>0
  <2> QED BY <1>3, <2>1 DEF S
<1> DEFINE h == [k \in 1 .. n + 1 |-> g[k]]
<1>5. ASSUME NEW k \in 1 .. n + 1 PROVE h[k] = Decoded(s, h, k)
  <2>1. \A j \in 1 .. n + 1 : g[j] = h[j]
    OBVIOUS
  <2> HIDE DEF h
  <2>2. \A j \in k + 1 .. n + 1 : j \in 1 .. n + 1
    BY <1>0
  <2>3. Decoded(s, g, k) = Decoded(s, h, k)
    BY <2>1, <2>2, DecodesAhead DEF n
  <2> QED BY <1>4, <2>1, <2>3 DEF Decodes, n
<1>6. h = [k \in 1 .. n + 1 |-> Decoded(s, h, k)]
  BY <1>5
<1> HIDE DEF h
<1> QED BY <1>6 DEF n

\* It is the one that decode_url follows.
LEMMA DecodeUrlFollows ==
    ASSUME NEW s \in Seq(Int)
    PROVE  \E g : Decodes(g, s, 1) /\ DecodeUrl(s) = g[1]
<1> DEFINE Is(h) == h = [k \in 1 .. Len(s) + 1 |-> Decoded(s, h, k)]
           f == CHOOSE h : Is(h)
<1>1. DecodeUrl(s) = f[1]
  BY DEF DecodeUrl, Decoded, IsCode, IsByte
<1>2. Is(f)
  BY DecodingExists
<1>3. \A k \in 1 .. Len(s) + 1 : f[k] = Decoded(s, f, k)
  BY <1>2
<1> HIDE DEF f
<1> QED BY <1>1, <1>3 DEF Decodes

\* Two hex digits.
LEMMA HexTwo ==
    ASSUME NEW s \in Seq(Int), Len(s) = 2
    PROVE  HexNumber(s) = HexValue(s[1]) * 16 + HexValue(s[2])
<1> DEFINE Is(v) == v = [k \in 0 .. Len(s) |-> IF k = 0 THEN 0 ELSE v[k - 1] * 16 + HexValue(s[k])]
           f == CHOOSE v : Is(v)
           a == HexValue(s[1])
           b == HexValue(s[2])
           r == [k \in 0 .. 2 |-> IF k = 0 THEN 0
                                  ELSE IF k = 1 THEN 0 * 16 + a ELSE (0 * 16 + a) * 16 + b]
<1>1. HexNumber(s) = f[Len(s)]
  BY DEF HexNumber
<1>2. s[1] \in Int /\ s[2] \in Int
  OBVIOUS
<1>3. a \in Int /\ b \in Int
  <2>1. \A c \in Int : HexValue(c) \in Int
    BY ONLY TRUE DEF HexValue, Digits
  <2> QED BY ONLY <1>2, <2>1
<1>4. Is(r)
  <2>1. r[0] = 0 /\ r[1] = 0 * 16 + a /\ r[2] = (0 * 16 + a) * 16 + b
    OBVIOUS
  <2>2. \A k \in 0 .. 2 : k = 0 \/ k = 1 \/ k = 2
    OBVIOUS
  <2>3. 1 - 1 = 0 /\ 2 - 1 = 1
    OBVIOUS
  <2>4. \A k \in 0 .. 2 : r[k] = IF k = 0 THEN 0 ELSE r[k - 1] * 16 + HexValue(s[k])
    <3> HIDE DEF r
    <3> QED BY <2>1, <2>2, <2>3
  <2>5. r = [k \in 0 .. 2 |-> r[k]]
    OBVIOUS
  <2> HIDE DEF r, a, b
  <2> QED BY <2>4, <2>5
<1>5. Is(f)
  BY <1>4
<1>6. \A k \in 0 .. 2 : f[k] = IF k = 0 THEN 0 ELSE f[k - 1] * 16 + HexValue(s[k])
  BY <1>5
<1> HIDE DEF f
<1>7. f[0] = 0
  BY <1>6
<1>8. f[1] = f[1 - 1] * 16 + HexValue(s[1])
  <2>1. 1 \in 0 .. 2
    OBVIOUS
  <2> QED BY <1>6, <2>1
<1>9. f[2] = f[2 - 1] * 16 + HexValue(s[2])
  <2>1. 2 \in 0 .. 2
    OBVIOUS
  <2> QED BY <1>6, <2>1
<1> HIDE DEF a, b
<1>10. f[1] = a
  BY <1>3, <1>7, <1>8 DEF a
<1>11. f[2] = a * 16 + b
  BY <1>9, <1>10 DEF b
<1> QED BY <1>1, <1>11 DEF a, b

\* What the browser makes of one letter.
Encoded(c, blank) ==
    IF c \in Unreserved THEN <<c>>
    ELSE IF c = Space THEN blank
    ELSE <<Percent, HexDigit(c \div 16), HexDigit(c % 16)>>

\* The letters it makes it of: no separator and no NUL among them.
Safe == Unreserved \cup {Plus, Percent} \cup 48 .. 57 \cup 65 .. 70

\* Hex digits mean what they are made of.
LEMMA HexDigitIs ==
    ASSUME NEW n \in 0 .. 15
    PROVE  /\ HexDigit(n) \in 48 .. 57 \cup 65 .. 70
           /\ IsHex(HexDigit(n)) /\ HexDigit(n) # 117 /\ HexValue(HexDigit(n)) = n
<1>1. CASE n < 10
  BY <1>1 DEF HexDigit, IsHex, HexValue, Digits
<1>2. CASE ~(n < 10)
  BY <1>2 DEF HexDigit, IsHex, HexValue, Digits
<1> QED BY <1>1, <1>2

\* What stands for the letter c.
StandsFor(e, c) ==
    /\ c \in 1 .. 255 /\ e \in Seq(Safe) /\ e \in Seq(Int)
    /\ \/ e = <<c>> /\ c # Percent /\ c # Plus
       \/ e = <<Plus>> /\ c = Space
       \/ /\ Len(e) = 3 /\ e[1] = Percent /\ e[2] # 117
          /\ IsHex(e[2]) /\ IsHex(e[3])
          /\ HexValue(e[2]) * 16 + HexValue(e[3]) = c

\* What is written for a letter stands for it.
LEMMA EncodedIs ==
    ASSUME NEW c \in 1 .. 255, NEW blank \in Blanks
    PROVE  StandsFor(Encoded(c, blank), c)
<1> DEFINE e == Encoded(c, blank)
<1>0. Safe \subseteq Int /\ Percent \in Safe /\ Plus \in Safe
  BY DEF Safe, Unreserved, Digits, Letters, Minus, Dot, Plus, Percent
<1>a. \A s : s \in Seq(Safe) => s \in Seq(Int)
  <2> HIDE DEF e
  <2> QED BY <1>0, SeqMonotonic
<1>1. CASE c \in Unreserved
  <2>1. c # Percent /\ c # Plus
    BY <1>1 DEF Unreserved, Digits, Letters, Minus, Dot, Plus, Percent
  <2>2. e = <<c>> /\ c \in Safe
    BY <1>1 DEF Encoded, Safe
  <2>3. e \in Seq(Safe)
    BY <2>2
  <2> HIDE DEF e
  <2> QED BY <1>a, <2>1, <2>2, <2>3 DEF StandsFor, e
<1>2. CASE c \notin Unreserved /\ c = Space /\ blank = <<Plus>>
  <2>1. e = <<Plus>>
    BY <1>2 DEF Encoded
  <2>2. e \in Seq(Safe)
    BY <1>0, <2>1
  <2> HIDE DEF e
  <2> QED BY <1>a, <1>2, <2>1, <2>2 DEF StandsFor, e
<1>3. CASE c \notin Unreserved /\ c = Space /\ blank = <<Percent, 50, 48>>
  <2>1. e = <<Percent, 50, 48>>
    BY <1>3 DEF Encoded
  <2>2. 50 \in Safe /\ 48 \in Safe
    BY DEF Safe
  <2>3. /\ IsHex(50) /\ IsHex(48) /\ 50 # 117 /\ HexValue(50) = 2 /\ HexValue(48) = 0 /\ c = 32
    BY <1>3 DEF IsHex, HexValue, Digits, Space
  <2>4. Len(e) = 3 /\ e[1] = Percent /\ e[2] = 50 /\ e[3] = 48 /\ e \in Seq(Safe)
    BY <1>0, <2>1, <2>2
  <2>5. HexValue(e[2]) * 16 + HexValue(e[3]) = c
    BY <2>3, <2>4
  <2> HIDE DEF e
  <2> QED BY <1>a, <2>3, <2>4, <2>5 DEF e, StandsFor
<1>4. CASE c \notin Unreserved /\ c # Space
  <2> DEFINE x == c \div 16
             y == c % 16
  <2>1. x \in 0 .. 15 /\ y \in 0 .. 15 /\ x * 16 + y = c
    OBVIOUS
  <2> HIDE DEF x, y
  <2>2. e = <<Percent, HexDigit(x), HexDigit(y)>>
    BY <1>4 DEF Encoded, x, y
  <2>3. /\ HexDigit(x) \in Safe /\ IsHex(HexDigit(x)) /\ HexDigit(x) # 117
        /\ HexValue(HexDigit(x)) = x
        /\ HexDigit(y) \in Safe /\ IsHex(HexDigit(y)) /\ HexValue(HexDigit(y)) = y
    BY <2>1, HexDigitIs DEF Safe
  <2> HIDE DEF e
  <2>4. Len(e) = 3 /\ e[1] = Percent /\ e[2] = HexDigit(x) /\ e[3] = HexDigit(y) /\ e \in Seq(Safe)
    BY <1>0, <2>2, <2>3
  <2>5. HexValue(e[2]) * 16 + HexValue(e[3]) = c
    BY <2>1, <2>3, <2>4
  <2> QED BY <1>a, <2>3, <2>4, <2>5 DEF e, StandsFor
<1> HIDE DEF e
<1> QED BY <1>1, <1>2, <1>3, <1>4 DEF Blanks, e

\* ReadsOn(h, p, e, c): behind place p, h has the letter c and what it has behind e.
ReadsOn(h, p, e, c) == h[p + 1] = <<c>> \o h[p + Len(e) + 1]

\* A letter is decoded, and what follows after it.
LEMMA OneLetter ==
    ASSUME NEW s \in Seq(Int), NEW h, Decodes(h, s, 1), NEW p, NEW e, FoundIn(s, p, e),
           NEW c, StandsFor(e, c)
    PROVE  ReadsOn(h, p, e, c)
<1>0. c \in 1 .. 255
  BY DEF StandsFor
<1> DEFINE k == p + 1
           n == Len(s)
<1>1. /\ p \in Nat /\ n \in Nat /\ e \in Seq(Int) /\ Len(e) \in Nat /\ p + Len(e) <= n
      /\ \A i \in 1 .. Len(e) : s[p + i] = e[i]
  BY DEF FoundIn
<1> HIDE DEF n
<1>2. Len(e) # 0 => h[k] = Decoded(s, h, k) /\ k <= n /\ ~(k > n) /\ k \in Nat
  <2> SUFFICES ASSUME Len(e) # 0
               PROVE  h[k] = Decoded(s, h, k) /\ k <= n /\ ~(k > n) /\ k \in Nat
    OBVIOUS
  <2>1. k <= n /\ ~(k > n) /\ k \in Nat /\ k \in 1 .. n + 1
    BY <1>1
  <2> HIDE DEF k
  <2> QED BY <2>1 DEF Decodes, n
<1>3. CASE Len(e) = 1 /\ e[1] # Percent /\ c = (IF e[1] = Plus THEN Space ELSE e[1])
  <2>1. s[k] = e[1]
    BY <1>1, <1>3
  <2>2. ~IsCode(s, k) /\ ~IsByte(s, k)
    BY <1>3, <2>1 DEF IsCode, IsByte
  <2>3. h[k] = <<c>> \o h[k + 1]
    BY <1>2, <1>3, <2>1, <2>2 DEF Decoded, n
  <2>4. p + Len(e) + 1 = k + 1
    BY <1>1, <1>3
  <2> QED BY <2>3, <2>4 DEF ReadsOn
<1>4. CASE /\ Len(e) = 3 /\ e[1] = Percent /\ e[2] # 117
           /\ IsHex(e[2]) /\ IsHex(e[3])
           /\ HexValue(e[2]) * 16 + HexValue(e[3]) = c
  <2>1. /\ p + 1 = k /\ p + 2 = k + 1 /\ p + 3 = k + 2 /\ k + 2 <= n
        /\ s[k] = e[1] /\ s[k + 1] = e[2] /\ s[k + 2] = e[3]
    <3>1. 1 \in 1 .. Len(e) /\ 2 \in 1 .. Len(e) /\ 3 \in 1 .. Len(e)
      BY <1>4
    <3>2. p + 1 = k /\ p + 2 = k + 1 /\ p + 3 = k + 2 /\ k + 2 <= n
      BY <1>1, <1>4
    <3> QED BY <1>1, <3>1, <3>2
  <2>2. ~IsCode(s, k)
    BY <1>4, <2>1 DEF IsCode
  <2>3. IsByte(s, k)
    <3>1. \A j \in k + 1 .. k + 1 + 2 - 1 : j = k + 1 \/ j = k + 2
      BY <1>1
    <3>2. k + 1 + 2 - 1 <= n
      BY <1>1, <2>1
    <3> QED BY <1>4, <2>1, <3>1, <3>2 DEF IsByte, HexAt, n
  <2> DEFINE d == SubSeq(s, k + 1, k + 2)
  <2>4. d \in Seq(Int) /\ Len(d) = 2 /\ d[1] = e[2] /\ d[2] = e[3]
    <3>0. k + 1 \in Int /\ k + 2 \in Int /\ \A i \in k + 1 .. k + 2 : i \in 1 .. n
      BY <1>1, <2>1
    <3>1. \A i \in k + 1 .. k + 2 : s[i] \in Int
      BY <3>0 DEF n
    <3>2. /\ d \in Seq(Int) /\ Len(d) = IF k + 1 <= k + 2 THEN (k + 2) - (k + 1) + 1 ELSE 0
          /\ \A i \in 1 .. (k + 2) - (k + 1) + 1 : d[i] = s[(k + 1) + i - 1]
      BY <3>0, <3>1, SubSeqProperties
    <3>3. /\ (k + 2) - (k + 1) + 1 = 2 /\ k + 1 <= k + 2
          /\ (k + 1) + 1 - 1 = k + 1 /\ (k + 1) + 2 - 1 = k + 2
      BY <1>1
    <3>4. 1 \in 1 .. 2 /\ 2 \in 1 .. 2
      OBVIOUS
    <3> DEFINE m == (k + 2) - (k + 1) + 1
    <3> HIDE DEF d, m
    <3>5. m = 2 /\ d \in Seq(Int) /\ Len(d) = m
      BY <3>2, <3>3 DEF m
    <3>6. d[1] = s[(k + 1) + 1 - 1] /\ d[2] = s[(k + 1) + 2 - 1]
      BY <3>2, <3>4, <3>5 DEF m
    <3> QED BY <2>1, <3>3, <3>5, <3>6
  <2> HIDE DEF d
  <2>5. HexNumber(d) = c
    BY <1>4, <2>4, HexTwo
  <2>6. h[k] = <<c>> \o h[k + 3]
    BY <1>2, <1>4, <2>2, <2>3, <2>5 DEF Decoded, n, d
  <2>7. p + Len(e) + 1 = k + 3
    BY <1>1, <1>4
  <2> QED BY <2>6, <2>7 DEF ReadsOn
<1> QED
  <2>1. e = <<c>> => Len(e) = 1 /\ e[1] = c
    OBVIOUS
  <2>2. e = <<Plus>> => Len(e) = 1 /\ e[1] = Plus
    OBVIOUS
  <2>3. Plus # Percent
    BY DEF Plus, Percent
  <2> HIDE DEF k
  <2> QED BY <1>3, <1>4, <2>1, <2>2, <2>3 DEF StandsFor, k

\* A text from a place on.
LEMMA FromOn ==
    ASSUME NEW s \in Seq(Int), NEW k \in 1 .. Len(s)
    PROVE  <<s[k]>> \o SubSeq(s, k + 1, Len(s)) = SubSeq(s, k, Len(s))
<1> DEFINE n == Len(s)
           a == <<s[k]>>
           b == SubSeq(s, k + 1, n)
           c == SubSeq(s, k, n)
<1>1. n \in Nat /\ s[k] \in Int /\ \A i \in 1 .. n : s[i] \in Int
  OBVIOUS
<1>2. a \in Seq(Int) /\ Len(a) = 1 /\ a[1] = s[k]
  BY <1>1
<1> HIDE DEF n
<1>3. /\ b \in Seq(Int) /\ Len(b) = n - k
      /\ \A i \in 1 .. n - k : b[i] = s[k + i]
  <2>1. k + 1 \in Int /\ n \in Int /\ \A i \in k + 1 .. n : s[i] \in Int
    BY <1>1
  <2>2. /\ b \in Seq(Int) /\ Len(b) = IF k + 1 <= n THEN n - (k + 1) + 1 ELSE 0
        /\ \A i \in 1 .. n - (k + 1) + 1 : b[i] = s[(k + 1) + i - 1]
    BY <2>1, SubSeqProperties
  <2>3. n - (k + 1) + 1 = n - k /\ \A i \in Int : (k + 1) + i - 1 = k + i
    BY <1>1
  <2>4. k <= n
    BY DEF n
  <2>5. ~(k + 1 <= n) => n - k = 0
    BY <1>1, <2>4
  <2> HIDE DEF b
  <2> QED BY <2>2, <2>3, <2>5
<1>4. /\ c \in Seq(Int) /\ Len(c) = n - k + 1
      /\ \A i \in 1 .. n - k + 1 : c[i] = s[k + i - 1]
  <2>1. k \in Int /\ n \in Int /\ (\A i \in k .. n : s[i] \in Int) /\ k <= n
    BY <1>1 DEF n
  <2> QED BY <2>1, SubSeqProperties
<1> HIDE DEF a, b, c
<1>5. /\ a \o b \in Seq(Int) /\ Len(a \o b) = n - k + 1
      /\ \A i \in 1 .. Len(a) : (a \o b)[i] = a[i]
      /\ \A i \in 1 .. Len(b) : (a \o b)[Len(a) + i] = b[i]
  <2>1. /\ a \o b \in Seq(Int) /\ Len(a \o b) = Len(a) + Len(b)
        /\ \A i \in 1 .. Len(a) : (a \o b)[i] = a[i]
        /\ \A i \in 1 .. Len(b) : (a \o b)[Len(a) + i] = b[i]
    BY <1>2, <1>3, CatFacts
  <2>2. Len(a) + Len(b) = n - k + 1
    <3>1. k \in Int
      OBVIOUS
    <3> QED BY <1>1, <1>2, <1>3, <3>1
  <2> QED BY <2>1, <2>2
<1>6. ASSUME NEW i \in 1 .. n - k + 1 PROVE (a \o b)[i] = c[i]
  <2>1. CASE i = 1
    <3>1. 1 \in 1 .. n - k + 1 /\ k + 1 - 1 = k /\ 1 \in 1 .. Len(a)
      BY <1>2, <2>1
    <3> QED BY <1>2, <1>4, <1>5, <2>1, <3>1
  <2>2. CASE i # 1
    <3>1. i - 1 \in 1 .. n - k /\ 1 + (i - 1) = i /\ k + (i - 1) = k + i - 1
      BY <1>1, <2>2
    <3>2. (a \o b)[Len(a) + (i - 1)] = b[i - 1] /\ b[i - 1] = s[k + (i - 1)]
      BY <1>3, <1>5, <3>1
    <3> QED BY <1>2, <1>4, <3>1, <3>2
  <2> QED BY <2>1, <2>2
<1>7. a \o b = c
  BY <1>4, <1>5, <1>6, SeqEqual
<1> QED BY <1>7 DEF a, b, c, n

\* What is written of each letter of a text.
Spelled(s, blank) == [k \in 1 .. Len(s) |-> Encoded(s[k], blank)]

\* Each of them stands for its letter.
LEMMA LettersAre ==
    ASSUME NEW s \in Seq(1 .. 255), NEW blank \in Blanks
    PROVE  /\ s \in Seq(Int) /\ Len(s) \in Nat
           /\ Spelled(s, blank) \in [1 .. Len(s) -> Seq(Int)]
           /\ \A k \in 1 .. Len(s) : s[k] \in 1 .. 255 /\ StandsFor(Spelled(s, blank)[k], s[k])
<1>1. 1 .. 255 \subseteq Int
  OBVIOUS
<1>2. s \in Seq(Int)
  BY <1>1, SeqMonotonic
<1>3. \A k \in 1 .. Len(s) : s[k] \in 1 .. 255
  BY ElementOfSeq
<1>4. \A k \in 1 .. Len(s) : StandsFor(Encoded(s[k], blank), s[k])
  BY <1>3, EncodedIs
<1>5. \A k \in 1 .. Len(s) : Encoded(s[k], blank) \in Seq(Int)
  BY <1>4 DEF StandsFor
<1>6. Len(s) \in Nat
  OBVIOUS
<1> QED BY <1>2, <1>3, <1>4, <1>5, <1>6 DEF Spelled

\* A text encoded is all of them together.
LEMMA EncodeIs ==
    ASSUME NEW s \in Seq(1 .. 255), NEW blank \in Blanks
    PROVE  \E g : /\ Together(g, Spelled(s, blank), Len(s))
                 /\ EncodeURIComponent(s, blank) = g[Len(s)]
<1> DEFINE n == Len(s)
           t == Spelled(s, blank)
<1>1. n \in Nat /\ t \in [1 .. n -> Seq(Int)]
  BY LettersAre
<1>2. EncodeURIComponent(s, blank) = FlattenSeq(t)
  <2>1. DOMAIN s = 1 .. n
    OBVIOUS
  <2> QED BY <2>1 DEF EncodeURIComponent, Spelled, Encoded
<1> HIDE DEF n, t
<1>3. PICK g : Together(g, t, n)
  BY <1>1, TogetherExists
<1>4. FlattenSeq(t) = g[n]
  <2>0. Len(t) = n
    BY <1>1
  <2>1. CASE n = 0
    <3>1. t = <<>>
      BY <1>1, <2>1
    <3> QED BY <1>3, <2>0, <2>1, <3>1 DEF FlattenSeq, Together
  <2>2. CASE n # 0
    <3>1. FlattenSeq(t) = Chosen(t, n)[n]
      BY <2>0, <2>2 DEF FlattenSeq, Chosen
    <3>2. n \in Nat \ {0}
      BY <1>1, <2>2
    <3> QED BY <1>1, <1>3, <3>1, <3>2, ChosenTogether
  <2> QED BY <2>1, <2>2
<1> QED BY <1>2, <1>3, <1>4 DEF n, t

\* It has no separator and no NUL.
LEMMA EncodedSafely ==
    ASSUME NEW s \in Seq(1 .. 255), NEW blank \in Blanks
    PROVE  LET e == EncodeURIComponent(s, blank) IN
           /\ e \in Seq(Int)
           /\ \A k \in 1 .. Len(e) : e[k] # Ampersand /\ e[k] # Equals
<1> DEFINE n == Len(s)
           t == Spelled(s, blank)
           e == EncodeURIComponent(s, blank)
<1>1. n \in Nat /\ t \in [1 .. n -> Seq(Int)] /\ \A k \in 1 .. n : t[k] \in Seq(Safe)
  BY LettersAre DEF StandsFor
<1>2. PICK g : Together(g, t, n) /\ e = g[n]
  BY EncodeIs
<1> HIDE DEF n, t, e
<1> DEFINE S == { k \in Nat : k <= n => g[k] \in Seq(Safe) }
<1>3. 0 \in S
  BY <1>2 DEF Together
<1>4. ASSUME NEW k \in 0 .. n - 1, k \in S PROVE k + 1 \in S
  <2>1. k + 1 \in 1 .. n /\ (k + 1) - 1 = k /\ k <= n /\ k + 1 \in Nat
    BY <1>1
  <2>2. g[k + 1] = g[k] \o t[k + 1]
    BY <1>2, <2>1 DEF Together
  <2>3. g[k] \in Seq(Safe) /\ t[k + 1] \in Seq(Safe)
    BY <1>1, <1>4, <2>1
  <2>4. g[k + 1] \in Seq(Safe)
    BY <2>2, <2>3, ConcatProperties
  <2> QED BY <2>1, <2>4
<1> HIDE DEF S
<1>5. n \in S
  BY <1>1, <1>3, <1>4, UpTo
<1>6. e \in Seq(Safe)
  BY <1>1, <1>2, <1>5 DEF S
<1>7. Safe \subseteq Int /\ Ampersand \notin Safe /\ Equals \notin Safe
  BY DEF Safe, Unreserved, Digits, Letters, Minus, Dot, Plus, Percent, Ampersand, Equals
<1>8. e \in Seq(Int)
  BY <1>6, <1>7, SeqMonotonic
<1>9. \A k \in 1 .. Len(e) : e[k] \in Safe
  BY <1>6, ElementOfSeq
<1>10. \A k \in 1 .. Len(e) : e[k] # Ampersand /\ e[k] # Equals
  BY <1>7, <1>9
<1> QED BY <1>8, <1>10 DEF e

\* What is encoded is what is decoded.
LEMMA RoundTrip ==
    ASSUME NEW s \in Seq(1 .. 255), NEW blank \in Blanks
    PROVE  DecodeUrl(EncodeURIComponent(s, blank)) = s
<1> DEFINE n == Len(s)
           t == Spelled(s, blank)
           e == EncodeURIComponent(s, blank)
<1>1. /\ n \in Nat /\ t \in [1 .. n -> Seq(Int)] /\ s \in Seq(Int)
      /\ \A k \in 1 .. n : s[k] \in 1 .. 255 /\ StandsFor(t[k], s[k])
  BY LettersAre
<1>2. e \in Seq(Int)
  BY EncodedSafely
<1>3. PICK g : Together(g, t, n) /\ e = g[n]
  BY EncodeIs
<1> HIDE DEF e, t
<1>4. PICK h : Decodes(h, e, 1) /\ DecodeUrl(e) = h[1]
  BY <1>2, DecodeUrlFollows
<1> DEFINE S == { m \in Nat : m <= n => h[Len(g[n - m]) + 1] = SubSeq(s, n - m + 1, n) }
<1> HIDE DEF n
<1>5. 0 \in S
  <2>1. n - 0 = n /\ Len(e) \in Nat
    BY <1>1, <1>2
  <2>2. Len(e) + 1 \in 1 .. Len(e) + 1 /\ Len(e) + 1 > Len(e)
    BY <2>1
  <2> DEFINE q == Len(e) + 1
  <2>a. q \in 1 .. Len(e) + 1 /\ q > Len(e)
    BY <2>2
  <2> HIDE DEF q
  <2>b. h[q] = Decoded(e, h, q)
    BY <1>4, <2>a DEF Decodes
  <2>c. Decoded(e, h, q) = <<>>
    BY <2>1, <2>a DEF Decoded
  <2>3. h[Len(e) + 1] = <<>>
    BY <2>b, <2>c DEF q
  <2>4. SubSeq(s, n + 1, n) = <<>>
    BY <1>1, SubSeqEmpty
  <2> QED BY <1>3, <2>1, <2>3, <2>4
<1>6. ASSUME NEW m \in 0 .. n - 1, m \in S PROVE m + 1 \in S
  <2> DEFINE k == n - m
             p == Len(g[k - 1])
  <2>1. /\ k \in 1 .. n /\ m <= n /\ m + 1 \in Nat
        /\ n - (m + 1) = k - 1 /\ n - (m + 1) + 1 = k /\ n - m + 1 = k + 1
    BY <1>1
  <2> HIDE DEF k
  <2>2. FoundIn(e, p, t[k])
    BY <1>1, <1>3, <2>1, EachIsFound
  <2>3. Len(g[k]) = p + Len(t[k])
    <3>a. k - 1 \in 0 .. n
      BY <1>1, <2>1
    <3>b. t[k] \in Seq(Int)
      BY <1>1, <2>1
    <3>c. g[k] = g[k - 1] \o t[k]
      BY <1>3, <2>1 DEF Together
    <3>1. g[k] = g[k - 1] \o t[k] /\ t[k] \in Seq(Int) /\ k - 1 \in 0 .. n
      BY <3>a, <3>b, <3>c
    <3>2. g[k - 1] \in Seq(Int)
      BY <1>3, <3>1 DEF Together
    <3> QED BY <3>1, <3>2, CatFacts
  <2>4. h[p + 1] = <<s[k]>> \o h[p + Len(t[k]) + 1]
    <3>1. s[k] \in 1 .. 255 /\ StandsFor(t[k], s[k])
      BY <1>1, <2>1
    <3> DEFINE c == s[k]
               u == t[k]
    <3>2. c \in 1 .. 255 /\ StandsFor(u, c) /\ FoundIn(e, p, u)
      BY <2>2, <3>1
    <3> HIDE DEF p, c, u
    <3>3. Decodes(h, e, 1)
      BY <1>4
    <3>4. h[p + 1] = <<c>> \o h[p + Len(u) + 1]
      <4>1. ReadsOn(h, p, u, c)
        BY <1>2, <3>2, <3>3, OneLetter
      <4> QED BY <4>1 DEF ReadsOn
    <3> QED BY <3>4 DEF c, u
  <2>5. h[Len(g[k]) + 1] = SubSeq(s, k + 1, n)
    BY <1>6, <2>1 DEF k
  <2>6. <<s[k]>> \o SubSeq(s, k + 1, n) = SubSeq(s, k, n)
    BY <1>1, <2>1, FromOn DEF n
  <2>7. h[Len(g[k - 1]) + 1] = SubSeq(s, k, n)
    BY <2>3, <2>4, <2>5, <2>6
  <2> QED BY <2>1, <2>7
<1> HIDE DEF S
<1>7. n \in S
  BY <1>1, <1>5, <1>6, UpTo
<1>8. h[Len(g[0]) + 1] = SubSeq(s, 1, n)
  <2>1. n <= n /\ n - n = 0 /\ n - n + 1 = 1
    BY <1>1
  <2> QED BY <1>7, <2>1 DEF S
<1>9. g[0] = <<>> /\ Len(<<>>) + 1 = 1
  BY <1>3 DEF Together
<1>10. SubSeq(s, 1, n) = s
  <2>1. SubSeq(s, 0 + 1, 0 + Len(s)) = s
    <3>1. 0 + Len(s) <= Len(s) /\ \A q \in 1 .. Len(s) : s[0 + q] = s[q]
      BY <1>1 DEF n
    <3> QED BY <1>1, <3>1, PartIs
  <2> QED BY <1>1, <2>1 DEF n
<1> QED BY <1>4, <1>8, <1>9, <1>10 DEF e

\* A text of which nothing has to be decoded is decoded to itself.
LEMMA DecodePlain ==
    ASSUME NEW s \in Seq(Int), \A k \in 1 .. Len(s) : s[k] # Percent /\ s[k] # Plus
    PROVE  DecodeUrl(s) = s
<1> DEFINE n == Len(s)
<1>1. n \in Nat
  OBVIOUS
<1>2. PICK h : Decodes(h, s, 1) /\ DecodeUrl(s) = h[1]
  BY DecodeUrlFollows
<1> DEFINE S == { m \in Nat : m <= n => h[n - m + 1] = SubSeq(s, n - m + 1, n) }
<1>3. \A k \in 1 .. n + 1 : h[k] = Decoded(s, h, k)
  BY <1>2 DEF Decodes
<1> HIDE DEF n
<1>4. 0 \in S
  <2> DEFINE q == n + 1
  <2>1. q \in 1 .. n + 1 /\ q > Len(s)
    BY <1>1 DEF n
  <2> HIDE DEF q
  <2>2. h[q] = Decoded(s, h, q)
    BY <1>3, <2>1
  <2>3. Decoded(s, h, q) = <<>>
    BY <2>1 DEF Decoded
  <2>4. SubSeq(s, n + 1, n) = <<>>
    BY <1>1, SubSeqEmpty
  <2>5. n - 0 + 1 = n + 1
    BY <1>1
  <2> QED BY <2>2, <2>3, <2>4, <2>5 DEF q
<1>5. ASSUME NEW m \in 0 .. n - 1, m \in S PROVE m + 1 \in S
  <2> DEFINE k == n - m
  <2>1. /\ k \in 1 .. n /\ k \in 1 .. n + 1 /\ k <= n /\ ~(k > n) /\ m <= n /\ m + 1 \in Nat
        /\ n - (m + 1) + 1 = k /\ n - m + 1 = k + 1
    BY <1>1
  <2>2. h[k + 1] = SubSeq(s, k + 1, n)
    BY <1>5, <2>1
  <2> HIDE DEF k
  <2>3. s[k] # Percent /\ s[k] # Plus
    BY <2>1 DEF n
  <2>4. h[k] = Decoded(s, h, k)
    BY <1>3, <2>1
  <2>5. ~IsCode(s, k) /\ ~IsByte(s, k)
    BY <2>3 DEF IsCode, IsByte
  <2>6. Decoded(s, h, k) = <<s[k]>> \o h[k + 1]
    BY <2>1, <2>3, <2>5 DEF Decoded, n
  <2>7. <<s[k]>> \o SubSeq(s, k + 1, n) = SubSeq(s, k, n)
    BY <2>1, FromOn DEF n
  <2>8. h[k] = SubSeq(s, k, n)
    BY <2>2, <2>4, <2>6, <2>7
  <2> QED BY <2>1, <2>8
<1> HIDE DEF S
<1>6. n \in S
  BY <1>1, <1>4, <1>5, UpTo
<1>7. h[1] = SubSeq(s, 1, n)
  <2>1. n <= n /\ n - n + 1 = 1
    BY <1>1
  <2> QED BY <1>6, <2>1 DEF S
<1>8. SubSeq(s, 1, n) = s
  <2>1. SubSeq(s, 0 + 1, 0 + Len(s)) = s
    <3>1. 0 + Len(s) <= Len(s) /\ \A q \in 1 .. Len(s) : s[0 + q] = s[q]
      BY <1>1 DEF n
    <3> QED BY <3>1, PartIs
  <2> QED BY <1>1, <2>1 DEF n
<1> QED BY <1>2, <1>7, <1>8

\* A C function sees all of a text without NUL.
LEMMA CStringIs ==
    ASSUME NEW s \in Texts
    PROVE  CString(s) = s
<1>0. s \in Seq(1 .. 255)
  BY DEF Texts
<1>1. s \in Seq(Int) /\ Len(s) \in Nat
  <2>1. 1 .. 255 \subseteq Int
    OBVIOUS
  <2>2. s \in Seq(Int)
    BY <1>0, <2>1, SeqMonotonic
  <2> QED BY <2>2
<1>2. \A k \in 1 .. Len(s) : s[k] # NUL
  <2>1. \A k \in 1 .. Len(s) : s[k] \in 1 .. 255
    BY <1>0, ElementOfSeq
  <2>2. \A c \in 1 .. 255 : c # NUL
    BY DEF NUL
  <2> QED BY <2>1, <2>2
<1> DEFINE n == Len(s)
           ends == { k \in DOMAIN s : s[k] = NUL } \cup {Len(s) + 1}
<1>3. ends = {n + 1}
  <2>1. DOMAIN s = 1 .. Len(s)
    BY <1>1
  <2> QED BY <1>2, <2>1
<1>4. Min(ends) = n + 1
  <2> HIDE DEF n, ends
  <2>1. n + 1 \in ends /\ \A y \in ends : y = n + 1
    BY <1>3
  <2>2. n + 1 <= n + 1
    BY <1>1 DEF n
  <2> QED BY <2>1, <2>2 DEF Min
<1>5. SubSeq(s, 1, n + 1 - 1) = s
  <2>1. SubSeq(s, 0 + 1, 0 + Len(s)) = s
    <3>1. 0 + Len(s) <= Len(s) /\ \A q \in 1 .. Len(s) : s[0 + q] = s[q]
      BY <1>1
    <3> QED BY <1>1, <3>1, PartIs
  <2>2. n + 1 - 1 = 0 + Len(s)
    BY <1>1
  <2> QED BY <2>1, <2>2
<1> HIDE DEF n, ends
<1>6. CString(s) = SubSeq(s, 1, Min(ends) - 1)
  <2> HIDE DEF Texts
  <2> QED BY DEF CString, ends, n
<1>7. n \in Nat
  BY <1>1 DEF n
<1> QED BY ONLY <1>4, <1>5, <1>6, <1>7
-----------------------------------------------------------------------------
(* parse_query_text. *)

\* The name of a parameter.
IsKey(key) ==
    /\ key \in Seq(Int) /\ Len(key) # 0
    /\ \A k \in 1 .. Len(key) : key[k] # Ampersand /\ key[k] # Equals

\* key=value, as a browser writes it, has no &.
LEMMA KeyValIs ==
    ASSUME NEW key, IsKey(key), NEW val \in Texts, NEW blank \in Blanks
    PROVE  LET s == KeyVal(key, val, blank) IN
           /\ s = Joined(key, Equals, EncodeURIComponent(val, blank))
           /\ s \in Seq(Int) /\ s # <<>>
           /\ \A k \in 1 .. Len(s) : s[k] # Ampersand
<1> DEFINE e == EncodeURIComponent(val, blank)
           s == Joined(key, Equals, e)
           m == Len(key)
           n == Len(e)
<1>1. e \in Seq(Int) /\ \A k \in 1 .. n : e[k] # Ampersand
  BY EncodedSafely DEF Texts
<1>2. key \in Seq(Int) /\ m # 0 /\ \A k \in 1 .. m : key[k] # Ampersand
  BY DEF IsKey
<1>3. Equals \in Int /\ Equals # Ampersand
  BY DEF Equals, Ampersand
<1> HIDE DEF e
<1>4. /\ s \in Seq(Int) /\ Len(s) = m + 1 + n /\ s[m + 1] = Equals
      /\ FoundIn(s, 0, key) /\ FoundIn(s, m + 1, e)
  BY <1>1, <1>2, <1>3, JoinedIs
<1>5. m \in Nat /\ n \in Nat
  BY <1>1, <1>2
<1>6. /\ \A k \in 1 .. m : s[k] = key[k]
      /\ \A k \in 1 .. n : s[m + 1 + k] = e[k]
  <2>1. \A k \in 1 .. m : 0 + k = k
    BY <1>5
  <2> HIDE DEF s
  <2> QED BY <1>4, <2>1 DEF FoundIn
<1>7. KeyVal(key, val, blank) = s
  BY DEF KeyVal, Joined, e
<1> HIDE DEF s, m, n
<1>8. ASSUME NEW k \in 1 .. Len(s) PROVE s[k] # Ampersand
  <2>1. CASE k <= m
    <3>1. k \in 1 .. m
      BY <1>5, <2>1
    <3> QED BY <1>2, <1>6, <3>1
  <2>2. CASE k = m + 1
    BY <1>3, <1>4, <2>2
  <2>3. CASE k > m + 1
    <3>1. k - (m + 1) \in 1 .. n /\ m + 1 + (k - (m + 1)) = k
      BY <1>4, <1>5, <2>3
    <3>2. s[k] = e[k - (m + 1)]
      BY <1>6, <3>1
    <3> QED BY <1>1, <3>1, <3>2
  <2> QED BY <1>4, <1>5, <2>1, <2>2, <2>3
<1>9. s # <<>>
  BY <1>4, <1>5
<1> QED BY <1>4, <1>7, <1>8, <1>9 DEF s, e

\* It is read as that key and that value.
LEMMA ParamIs ==
    ASSUME NEW key, IsKey(key), NEW val \in Texts, NEW blank \in Blanks
    PROVE  Param(KeyVal(key, val, blank)) = [key |-> key, val |-> val]
<1> DEFINE e == EncodeURIComponent(val, blank)
           s == KeyVal(key, val, blank)
           fields == Split(s, Equals)
           named == { k \in DOMAIN fields : fields[k] # <<>> }
<1>1. e \in Seq(Int) /\ \A k \in 1 .. Len(e) : e[k] # Equals
  BY EncodedSafely DEF Texts
<1>2. key \in Seq(Int) /\ Len(key) # 0 /\ \A k \in 1 .. Len(key) : key[k] # Equals
  BY DEF IsKey
<1>3. Equals \in Int
  BY DEF Equals
<1>4. s = Joined(key, Equals, e)
  BY KeyValIs
<1>5. DecodeUrl(e) = val
  BY RoundTrip DEF Texts
<1> HIDE DEF e, s
<1>6. fields = <<key, e>>
  BY <1>1, <1>2, <1>3, <1>4, SplitTwo
<1> HIDE DEF fields
<1>7. /\ DOMAIN fields = {1, 2} /\ Len(fields) = 2 /\ fields[1] = key /\ fields[2] = e
  BY <1>6
<1>8. key # <<>>
  BY <1>2
<1>9. 1 \in named /\ \A k \in named : k = 1 \/ k = 2
  BY <1>7, <1>8
<1> HIDE DEF named
<1>10. Min(named) = 1
  <2>1. 1 <= 1 /\ 1 <= 2 /\ ~(2 <= 1)
    OBVIOUS
  <2> QED BY <1>9, <2>1 DEF Min
<1>11. named # {} /\ named # {Len(fields)}
  BY <1>7, <1>9
<1>12. Last(fields) = e
  BY <1>7 DEF Last
<1>13. Param(s) = [key |-> IF named = {} THEN <<>> ELSE fields[Min(named)],
                   val |-> IF named = {} \/ named = {Len(fields)} THEN <<>>
                           ELSE DecodeUrl(Last(fields))]
  BY DEF Param, fields, named
<1> QED BY <1>5, <1>7, <1>10, <1>11, <1>12, <1>13 DEF s

\* Parameters with the keys ks and the values vs.
Params(ps, n, ks, vs) ==
    /\ DOMAIN ps = 1 .. n
    /\ \A i \in 1 .. n : ps[i] = [key |-> ks[i], val |-> vs[i]]
    /\ \A i, j \in 1 .. n : ks[i] = ks[j] => i = j

\* The value found for a key is the one it was sent with.
LEMMA ValueIs ==
    ASSUME NEW n \in Nat, NEW ps, NEW ks, NEW vs, Params(ps, n, ks, vs), NEW k \in 1 .. n
    PROVE  GetParamValue(ps, ks[k]) = vs[k] /\ HasParam(ps, ks[k])
<1>1. Having(ps, ks[k]) = {k}
  BY DEF Having, Params
<1>2. Min({k}) = k
  <2>1. k <= k
    OBVIOUS
  <2> QED BY <2>1 DEF Min
<1>3. ps[k].val = vs[k]
  BY DEF Params
<1> QED BY <1>1, <1>2, <1>3 DEF GetParamValue, HasParam

\* A key that none of them has.
LEMMA NoValueIs ==
    ASSUME NEW n \in Nat, NEW ps, NEW ks, NEW vs, Params(ps, n, ks, vs), NEW key,
           \A i \in 1 .. n : ks[i] # key
    PROVE  ~HasParam(ps, key)
BY DEF HasParam, Having, Params

\* The parameters of a text whose fields are key=value, each with its own key.
LEMMA ParametersAre ==
    ASSUME NEW n \in Nat, NEW ks, NEW vs, NEW s, NEW blank \in Blanks,
           Split(s, Ampersand) = [i \in 1 .. n |-> KeyVal(ks[i], vs[i], blank)],
           \A i \in 1 .. n : IsKey(ks[i]) /\ vs[i] \in Texts,
           \A i, j \in 1 .. n : ks[i] = ks[j] => i = j
    PROVE  Params(ParseQueryText(s), n, ks, vs)
<1> DEFINE fields == Split(s, Ampersand)
           ps == ParseQueryText(s)
<1>1. DOMAIN fields = 1 .. n /\ \A i \in 1 .. n : fields[i] = KeyVal(ks[i], vs[i], blank)
  OBVIOUS
<1>2. ps = [k \in DOMAIN fields |-> Param(fields[k])]
  BY DEF ParseQueryText
<1> HIDE DEF fields, ps
<1>3. \A i \in 1 .. n : Param(fields[i]) = [key |-> ks[i], val |-> vs[i]]
  BY <1>1, ParamIs
<1>4. DOMAIN ps = 1 .. n /\ \A i \in 1 .. n : ps[i] = [key |-> ks[i], val |-> vs[i]]
  BY <1>1, <1>2, <1>3
<1> QED BY <1>4 DEF Params, ps

\* The names that autohint.js and out.htm use are four.
LEMMA KeysAre ==
    /\ IsKey(KeyW) /\ IsKey(KeyCo) /\ IsKey(KeyOff) /\ IsKey(KeyLen)
    /\ KeyW # KeyCo /\ KeyW # KeyOff /\ KeyW # KeyLen /\ KeyOff # KeyLen
<1>1. IsKey(KeyW)
  <2>1. KeyW \in Seq(Int) /\ Len(KeyW) = 1 /\ KeyW[1] = 119
    BY DEF KeyW
  <2>2. \A k \in 1 .. 1 : k = 1
    OBVIOUS
  <2> QED BY <2>1, <2>2 DEF IsKey, Ampersand, Equals
<1>2. IsKey(KeyCo)
  <2>1. KeyCo \in Seq(Int) /\ Len(KeyCo) = 2 /\ KeyCo[1] = 99 /\ KeyCo[2] = 111
    BY DEF KeyCo
  <2>2. \A k \in 1 .. 2 : k = 1 \/ k = 2
    OBVIOUS
  <2> QED BY <2>1, <2>2 DEF IsKey, Ampersand, Equals
<1>3. IsKey(KeyOff)
  <2>1. /\ KeyOff \in Seq(Int) /\ Len(KeyOff) = 3
        /\ KeyOff[1] = 111 /\ KeyOff[2] = 102 /\ KeyOff[3] = 102
    BY DEF KeyOff
  <2>2. \A k \in 1 .. 3 : k = 1 \/ k = 2 \/ k = 3
    OBVIOUS
  <2> QED BY <2>1, <2>2 DEF IsKey, Ampersand, Equals
<1>4. IsKey(KeyLen)
  <2>1. /\ KeyLen \in Seq(Int) /\ Len(KeyLen) = 3
        /\ KeyLen[1] = 108 /\ KeyLen[2] = 101 /\ KeyLen[3] = 110
    BY DEF KeyLen
  <2>2. \A k \in 1 .. 3 : k = 1 \/ k = 2 \/ k = 3
    OBVIOUS
  <2> QED BY <2>1, <2>2 DEF IsKey, Ampersand, Equals
<1>5. KeyW # KeyCo /\ KeyW # KeyOff /\ KeyW # KeyLen /\ KeyOff # KeyLen
  <2>1. /\ Len(KeyW) = 1 /\ Len(KeyCo) = 2 /\ Len(KeyOff) = 3
        /\ Len(KeyLen) = 3 /\ KeyOff[1] = 111 /\ KeyLen[1] = 108
    BY DEF KeyW, KeyCo, KeyOff, KeyLen
  <2> QED BY <2>1
<1> QED BY <1>1, <1>2, <1>3, <1>4, <1>5

\* A word alone.
LEMMA SearchIsParsed ==
    ASSUME NEW r, r.op = "search", r.word \in Texts, r.blank \in Blanks
    PROVE  LET ps == ParseQueryText(Query(r)) IN
           GetParamValue(ps, KeyW) = r.word /\ ~HasParam(ps, KeyCo)
<1> DEFINE w == r.word
           blank == r.blank
           s == KeyVal(KeyW, w, blank)
           ks == <<KeyW>>
           vs == <<w>>
<1>1. Query(r) = s
  BY DEF Query
<1>2. w \in Texts /\ blank \in Blanks
  OBVIOUS
<1> HIDE DEF w, blank
<1>3. Split(s, Ampersand) = <<s>>
  BY <1>2, KeysAre, KeyValIs, SplitOne
<1>4. /\ ks[1] = KeyW /\ vs[1] = w /\ \A i \in 1 .. 1 : i = 1
      /\ 1 \in 1 .. 1
  OBVIOUS
<1>5. <<s>> = [i \in 1 .. 1 |-> KeyVal(ks[i], vs[i], blank)]
  <2>1. <<s>> = [i \in 1 .. 1 |-> s]
    OBVIOUS
  <2> HIDE DEF ks, vs
  <2> QED BY <1>4, <2>1
<1> HIDE DEF s, ks, vs
<1>6. Params(ParseQueryText(s), 1, ks, vs)
  <2>1. Split(s, Ampersand) = [i \in 1 .. 1 |-> KeyVal(ks[i], vs[i], blank)]
    BY <1>3, <1>5
  <2>2. \A i \in 1 .. 1 : IsKey(ks[i]) /\ vs[i] \in Texts
    BY <1>2, <1>4, KeysAre
  <2>3. \A i, j \in 1 .. 1 : ks[i] = ks[j] => i = j
    BY <1>4
  <2> QED BY <1>2, <2>1, <2>2, <2>3, ParametersAre
<1>7. GetParamValue(ParseQueryText(s), ks[1]) = vs[1]
  BY <1>4, <1>6, ValueIs
<1>8. ~HasParam(ParseQueryText(s), KeyCo)
  BY <1>4, <1>6, KeysAre, NoValueIs
<1> QED BY <1>1, <1>4, <1>7, <1>8 DEF w

\* A word of which only the content is wanted.
LEMMA ContentIsParsed ==
    ASSUME NEW r, r.op = "content", r.word \in Texts, r.blank \in Blanks
    PROVE  LET ps == ParseQueryText(Query(r)) IN
           GetParamValue(ps, KeyW) = r.word /\ HasParam(ps, KeyCo)
<1> DEFINE w == r.word
           blank == r.blank
           x == <<99>>
           a == KeyVal(KeyW, w, blank)
           b == KeyVal(KeyCo, x, blank)
           s == Joined(a, Ampersand, b)
           ks == <<KeyW, KeyCo>>
           vs == <<w, x>>
<1>1. Query(r) = s
  BY DEF Query, Joined
<1>2. w \in Texts /\ blank \in Blanks /\ x \in Texts /\ Ampersand \in Int
  BY DEF Texts, Ampersand
<1> HIDE DEF w, blank, x
<1>3. Split(s, Ampersand) = <<a, b>>
  <2>1. a \in Seq(Int) /\ \A k \in 1 .. Len(a) : a[k] # Ampersand
    BY <1>2, KeysAre, KeyValIs
  <2>2. b \in Seq(Int) /\ \A k \in 1 .. Len(b) : b[k] # Ampersand
    BY <1>2, KeysAre, KeyValIs
  <2> HIDE DEF a, b
  <2> QED BY <1>2, <2>1, <2>2, SplitTwo
<1>4. /\ ks[1] = KeyW /\ vs[1] = w /\ ks[2] = KeyCo /\ vs[2] = x
      /\ \A i \in 1 .. 2 : i = 1 \/ i = 2
      /\ 1 \in 1 .. 2 /\ 2 \in 1 .. 2
  OBVIOUS
<1>5. <<a, b>> = [i \in 1 .. 2 |-> KeyVal(ks[i], vs[i], blank)]
  <2>1. <<a, b>> = [i \in 1 .. 2 |-> IF i = 1 THEN a ELSE b]
    OBVIOUS
  <2>2. \A i \in 1 .. 2 : (IF i = 1 THEN a ELSE b) = KeyVal(ks[i], vs[i], blank)
    <3> HIDE DEF ks, vs
    <3> QED BY <1>4
  <2> HIDE DEF a, b, ks, vs
  <2> QED BY <2>1, <2>2
<1> HIDE DEF s, ks, vs, a, b
<1>6. Params(ParseQueryText(s), 2, ks, vs)
  <2>1. Split(s, Ampersand) = [i \in 1 .. 2 |-> KeyVal(ks[i], vs[i], blank)]
    BY <1>3, <1>5
  <2>2. \A i \in 1 .. 2 : IsKey(ks[i]) /\ vs[i] \in Texts
    BY <1>2, <1>4, KeysAre
  <2>3. \A i, j \in 1 .. 2 : ks[i] = ks[j] => i = j
    BY <1>4, KeysAre
  <2> QED BY <1>2, <2>1, <2>2, <2>3, ParametersAre
<1>7. GetParamValue(ParseQueryText(s), ks[1]) = vs[1]
  BY <1>4, <1>6, ValueIs
<1>8. HasParam(ParseQueryText(s), ks[2])
  BY <1>4, <1>6, ValueIs
<1> QED BY <1>1, <1>4, <1>7, <1>8 DEF w

\* A word, and which neighbours of it.
LEMMA NeighIsParsed ==
    ASSUME NEW r, r.op = "neigh", r.word \in Texts, r.off \in Texts, r.len \in Texts,
           r.blank \in Blanks
    PROVE  LET ps == ParseQueryText(Query(r)) IN
           /\ GetParamValue(ps, KeyW) = r.word
           /\ GetParamValue(ps, KeyOff) = r.off
           /\ GetParamValue(ps, KeyLen) = r.len
<1> DEFINE w == r.word
           x == r.off
           y == r.len
           blank == r.blank
           a == KeyVal(KeyW, w, blank)
           b == KeyVal(KeyOff, x, blank)
           c == KeyVal(KeyLen, y, blank)
           s == Joined(Joined(a, Ampersand, b), Ampersand, c)
           ks == <<KeyW, KeyOff, KeyLen>>
           vs == <<w, x, y>>
<1>1. Query(r) = s
  BY DEF Query, Joined
<1>2. w \in Texts /\ blank \in Blanks /\ x \in Texts /\ y \in Texts /\ Ampersand \in Int
  BY DEF Ampersand
<1> HIDE DEF w, blank, x, y
<1>3. Split(s, Ampersand) = <<a, b, c>>
  <2>1. a \in Seq(Int) /\ \A k \in 1 .. Len(a) : a[k] # Ampersand
    BY <1>2, KeysAre, KeyValIs
  <2>2. b \in Seq(Int) /\ \A k \in 1 .. Len(b) : b[k] # Ampersand
    BY <1>2, KeysAre, KeyValIs
  <2>3. c \in Seq(Int) /\ \A k \in 1 .. Len(c) : c[k] # Ampersand
    BY <1>2, KeysAre, KeyValIs
  <2> HIDE DEF a, b, c
  <2> QED BY <1>2, <2>1, <2>2, <2>3, SplitThree
<1>4. /\ ks[1] = KeyW /\ vs[1] = w /\ ks[2] = KeyOff /\ vs[2] = x /\ ks[3] = KeyLen /\ vs[3] = y
      /\ \A i \in 1 .. 3 : i = 1 \/ i = 2 \/ i = 3
      /\ 1 \in 1 .. 3 /\ 2 \in 1 .. 3 /\ 3 \in 1 .. 3
  OBVIOUS
<1>5. <<a, b, c>> = [i \in 1 .. 3 |-> KeyVal(ks[i], vs[i], blank)]
  <2> DEFINE F(i) == IF i = 1 THEN a ELSE IF i = 2 THEN b ELSE c
  <2>1. <<a, b, c>> = [i \in 1 .. 3 |-> F(i)]
    OBVIOUS
  <2>2. \A i \in 1 .. 3 : F(i) = KeyVal(ks[i], vs[i], blank)
    <3> HIDE DEF ks, vs
    <3> QED BY <1>4
  <2> HIDE DEF a, b, c, ks, vs, F
  <2> QED BY <2>1, <2>2
<1> HIDE DEF s, ks, vs, a, b, c
<1>6. Params(ParseQueryText(s), 3, ks, vs)
  <2>1. Split(s, Ampersand) = [i \in 1 .. 3 |-> KeyVal(ks[i], vs[i], blank)]
    BY <1>3, <1>5
  <2>2. \A i \in 1 .. 3 : IsKey(ks[i]) /\ vs[i] \in Texts
    BY <1>2, <1>4, KeysAre
  <2>3. \A i, j \in 1 .. 3 : ks[i] = ks[j] => i = j
    BY <1>4, KeysAre
  <2> QED BY <1>2, <2>1, <2>2, <2>3, ParametersAre
<1>7. /\ GetParamValue(ParseQueryText(s), ks[1]) = vs[1]
      /\ GetParamValue(ParseQueryText(s), ks[2]) = vs[2]
      /\ GetParamValue(ParseQueryText(s), ks[3]) = vs[3]
  BY <1>4, <1>6, ValueIs
<1> QED BY <1>1, <1>4, <1>7 DEF w, x, y

\* Every text has its separators in some order.
LEMMA SeparatesSome ==
    ASSUME NEW s \in Seq(Int), NEW d
    PROVE  \E f, m : Separates(f, m, s, d)
<1> DEFINE n == Len(s)
           S == { k \in 1 .. n : s[k] = d }
<1>1. n \in Nat
  OBVIOUS
<1> HIDE DEF n
<1>2. PICK q, g : Rises(g, q) /\ Places(g, q) = S
  <2>1. S \subseteq 1 .. n
    OBVIOUS
  <2> HIDE DEF S
  <2> QED BY <1>1, <2>1, InOrder
<1>3. q \in Nat /\ g \in [1 .. q -> Int] /\ \A i, j \in 1 .. q : i < j => g[i] < g[j]
  BY <1>2 DEF Rises
<1>4. \A i \in 1 .. q : g[i] \in 1 .. n
  <2>1. \A i \in 1 .. q : g[i] \in Places(g, q)
    BY DEF Places
  <2> QED BY <1>2, <2>1
<1> DEFINE f == [i \in 1 .. q + 1 |-> IF i = 1 THEN 0 ELSE g[i - 1]]
<1>5. /\ q + 1 \in Nat /\ 1 \in 1 .. q + 1
      /\ \A i \in 1 .. q + 1 : i # 1 => i - 1 \in 1 .. q
      /\ \A i \in 1 .. q : i + 1 \in 1 .. q + 1 /\ i + 1 # 1 /\ (i + 1) - 1 = i
  BY <1>3
<1>6. /\ f[1] = 0
      /\ \A i \in 1 .. q + 1 : i # 1 => f[i] = g[i - 1]
      /\ \A i \in 1 .. q : f[i + 1] = g[i]
  BY <1>5
<1>7. f \in [1 .. q + 1 -> Int]
  BY <1>3, <1>5
<1> HIDE DEF f, S
<1>8. \A i, j \in 1 .. q + 1 : i < j => f[i] < f[j]
  <2> SUFFICES ASSUME NEW i \in 1 .. q + 1, NEW j \in 1 .. q + 1, i < j PROVE f[i] < f[j]
    OBVIOUS
  <2>1. j # 1 /\ j - 1 \in 1 .. q /\ f[j] = g[j - 1]
    BY <1>3, <1>5, <1>6
  <2>2. CASE i = 1
    <3>1. g[j - 1] \in 1 .. n
      BY <1>4, <2>1
    <3> QED BY <1>1, <1>6, <2>1, <2>2, <3>1
  <2>3. CASE i # 1
    <3>1. i - 1 \in 1 .. q /\ f[i] = g[i - 1] /\ i - 1 < j - 1
      BY <1>3, <1>5, <1>6, <2>3
    <3> QED BY <1>3, <2>1, <3>1
  <2> QED BY <2>2, <2>3
<1>9. Rises(f, q + 1)
  BY <1>5, <1>7, <1>8 DEF Rises
<1>10. Places(f, q + 1) = S \cup {0}
  <2>1. \A y : y \in Places(f, q + 1) <=> \E i \in 1 .. q + 1 : y = f[i]
    BY DEF Places
  <2>2. \A y : y \in S <=> \E i \in 1 .. q : y = g[i]
    BY <1>2 DEF Places
  <2>3. \A y : y \in Places(f, q + 1) <=> y \in S \/ y = 0
    BY <1>5, <1>6, <2>1, <2>2
  <2> QED BY <2>3
<1>11. \A i \in 1 .. q + 1 : f[i] < n + 1
  <2>1. \A i \in 1 .. q : g[i] < n + 1
    BY <1>1, <1>4
  <2>2. 0 < n + 1
    BY <1>1
  <2> QED BY <1>5, <1>6, <2>1, <2>2
<1>12. PICK h : /\ Rises(h, q + 1 + 1) /\ Places(h, q + 1 + 1) = Places(f, q + 1) \cup {n + 1}
                /\ h[q + 1 + 1] = n + 1 /\ \A i \in 1 .. q + 1 : h[i] = f[i]
  <2>1. IsAbove(n + 1, f, q + 1)
    BY <1>1, <1>11 DEF IsAbove
  <2>2. \E h : Continues(h, f, q + 1, n + 1)
    BY <1>9, <2>1, RiseFurther
  <2> QED BY <2>2 DEF Continues
<1>13. h[1] = 0 /\ q + 1 + 1 >= 2
  BY <1>3, <1>5, <1>6, <1>12
<1>14. \A k \in 1 .. n : s[k] = d <=> k \in Places(h, q + 1 + 1)
  <2>1. \A k \in 1 .. n : k # 0 /\ k # n + 1
    BY <1>1
  <2> QED BY <1>10, <1>12, <2>1 DEF S
<1> QED BY <1>12, <1>13, <1>14 DEF Separates, n

\* What stands at one place.
LEMMA PickedOne ==
    ASSUME NEW s, NEW k, k \in Int, NEW P, P = {k}
    PROVE  Picked(s, P) = <<s[k]>>
<1> DEFINE f == [i \in 1 .. 1 |-> k]
<1>1. Rises(f, 1)
  BY DEF Rises
<1>2. Places(f, 1) = P /\ f[1] = k
  BY DEF Places
<1>a. f[1] = k
  BY <1>2
<1> HIDE DEF f
<1>3. Picked(s, P) = [n \in 1 .. 1 |-> s[f[n]]]
  <2> DEFINE m == 1
  <2>a. Rises(f, m)
    BY <1>1
  <2> HIDE DEF m
  <2>b. Picked(s, Places(f, m)) = [n \in 1 .. m |-> s[f[n]]]
    BY <2>a, PickedIs
  <2>1. Picked(s, Places(f, 1)) = [n \in 1 .. 1 |-> s[f[n]]]
    BY <2>b DEF m
  <2> QED BY <1>2, <2>1
<1>4. \A n \in 1 .. 1 : n = 1
  OBVIOUS
<1>5. Picked(s, P) = [n \in 1 .. 1 |-> s[k]]
  BY <1>2, <1>3, <1>4
<1> QED BY <1>5

\* The members of what is picked.
LEMMA PickedSet ==
    ASSUME NEW n \in Nat, NEW P, P \subseteq 1 .. n, NEW s
    PROVE  ToSet(Picked(s, P)) = { s[k] : k \in P }
<1>1. PICK m, f : Rises(f, m) /\ Places(f, m) = P
  BY InOrder
<1>2. Picked(s, P) = [i \in 1 .. m |-> s[f[i]]]
  BY <1>1, PickedIs
<1>3. \A k : k \in P <=> \E i \in 1 .. m : k = f[i]
  BY <1>1 DEF Places
<1>4. \A x : x \in ToSet(Picked(s, P)) <=> \E i \in 1 .. m : x = s[f[i]]
  BY <1>2 DEF ToSet
<1>5. \A x : x \in { s[k] : k \in P } <=> \E i \in 1 .. m : x = s[f[i]]
  BY <1>3
<1>6. \A x : x \in ToSet(Picked(s, P)) <=> x \in { s[k] : k \in P }
  BY <1>4, <1>5
<1> QED BY <1>6

\* They stand at the first places.
LEMMA PickedPlaces ==
    ASSUME NEW n \in Nat, NEW P, P \subseteq 1 .. n, NEW s
    PROVE  \E q \in Nat : DOMAIN Picked(s, P) = 1 .. q
<1>1. PICK m, f : Rises(f, m) /\ Places(f, m) = P
  BY InOrder
<1>2. Picked(s, P) = [i \in 1 .. m |-> s[f[i]]]
  BY <1>1, PickedIs
<1>3. m \in Nat
  BY <1>1 DEF Rises
<1> QED BY <1>2, <1>3
-----------------------------------------------------------------------------
(* is_valid_path. *)

\* Each component leads one down, or one up.
LEMMA LevelIs ==
    ASSUME NEW parts
    PROVE  /\ Level(parts, 0) = 0
           /\ \A k \in Nat : /\ Level(parts, k) \in Int
                            /\ Level(parts, k + 1) = Level(parts, k)
                                                      + (IF parts[k + 1] = DotDot THEN -1 ELSE 1)
<1> DEFINE Ups(n) == { k \in 1 .. n : parts[k] = DotDot }
<1>1. \A n \in Nat : IsFiniteSet(Ups(n)) /\ Cardinality(Ups(n)) \in Nat
  <2> SUFFICES ASSUME NEW n \in Nat PROVE IsFiniteSet(Ups(n)) /\ Cardinality(Ups(n)) \in Nat
    OBVIOUS
  <2>1. IsFiniteSet(1 .. n)
    BY FS_Interval
  <2>2. Ups(n) \subseteq 1 .. n
    OBVIOUS
  <2> HIDE DEF Ups
  <2>3. IsFiniteSet(Ups(n))
    BY <2>1, <2>2, FS_Subset
  <2> QED BY <2>3, FS_CardinalityType
<1>2. \A n : Level(parts, n) = n - 2 * Cardinality(Ups(n))
  BY DEF Level
<1>3. Ups(0) = {}
  OBVIOUS
<1>4. Cardinality({}) = 0
  BY FS_EmptySet
<1>5. Level(parts, 0) = 0
  <2> HIDE DEF Ups
  <2>1. Cardinality(Ups(0)) = 0
    BY <1>3, <1>4
  <2>2. Level(parts, 0) = 0 - 2 * Cardinality(Ups(0))
    BY <1>2
  <2> QED BY <2>1, <2>2
<1>6. ASSUME NEW k \in Nat
      PROVE  /\ Level(parts, k) \in Int
             /\ Level(parts, k + 1) = Level(parts, k) + (IF parts[k + 1] = DotDot THEN -1 ELSE 1)
  <2>0. k + 1 \in Nat
    OBVIOUS
  <2>1. /\ Level(parts, k) = k - 2 * Cardinality(Ups(k))
        /\ Level(parts, k + 1) = (k + 1) - 2 * Cardinality(Ups(k + 1))
    BY <1>2
  <2>2. CASE parts[k + 1] = DotDot
    <3>1. \A j : j \in Ups(k + 1) <=> j \in Ups(k) \cup {k + 1}
      <4>1. \A j : j \in 1 .. k + 1 <=> j \in 1 .. k \/ j = k + 1
        OBVIOUS
      <4> QED BY <2>2, <4>1
    <3>2. k + 1 \notin Ups(k)
      OBVIOUS
    <3> HIDE DEF Ups
    <3>3. Ups(k + 1) = Ups(k) \cup {k + 1}
      BY <3>1
    <3>4. IsFiniteSet(Ups(k))
      BY <1>1
    <3>5. Cardinality(Ups(k) \cup {k + 1}) = Cardinality(Ups(k)) + 1
      BY <3>2, <3>4, FS_AddElement
    <3>6. Cardinality(Ups(k + 1)) = Cardinality(Ups(k)) + 1
      BY <3>3, <3>5
    <3> DEFINE a == Cardinality(Ups(k))
               b == Cardinality(Ups(k + 1))
    <3>7. a \in Nat /\ b = a + 1
      BY <1>1, <3>6
    <3> HIDE DEF a, b
    <3>8. k - 2 * a \in Int /\ (k + 1) - 2 * b = (k - 2 * a) + (-1)
      BY <3>7
    <3> QED BY <2>1, <2>2, <3>8 DEF a, b
  <2>3. CASE parts[k + 1] # DotDot
    <3>1. \A j : j \in Ups(k + 1) <=> j \in Ups(k)
      <4>1. \A j : j \in 1 .. k + 1 <=> j \in 1 .. k \/ j = k + 1
        OBVIOUS
      <4> QED BY <2>3, <4>1
    <3> HIDE DEF Ups
    <3>2. Ups(k + 1) = Ups(k)
      BY <3>1
    <3> DEFINE a == Cardinality(Ups(k))
               b == Cardinality(Ups(k + 1))
    <3>3. a \in Nat /\ b = a
      BY <1>1, <3>2
    <3> HIDE DEF a, b
    <3>4. k - 2 * a \in Int /\ (k + 1) - 2 * b = (k - 2 * a) + 1
      BY <3>3
    <3> QED BY <2>1, <2>3, <3>4 DEF a, b
  <2> QED BY <2>2, <2>3
<1> QED BY <1>5, <1>6

\* A path that never climbs above the directory.
Below(parts) == \A n \in DOMAIN parts : Level(parts, n) >= 0

\* It is one that leads to no place above it.
LEMMA ClimbsIs ==
    ASSUME NEW n \in Nat, NEW parts, DOMAIN parts = 1 .. n
    PROVE  Below(parts) <=>
             DotDot \notin ToSet(Picked(parts, { k \in DOMAIN parts : Stays(parts, k) }))
<1> DEFINE P == { k \in DOMAIN parts : Stays(parts, k) }
           L(k) == Level(parts, k)
<1>1. /\ L(0) = 0
      /\ \A k \in Nat : L(k) \in Int /\ L(k + 1) = L(k) + (IF parts[k + 1] = DotDot THEN -1 ELSE 1)
  BY LevelIs
<1>2. DotDot \in ToSet(Picked(parts, P)) <=> \E k \in P : DotDot = parts[k]
  <2>1. P \subseteq 1 .. n
    OBVIOUS
  <2> HIDE DEF P
  <2>2. ToSet(Picked(parts, P)) = { parts[k] : k \in P }
    BY <2>1, PickedSet
  <2> QED BY <2>2
<1>3. \A k : parts[k] = DotDot => (Stays(parts, k) <=> \A j \in 0 .. k - 1 : L(j) > L(k))
  BY DEF Stays
<1>4. \A k : k \in P <=> k \in 1 .. n /\ Stays(parts, k)
  OBVIOUS
<1>5. Below(parts) <=> \A k \in 1 .. n : L(k) >= 0
  BY DEF Below
<1> HIDE DEF P, L
<1>6. ASSUME NEW k \in 1 .. n, parts[k] = DotDot, Stays(parts, k) PROVE ~(L(k) >= 0)
  <2>1. 0 \in 0 .. k - 1 /\ k \in Nat
    OBVIOUS
  <2>2. L(0) > L(k) /\ L(k) \in Int
    BY <1>1, <1>3, <1>6, <2>1
  <2> QED BY <1>1, <2>2
<1>7. ASSUME \A k \in 1 .. n : ~(parts[k] = DotDot /\ Stays(parts, k))
      PROVE  \A k \in 1 .. n : L(k) >= 0
  <2> DEFINE S == { k \in Nat : k <= n => \A j \in 0 .. k : L(j) >= 0 }
  <2>1. 0 \in S
    <3>1. \A j \in 0 .. 0 : j = 0
      OBVIOUS
    <3> QED BY <1>1, <3>1
  <2>2. ASSUME NEW k \in 0 .. n - 1, k \in S PROVE k + 1 \in S
    <3>1. k + 1 \in 1 .. n /\ k \in Nat /\ k + 1 \in Nat /\ k <= n
      OBVIOUS
    <3>2. \A j \in 0 .. k : L(j) >= 0
      BY <2>2, <3>1
    <3>3. L(k) \in Int /\ L(k) >= 0 /\ L(k + 1) \in Int
          /\ L(k + 1) = L(k) + (IF parts[k + 1] = DotDot THEN -1 ELSE 1)
      <4>1. k \in 0 .. k
        BY <3>1
      <4>2. L(k) \in Int /\ L(k + 1) = L(k) + (IF parts[k + 1] = DotDot THEN -1 ELSE 1)
        BY <1>1, <3>1
      <4>3. L(k + 1) \in Int
        BY <1>1, <3>1
      <4>4. L(k) >= 0
        BY <3>2, <4>1
      <4> QED BY <4>2, <4>3, <4>4
    <3>4. L(k + 1) >= 0
      <4> SUFFICES ASSUME ~(L(k + 1) >= 0) PROVE FALSE
        OBVIOUS
      <4>1. parts[k + 1] = DotDot
        BY <3>3
      <4>2. \A j \in 0 .. k : L(j) \in Int
        BY <1>1
      <4>3. \A j \in 0 .. k : L(j) > L(k + 1)
        BY <3>2, <3>3, <4>2
      <4>4. (k + 1) - 1 = k
        OBVIOUS
      <4>5. Stays(parts, k + 1)
        BY <1>3, <4>1, <4>3, <4>4
      <4> QED BY <1>7, <3>1, <4>1, <4>5
    <3>5. \A j \in 0 .. k + 1 : j \in 0 .. k \/ j = k + 1
      OBVIOUS
    <3>6. \A j \in 0 .. k + 1 : L(j) >= 0
      BY <3>2, <3>4, <3>5
    <3> QED BY <3>1, <3>6
  <2> HIDE DEF S
  <2>3. n \in S
    BY <2>1, <2>2, UpTo
  <2>4. \A k \in 1 .. n : k \in 0 .. n
    OBVIOUS
  <2> QED BY <2>3, <2>4 DEF S
<1>8. Below(parts) <=> ~(\E k \in 1 .. n : parts[k] = DotDot /\ Stays(parts, k))
  BY <1>5, <1>6, <1>7
<1> QED BY <1>2, <1>4, <1>8 DEF P

\* The names in a path that are neither empty nor a dot.
Named(names) == { k \in DOMAIN names : names[k] \notin {<<>>, <<Dot>>} }

\* The components of a path stand at its first places.
LEMMA ComponentsPlaces ==
    ASSUME NEW path \in Seq(Int)
    PROVE  \E q \in Nat : DOMAIN Components(path) = 1 .. q
<1> DEFINE names == Split(path, Slash)
<1>1. \E n \in Nat : DOMAIN names = 1 .. n
  <2>1. CASE path = <<>>
    <3>1. names = <<>>
      BY <2>1 DEF Split
    <3>2. DOMAIN <<>> = 1 .. 0
      OBVIOUS
    <3> QED BY <3>1, <3>2
  <2>2. CASE path # <<>>
    <3>1. PICK f, m : Separates(f, m, path, Slash)
      BY SeparatesSome
    <3>2. names = Fields(path, f, m)
      BY <2>2, <3>1, SplitIs
    <3>3. m - 1 \in Nat
      BY <3>1 DEF Separates, Rises
    <3>4. DOMAIN Fields(path, f, m) = 1 .. m - 1
      BY DEF Fields
    <3> QED BY <3>2, <3>3, <3>4
  <2> QED BY <2>1, <2>2
<1> HIDE DEF names
<1>2. PICK n \in Nat : DOMAIN names = 1 .. n
  BY <1>1
<1>3. Named(names) \subseteq 1 .. n
  BY <1>2 DEF Named
<1>4. Components(path) = Picked(names, Named(names))
  BY DEF Components, names, Named
<1>5. \E q \in Nat : DOMAIN Picked(names, Named(names)) = 1 .. q
  BY <1>2, <1>3, PickedPlaces
<1> QED BY <1>4, <1>5

\* A path is valid when it leads to no place above the directory.
LEMMA ValidIs ==
    ASSUME NEW path \in Seq(Int)
    PROVE  IsValidPath(path) <=> DotDot \notin ToSet(Resolve(path))
<1> DEFINE parts == Components(path)
<1>1. PICK q \in Nat : DOMAIN parts = 1 .. q
  BY ComponentsPlaces
<1>2. IsValidPath(path) <=> Below(parts)
  BY DEF IsValidPath, Below
<1>3. Resolve(path) = Picked(parts, { k \in DOMAIN parts : Stays(parts, k) })
  BY DEF Resolve
<1> HIDE DEF parts
<1>4. Below(parts) <=>
        DotDot \notin ToSet(Picked(parts, { k \in DOMAIN parts : Stays(parts, k) }))
  BY <1>1, ClimbsIs
<1> QED BY <1>2, <1>3, <1>4

\* A single name below the directory.
LEMMA OneName ==
    ASSUME NEW name \in Seq(Int), \A k \in 1 .. Len(name) : name[k] # Slash,
           name \notin {<<>>, <<Dot>>, DotDot}
    PROVE  Resolve(<<Slash>> \o name) = <<name>>
<1> DEFINE path == <<Slash>> \o name
           names == Split(path, Slash)
           parts == Components(path)
           P == { k \in DOMAIN parts : Stays(parts, k) }
           e == <<>>
<1>1. path = Joined(e, Slash, name)
  BY DEF Joined
<1> HIDE DEF path
<1>2. names = <<e, name>>
  <2>1. Slash \in Int /\ e \in Seq(Int) /\ \A k \in 1 .. Len(e) : e[k] # Slash
    BY DEF Slash
  <2> HIDE DEF e
  <2> QED BY <1>1, <2>1, SplitTwo
<1>3. DOMAIN names = {1, 2} /\ names[1] = <<>> /\ names[2] = name
  BY <1>2
<1> HIDE DEF names
<1>4. Named(names) = {2}
  BY <1>3 DEF Named
<1>5. parts = <<name>>
  <2>1. parts = Picked(names, Named(names))
    BY DEF Components, names, Named
  <2> DEFINE K == Named(names)
             two == 2
  <2>2. K = {two} /\ two \in Int
    BY <1>4
  <2> HIDE DEF K, two
  <2>3. Picked(names, K) = <<names[two]>>
    BY <2>2, PickedOne
  <2> QED BY <1>3, <2>1, <2>3 DEF K, two
<1> HIDE DEF parts
<1>6. DOMAIN parts = {1} /\ Len(parts) = 1 /\ parts[1] = name
  BY <1>5
<1>7. Stays(parts, 1)
  <2>1. Level(parts, 1) \in Int
    BY LevelIs
  <2>2. Level(parts, 1) >= Level(parts, 1)
    BY <2>1
  <2>3. \A j \in 1 .. 1 : j = 1
    OBVIOUS
  <2> QED BY <1>6, <2>2, <2>3 DEF Stays
<1>8. P = {1}
  BY <1>6, <1>7
<1>9. Resolve(path) = Picked(parts, P)
  BY DEF Resolve, parts
<1> HIDE DEF P
<1>10. Picked(parts, P) = <<parts[1]>>
  <2> DEFINE one == 1
  <2>1. P = {one} /\ one \in Int
    BY <1>8
  <2> HIDE DEF one
  <2>2. Picked(parts, P) = <<parts[one]>>
    BY <2>1, PickedOne
  <2> QED BY <2>2 DEF one
<1>11. Resolve(path) = <<name>>
  BY <1>6, <1>8, <1>9, <1>10
<1> QED BY <1>11 DEF path

\* index.html at the end of a path.
LEMMA IndexHtmlIs ==
    /\ IndexHtml \in Seq(Int) /\ Len(IndexHtml) = 10
    /\ \A k \in 1 .. Len(IndexHtml) : IndexHtml[k] # Slash
    /\ IndexHtml \notin {<<>>, <<Dot>>, DotDot}
<1>1. IndexHtml \in Seq(Int) /\ Len(IndexHtml) = 10
  BY DEF IndexHtml
<1>2. \A k \in 1 .. 10 : IndexHtml[k] # Slash
  <2>1. \A k \in 1 .. 10 : k \in {1, 2, 3, 4, 5, 6, 7, 8, 9, 10}
    OBVIOUS
  <2>2. /\ IndexHtml[1] = 105 /\ IndexHtml[2] = 110 /\ IndexHtml[3] = 100 /\ IndexHtml[4] = 101
        /\ IndexHtml[5] = 120 /\ IndexHtml[6] = 46 /\ IndexHtml[7] = 104 /\ IndexHtml[8] = 116
        /\ IndexHtml[9] = 109 /\ IndexHtml[10] = 108
    BY DEF IndexHtml
  <2> QED BY <2>1, <2>2 DEF Slash
<1>3. Len(<<>>) = 0 /\ Len(<<Dot>>) = 1 /\ Len(DotDot) = 2
  BY DEF DotDot
<1>4. \A k \in 1 .. Len(IndexHtml) : IndexHtml[k] # Slash
  BY <1>1, <1>2
<1>5. IndexHtml \notin {<<>>, <<Dot>>, DotDot}
  <2>1. IndexHtml # <<>> /\ IndexHtml # <<Dot>> /\ IndexHtml # DotDot
    <3> DEFINE x == IndexHtml
               a == <<>>
               b == <<Dot>>
    <3>1. Len(x) = 10 /\ Len(a) = 0 /\ Len(b) = 1 /\ Len(DotDot) = 2
      BY <1>1, <1>3
    <3> HIDE DEF x, a, b
    <3>2. x # a /\ x # b /\ x # DotDot
      BY <3>1
    <3> QED BY <3>2 DEF x, a, b
  <2> QED BY <2>1
<1> QED BY <1>1, <1>4, <1>5

\* The page of words and the neighbours are no files.
LEMMA NoFiles ==
    /\ FileOf(Root) = None /\ FileOf(Neigh) = None
<1>1. FileOf(Root) = None
  <2>1. Last(Root) = Slash
    BY DEF Last, Root
  <2>2. Resolve(Root \o IndexHtml) = <<IndexHtml>>
    BY IndexHtmlIs, OneName DEF Root
  <2>3. <<IndexHtml>> \notin DataFiles
    BY DataFilesAssumption
  <2> QED BY <2>1, <2>2, <2>3 DEF FileOf
<1>2. FileOf(Neigh) = None
  <2> DEFINE name == <<110, 101, 105, 103, 104>>
  <2>1. Last(Neigh) # Slash /\ Tail(Neigh) = name /\ Neigh = <<Slash>> \o name
    BY DEF Last, Neigh, Slash
  <2>2. name \in Seq(Int) /\ Len(name) = 5
    OBVIOUS
  <2>3. \A k \in 1 .. Len(name) : name[k] # Slash
    <3>1. \A k \in 1 .. 5 : k \in {1, 2, 3, 4, 5}
      OBVIOUS
    <3>2. name[1] = 110 /\ name[2] = 101 /\ name[3] = 105 /\ name[4] = 103 /\ name[5] = 104
      OBVIOUS
    <3> QED BY <2>2, <3>1, <3>2 DEF Slash
  <2>4. name \notin {<<>>, <<Dot>>, DotDot}
    <3>1. Len(<<>>) = 0 /\ Len(<<Dot>>) = 1 /\ Len(DotDot) = 2
      BY DEF DotDot
    <3> QED BY <2>2, <3>1
  <2> HIDE DEF name
  <2>5. Resolve(Neigh) = <<name>>
    BY <2>1, <2>2, <2>3, <2>4, OneName
  <2>6. <<name>> \notin DataFiles
    BY <2>1, DataFilesAssumption
  <2> QED BY <2>1, <2>5, <2>6 DEF FileOf
<1> QED BY <1>1, <1>2

\* The fields of a path that ends with /, and of that path with index.html behind it.
LEMMA LastField ==
    ASSUME NEW path \in Seq(Int), path # <<>>, path[Len(path)] = Slash
    PROVE  LET names == Split(path, Slash)
               names2 == Split(path \o IndexHtml, Slash)
           IN  \E n \in Nat : /\ DOMAIN names = 1 .. n + 1 /\ DOMAIN names2 = 1 .. n + 1
                             /\ names[n + 1] = <<>> /\ names2[n + 1] = IndexHtml
                             /\ \A k \in 1 .. n : names2[k] = names[k]
<1> DEFINE x == IndexHtml
           s == path \o x
           p == Len(path)
           names == Split(path, Slash)
           names2 == Split(s, Slash)
<1>1. x \in Seq(Int) /\ Len(x) = 10 /\ \A k \in 1 .. Len(x) : x[k] # Slash
  BY IndexHtmlIs
<1> HIDE DEF x
<1>2. /\ s \in Seq(Int) /\ Len(s) = p + 10 /\ p \in Nat /\ p # 0
      /\ FoundIn(s, 0, path) /\ FoundIn(s, p, x)
  <2>1. /\ s \in Seq(Int) /\ Len(s) = Len(path) + Len(x)
        /\ FoundIn(s, 0, path) /\ FoundIn(s, Len(path), x)
    BY <1>1, FoundBehind
  <2>2. Len(path) \in Nat /\ Len(path) # 0
    OBVIOUS
  <2> HIDE DEF s
  <2> QED BY <1>1, <2>1, <2>2
<1> HIDE DEF s, names, names2
<1>3. /\ \A k \in 1 .. p : s[k] = path[k]
      /\ \A k \in 1 .. 10 : s[p + k] = x[k]
  <2>1. \A k \in 1 .. p : 0 + k = k
    BY <1>2
  <2> QED BY <1>1, <1>2, <2>1 DEF FoundIn
<1>4. PICK f, m : Separates(f, m, path, Slash)
  BY SeparatesSome
<1> HIDE DEF p
<1>5. /\ Rises(f, m) /\ m >= 2 /\ f[1] = 0 /\ f[m] = p + 1
      /\ \A k \in 1 .. p : path[k] = Slash <=> k \in Places(f, m)
  BY <1>4 DEF Separates, p
<1>6. m \in Nat /\ f \in [1 .. m -> Int] /\ \A i, j \in 1 .. m : i < j => f[i] < f[j]
  BY <1>5 DEF Rises
<1>7. \A k : k \in Places(f, m) <=> \E i \in 1 .. m : k = f[i]
  BY DEF Places
\* The last separator is the last byte.
<1>8. f[m - 1] = p
  <2>1. p \in 1 .. p /\ path[p] = Slash
    BY <1>2 DEF p
  <2>2. PICK i \in 1 .. m : p = f[i]
    BY <1>5, <1>7, <2>1
  <2>3. i # m
    BY <1>2, <1>5, <2>2
  <2>4. i \in Int /\ m - 1 \in 1 .. m /\ m \in 1 .. m /\ m - 1 < m /\ (i < m - 1 \/ i = m - 1)
    BY <1>5, <1>6, <2>3
  <2>5. f[m - 1] < f[m] /\ f[m - 1] \in Int /\ (i < m - 1 => f[i] < f[m - 1])
    BY <1>6, <2>4
  <2>6. ~(i < m - 1)
    <3>1. f[m] = p + 1 /\ p \in Nat
      BY <1>2, <1>5
    <3> QED BY ONLY <2>2, <2>5, <3>1
  <2> QED BY <2>2, <2>4, <2>6
<1> DEFINE h == [i \in 1 .. m |-> IF i = m THEN p + 10 + 1 ELSE f[i]]
           n == m - 2
<1>9. /\ n \in Nat /\ n + 1 = m - 1 /\ m - 1 \in 1 .. m /\ m \in 1 .. m /\ 1 \in 1 .. m /\ 1 # m
      /\ \A k \in 1 .. n : /\ k \in 1 .. m /\ k + 1 \in 1 .. m /\ k # m /\ k + 1 # m
                           /\ k \in 1 .. m - 1 /\ k + 1 < m
  BY <1>5, <1>6
<1>10. /\ h[m] = p + 10 + 1 /\ \A i \in 1 .. m : i # m => h[i] = f[i]
       /\ h \in [1 .. m -> Int]
  BY <1>2, <1>6, <1>9
<1> HIDE DEF h, n
<1>11. \A i \in 1 .. m : i # m => f[i] <= p /\ f[i] \in Int
  <2> SUFFICES ASSUME NEW i \in 1 .. m, i # m PROVE f[i] <= p /\ f[i] \in Int
    OBVIOUS
  <2>1. i < m /\ f[i] \in Int
    BY <1>6
  <2>2. f[i] < f[m]
    BY <1>6, <1>9, <2>1
  <2> QED BY <1>2, <1>5, <2>1, <2>2
<1>12. Rises(h, m)
  <2>1. ASSUME NEW i \in 1 .. m, NEW j \in 1 .. m, i < j PROVE h[i] < h[j]
    <3>1. i # m
      BY <1>6, <2>1
    <3>2. CASE j = m
      <4>1. h[i] = f[i] /\ f[i] <= p /\ f[i] \in Int
        BY <1>10, <1>11, <3>1
      <4>2. h[j] = p + 10 + 1
        BY <1>10, <3>2
      <4> QED BY <1>2, <4>1, <4>2
    <3>3. CASE j # m
      BY <1>6, <1>10, <2>1, <3>1, <3>3
    <3> QED BY <3>2, <3>3
  <2> QED BY <1>6, <1>10, <2>1 DEF Rises
<1>13. ASSUME NEW k \in 1 .. p + 10 PROVE s[k] = Slash <=> k \in Places(h, m)
  <2>1. k \in Places(h, m) <=> \E i \in 1 .. m : k = h[i]
    BY DEF Places
  <2>2. k # p + 10 + 1
    BY <1>2
  <2>3. k \in Places(h, m) <=> \E i \in 1 .. m : i # m /\ k = f[i]
    BY <1>10, <2>1, <2>2
  <2>4. CASE k <= p
    <3>1. k \in 1 .. p /\ k # p + 1
      BY <1>2, <2>4
    <3>2. s[k] = Slash <=> \E i \in 1 .. m : k = f[i]
      BY <1>3, <1>5, <1>7, <3>1
    <3>3. \A i \in 1 .. m : k = f[i] => i # m
      BY <1>5, <3>1
    <3> QED BY <2>3, <3>2, <3>3
  <2>5. CASE k > p
    <3>1. k - p \in 1 .. 10 /\ p + (k - p) = k
      BY <1>2, <2>5
    <3>2. s[k] # Slash
      BY <1>1, <1>3, <3>1
    <3>3. \A i \in 1 .. m : i # m => k # f[i]
      BY <1>2, <1>11, <2>5
    <3> QED BY <2>3, <3>2, <3>3
  <2> QED BY <1>2, <2>4, <2>5
<1>14. Separates(h, m, s, Slash)
  <2>1. h[1] = 0 /\ h[m] = Len(s) + 1
    BY <1>2, <1>5, <1>9, <1>10
  <2> QED BY <1>2, <1>5, <1>12, <1>13, <2>1 DEF Separates
<1>15. names = Fields(path, f, m) /\ names2 = Fields(s, h, m)
  <2>1. names = Fields(path, f, m)
    BY <1>4, SplitIs DEF names
  <2>2. s # <<>>
    BY <1>2
  <2>3. names2 = Fields(s, h, m)
    BY <1>2, <1>14, <2>2, SplitIs DEF names2
  <2> QED BY <2>1, <2>3
<1>16. /\ DOMAIN names = 1 .. n + 1 /\ DOMAIN names2 = 1 .. n + 1
       /\ \A k \in 1 .. n + 1 : /\ names[k] = SubSeq(path, f[k] + 1, f[k + 1] - 1)
                              /\ names2[k] = SubSeq(s, h[k] + 1, h[k + 1] - 1)
  BY <1>9, <1>15 DEF Fields
<1>17. n + 1 \in 1 .. n + 1 /\ n + 1 # m /\ (n + 1) + 1 = m /\ \A k \in 1 .. n : k \in 1 .. n + 1
  BY <1>6, <1>9
<1>18. f[n + 1] = p /\ h[n + 1] = p /\ f[(n + 1) + 1] = p + 1 /\ h[(n + 1) + 1] = p + 10 + 1
  BY <1>5, <1>8, <1>9, <1>10, <1>17
<1>19. names[n + 1] = <<>>
  <2> DEFINE a == n + 1
             b == a + 1
  <2>a. names[a] = SubSeq(path, f[a] + 1, f[b] - 1)
    BY <1>16, <1>17
  <2>b. f[a] = p /\ f[b] = p + 1
    BY <1>18
  <2> HIDE DEF a, b
  <2>1. names[a] = SubSeq(path, p + 1, p + 1 - 1)
    BY <1>2, <2>a, <2>b
  <2>2. SubSeq(path, p + 1, p + 1 - 1) = <<>>
    BY <1>2, SubSeqEmpty
  <2> QED BY <2>1, <2>2 DEF a
<1>20. names2[n + 1] = x
  <2> DEFINE a == n + 1
             b == a + 1
  <2>a. names2[a] = SubSeq(s, h[a] + 1, h[b] - 1)
    BY <1>16, <1>17
  <2>b. h[a] = p /\ h[b] = p + 10 + 1
    BY <1>18
  <2> HIDE DEF a, b
  <2>1. names2[a] = SubSeq(s, p + 1, p + 10 + 1 - 1)
    BY <1>2, <2>a, <2>b
  <2>2. SubSeq(s, p + 1, p + Len(x)) = x
    BY <1>2, Taken
  <2>3. p + 10 + 1 - 1 = p + Len(x)
    BY <1>1, <1>2
  <2> QED BY <2>1, <2>2, <2>3 DEF a
<1>21. ASSUME NEW k \in 1 .. n PROVE names2[k] = names[k]
  <2> DEFINE a == f[k] + 1
             b == f[k + 1] - 1
  <2>1. h[k] = f[k] /\ h[k + 1] = f[k + 1] /\ a \in Int /\ b \in Int
    BY <1>6, <1>9, <1>10
  <2>2. names[k] = SubSeq(path, a, b) /\ names2[k] = SubSeq(s, a, b)
    BY <1>16, <1>17, <2>1
  <2>3. a >= 1 /\ b <= p
    <3>1. f[k + 1] <= p /\ f[k + 1] \in Int /\ f[k] \in Int
      BY <1>9, <1>11
    <3>2. f[k] >= 0
      <4>1. k = 1 \/ 1 < k
        OBVIOUS
      <4>2. 1 < k => f[1] < f[k]
        BY <1>6, <1>9
      <4> QED BY <1>5, <3>1, <4>1, <4>2
    <3> QED BY <1>2, <3>1, <3>2
  <2> HIDE DEF a, b
  <2>4. \A i \in a .. b : i \in 1 .. p
    BY <1>2, <2>1, <2>3
  <2>5. \A i \in a .. b : s[i] = path[i] /\ path[i] \in Int
    <3>1. \A i \in 1 .. p : path[i] \in Int
      BY DEF p
    <3> QED BY <1>3, <2>4, <3>1
  <2>6. /\ SubSeq(path, a, b) \in Seq(Int)
        /\ Len(SubSeq(path, a, b)) = IF a <= b THEN b - a + 1 ELSE 0
        /\ \A i \in 1 .. b - a + 1 : SubSeq(path, a, b)[i] = path[a + i - 1]
    BY <2>1, <2>5, SubSeqProperties
  <2>7. /\ SubSeq(s, a, b) \in Seq(Int) /\ Len(SubSeq(s, a, b)) = IF a <= b THEN b - a + 1 ELSE 0
        /\ \A i \in 1 .. b - a + 1 : SubSeq(s, a, b)[i] = s[a + i - 1]
    <3>1. \A i \in a .. b : s[i] \in Int
      BY <2>5
    <3> QED BY <2>1, <3>1, SubSeqProperties
  <2> DEFINE u == SubSeq(path, a, b)
             v == SubSeq(s, a, b)
             q == IF a <= b THEN b - a + 1 ELSE 0
  <2>8. \A i \in 1 .. q : i \in 1 .. b - a + 1 /\ a + i - 1 \in a .. b
    BY <2>1
  <2> HIDE DEF u, v, q
  <2>9. u \in Seq(Int) /\ v \in Seq(Int) /\ Len(u) = q /\ Len(v) = q
    BY <2>6, <2>7 DEF u, v, q
  <2>10. \A i \in 1 .. q : v[i] = u[i]
    BY <2>5, <2>6, <2>7, <2>8 DEF u, v
  <2>11. v = u
    BY <2>9, <2>10, SeqEqual
  <2> QED BY <2>2, <2>11 DEF u, v
<1>22. n \in Nat
  BY <1>9
<1> QED BY <1>16, <1>19, <1>20, <1>21, <1>22 DEF x, s, names, names2

\* index.html leads to no place above the directory, and back from none.
LEMMA IndexKeeps ==
    ASSUME NEW path \in Seq(Int), path # <<>>, path[Len(path)] = Slash
    PROVE  IsValidPath(path \o IndexHtml) <=> IsValidPath(path)
<1> DEFINE names == Split(path, Slash)
           names2 == Split(path \o IndexHtml, Slash)
           K == Named(names)
           parts == Components(path)
           parts2 == Components(path \o IndexHtml)
<1>1. PICK n \in Nat : /\ DOMAIN names = 1 .. n + 1 /\ DOMAIN names2 = 1 .. n + 1
                      /\ names[n + 1] = <<>> /\ names2[n + 1] = IndexHtml
                      /\ \A k \in 1 .. n : names2[k] = names[k]
  BY LastField
<1>2. parts = Picked(names, K) /\ parts2 = Picked(names2, Named(names2))
  BY DEF Components, Named
<1>3. IsValidPath(path) <=> Below(parts)
  BY DEF IsValidPath, Below
<1>4. IsValidPath(path \o IndexHtml) <=> Below(parts2)
  BY DEF IsValidPath, Below
<1> HIDE DEF names, names2, parts, parts2
<1>5. \A k : k \in 1 .. n + 1 <=> k \in 1 .. n \/ k = n + 1
  OBVIOUS
<1>6. K \subseteq 1 .. n
  BY <1>1, <1>5 DEF Named
<1>7. Named(names2) = K \cup {n + 1}
  <2>1. \A k : k \in Named(names2) <=> k \in 1 .. n + 1 /\ names2[k] \notin {<<>>, <<Dot>>}
    BY <1>1 DEF Named
  <2>2. \A k : k \in K <=> k \in 1 .. n + 1 /\ names[k] \notin {<<>>, <<Dot>>}
    BY <1>1 DEF Named
  <2>3. \A k \in 1 .. n : k # n + 1
    OBVIOUS
  <2> HIDE DEF K
  <2>4. \A k : k \in Named(names2) <=> k \in K \/ k = n + 1
    BY <1>1, <1>5, <2>1, <2>2, <2>3, IndexHtmlIs
  <2> QED BY <2>4
<1> HIDE DEF K
<1>8. PICK q, g : Rises(g, q) /\ Places(g, q) = K
  BY <1>6, InOrder
<1>9. q \in Nat /\ g \in [1 .. q -> Int]
  BY <1>8 DEF Rises
<1>10. \A i \in 1 .. q : g[i] \in 1 .. n
  <2>1. \A i \in 1 .. q : g[i] \in Places(g, q)
    BY DEF Places
  <2> QED BY <1>6, <1>8, <2>1
<1>11. PICK h : /\ Rises(h, q + 1) /\ Places(h, q + 1) = Places(g, q) \cup {n + 1}
                /\ h[q + 1] = n + 1 /\ \A i \in 1 .. q : h[i] = g[i]
  <2>1. IsAbove(n + 1, g, q)
    BY <1>9, <1>10 DEF IsAbove
  <2>2. \E h : Continues(h, g, q, n + 1)
    BY <1>8, <2>1, RiseFurther
  <2> QED BY <2>2 DEF Continues
<1>12. parts = [i \in 1 .. q |-> names[g[i]]]
  <2>1. Picked(names, Places(g, q)) = [i \in 1 .. q |-> names[g[i]]]
    BY <1>8, PickedIs
  <2> QED BY <1>2, <1>8, <2>1
<1>13. parts2 = [i \in 1 .. q + 1 |-> names2[h[i]]]
  <2> DEFINE m == q + 1
  <2>1. Rises(h, m)
    BY <1>11
  <2> HIDE DEF m
  <2>2. Picked(names2, Places(h, m)) = [i \in 1 .. m |-> names2[h[i]]]
    BY <2>1, PickedIs
  <2>3. Places(h, m) = Named(names2)
    BY <1>7, <1>8, <1>11 DEF m
  <2> QED BY <1>2, <2>2, <2>3 DEF m
<1>14. q + 1 \in 1 .. q + 1 /\ \A k : k \in 1 .. q + 1 <=> k \in 1 .. q \/ k = q + 1
  BY <1>9
<1>15. \A i \in 1 .. q : parts2[i] = parts[i]
  <2>1. \A i \in 1 .. q : names2[h[i]] = names[g[i]]
    BY <1>1, <1>10, <1>11
  <2> QED BY <1>12, <1>13, <1>14, <2>1
<1>16. parts2[q + 1] = IndexHtml /\ DOMAIN parts = 1 .. q /\ DOMAIN parts2 = 1 .. q + 1
  BY <1>1, <1>11, <1>12, <1>13, <1>14
<1>17. ASSUME NEW k \in 0 .. q PROVE Level(parts2, k) = Level(parts, k)
  <2>1. \A j \in 1 .. k : j \in 1 .. q
    BY <1>9
  <2>2. { j \in 1 .. k : parts2[j] = DotDot } = { j \in 1 .. k : parts[j] = DotDot }
    BY <1>15, <2>1
  <2> QED BY <2>2 DEF Level
<1>18. Level(parts2, q + 1) = Level(parts, q) + 1 /\ Level(parts, q) \in Int /\ Level(parts, 0) = 0
  <2>1. q \in 0 .. q
    BY <1>9
  <2>2. Level(parts2, q + 1) = Level(parts2, q) + (IF parts2[q + 1] = DotDot THEN -1 ELSE 1)
    BY <1>9, LevelIs
  <2>3. parts2[q + 1] # DotDot
    BY <1>16, IndexHtmlIs
  <2>4. Level(parts, q) \in Int /\ Level(parts, 0) = 0
    BY <1>9, LevelIs
  <2> QED BY <1>17, <2>1, <2>2, <2>3, <2>4
<1>19. \A k \in 1 .. q : k \in 0 .. q
  OBVIOUS
<1>20. \A k \in 1 .. q : Level(parts2, k) = Level(parts, k)
  BY <1>17, <1>19
<1>21. ASSUME Below(parts) PROVE Level(parts2, q + 1) >= 0
  <2>1. CASE q = 0
    BY <1>18, <2>1
  <2>2. CASE q # 0
    <3>1. q \in 1 .. q
      BY <1>9, <2>2
    <3>2. Level(parts, q) >= 0
      BY <1>16, <1>21, <3>1 DEF Below
    <3> QED BY <1>18, <3>2
  <2> QED BY <2>1, <2>2
<1>22. Below(parts2) <=> Below(parts)
  BY <1>14, <1>16, <1>20, <1>21 DEF Below
<1> QED BY <1>3, <1>4, <1>22

\* The path of a file arrives.
LEMMA PathsArrive ==
    ASSUME NEW r \in Requests, r.op = "file"
    PROVE  PathArrives(r)
<1> DEFINE path == r.path
           where == IF Last(path) = Slash THEN path \o IndexHtml ELSE path
<1>1. path \in Seq(1 .. 255 \ {Percent, Plus}) /\ path # <<>> /\ path \notin {Root, Neigh}
  BY RequestsAssumption
<1> HIDE DEF path
<1>2. path \in Seq(Int)
  <2>1. 1 .. 255 \ {Percent, Plus} \subseteq Int
    OBVIOUS
  <2> QED BY <1>1, <2>1, SeqMonotonic
<1>3. \A k \in 1 .. Len(path) : path[k] # Percent /\ path[k] # Plus
  <2>1. \A k \in 1 .. Len(path) : path[k] \in 1 .. 255 \ {Percent, Plus}
    BY <1>1, ElementOfSeq
  <2> QED BY <2>1
<1>4. DecodeUrl(path) = path
  BY <1>2, <1>3, DecodePlain
<1>5. where \in Seq(Int) /\ (IsValidPath(where) <=> IsValidPath(path))
  <2>1. CASE Last(path) = Slash
    <3>1. path[Len(path)] = Slash
      BY <2>1 DEF Last
    <3>2. path \o IndexHtml \in Seq(Int)
      BY <1>2, IndexHtmlIs, CatFacts
    <3> QED BY <1>1, <1>2, <2>1, <3>1, <3>2, IndexKeeps
  <2>2. CASE Last(path) # Slash
    BY <1>2, <2>2
  <2> QED BY <2>1, <2>2
<1>6. IsValidPath(where) <=> DotDot \notin ToSet(Resolve(where))
  BY <1>5, ValidIs
<1>7. Resolve(where) = Resolve(IF Last(path) = Slash THEN path \o IndexHtml ELSE path)
  OBVIOUS
<1> HIDE DEF where
<1> QED BY <1>1, <1>4, <1>5, <1>6, <1>7 DEF PathArrives, path

\* The paths of the handlers of main() are decoded to themselves.
LEMMA PathsPlain ==
    DecodeUrl(Root) = Root /\ DecodeUrl(Neigh) = Neigh
<1>1. DecodeUrl(Root) = Root
  <2>1. Root \in Seq(Int) /\ Len(Root) = 1 /\ Root[1] = Slash
    BY DEF Root, Slash
  <2>2. \A k \in 1 .. 1 : k = 1
    OBVIOUS
  <2> QED BY <2>1, <2>2, DecodePlain DEF Slash, Percent, Plus
<1>2. DecodeUrl(Neigh) = Neigh
  <2>1. /\ Neigh \in Seq(Int) /\ Len(Neigh) = 6 /\ Neigh[1] = 47 /\ Neigh[2] = 110 /\ Neigh[3] = 101
        /\ Neigh[4] = 105 /\ Neigh[5] = 103 /\ Neigh[6] = 104
    BY DEF Neigh, Slash
  <2>2. \A k \in 1 .. 6 : k \in {1, 2, 3, 4, 5, 6}
    OBVIOUS
  <2>3. \A k \in 1 .. Len(Neigh) : Neigh[k] # Percent /\ Neigh[k] # Plus
    BY <2>1, <2>2 DEF Percent, Plus
  <2> QED BY <2>1, <2>3, DecodePlain
<1> QED BY <1>1, <1>2

\* A word, with what goes with it, arrives.
LEMMA WordsArrive ==
    ASSUME NEW r \in Requests, r.op \in {"search", "content", "neigh"}
    PROVE  WordArrives(r)
<1> DEFINE ps == ParseQueryText(Query(r))
           text(key) == CString(GetParamValue(ps, key))
<1>1. r.word \in Texts /\ r.blank \in Blanks
  BY RequestsAssumption
<1>2. DecodeUrl(Path(r)) = Path(r) /\ FileOf(Path(r)) = None
  <2>1. Path(r) = Root \/ Path(r) = Neigh
    BY DEF Path
  <2> QED BY <2>1, PathsPlain, NoFiles
<1>3. CASE r.op = "search"
  <2>1. GetParamValue(ps, KeyW) = r.word /\ ~HasParam(ps, KeyCo)
    BY <1>1, <1>3, SearchIsParsed
  <2>2. text(KeyW) = r.word
    BY <1>1, <2>1, CStringIs
  <2> QED BY <1>2, <1>3, <2>1, <2>2 DEF WordArrives
<1>4. CASE r.op = "content"
  <2>1. GetParamValue(ps, KeyW) = r.word /\ HasParam(ps, KeyCo)
    BY <1>1, <1>4, ContentIsParsed
  <2>2. text(KeyW) = r.word
    BY <1>1, <2>1, CStringIs
  <2> QED BY <1>2, <1>4, <2>1, <2>2 DEF WordArrives
<1>5. CASE r.op = "neigh"
  <2>1. /\ r.off \in Texts /\ r.means.off = Strtol(r.off, 0)
        /\ r.len \in Texts /\ r.means.len = Strtoul(r.len, 10)
    BY <1>5, RequestsAssumption
  <2>2. /\ GetParamValue(ps, KeyW) = r.word
        /\ GetParamValue(ps, KeyOff) = r.off /\ GetParamValue(ps, KeyLen) = r.len
    BY <1>1, <1>5, <2>1, NeighIsParsed
  <2>3. text(KeyW) = r.word /\ text(KeyOff) = r.off /\ text(KeyLen) = r.len
    BY <1>1, <2>1, <2>2, CStringIs
  <2> QED BY <1>2, <1>5, <2>1, <2>3 DEF WordArrives
<1> QED BY <1>3, <1>4, <1>5

\* All the texts a client may send arrive.
LEMMA AllArrive ==
    ASSUME NEW r \in Requests
    PROVE  Arrives[r]
<1> DEFINE F == [q \in Requests |->
                   CASE q.op \in {"search", "content", "neigh"} -> WordArrives(q)
                     [] q.op = "file" -> PathArrives(q)
                     [] OTHER -> TRUE]
<1>1. \A f : Tabulated(f) = f
  BY DEF Tabulated
<1>2. Arrives = F
  BY <1>1 DEF Arrives
<1>3. F[r] = CASE r.op \in {"search", "content", "neigh"} -> WordArrives(r)
               [] r.op = "file" -> PathArrives(r)
               [] OTHER -> TRUE
  OBVIOUS
<1>4. CASE r.op \in {"search", "content", "neigh"}
  <2>1. WordArrives(r) /\ r.op # "file"
    BY <1>4, WordsArrive
  <2> QED BY <1>2, <1>3, <1>4, <2>1
<1>5. CASE r.op = "file"
  <2>1. PathArrives(r)
    BY <1>5, PathsArrive
  <2> QED BY <1>2, <1>3, <1>5, <2>1
<1>6. CASE r.op \notin {"search", "content", "neigh", "file"}
  BY <1>2, <1>3, <1>6
<1> QED BY <1>4, <1>5, <1>6
-----------------------------------------------------------------------------
(* What is answered. *)

\* What a client encodes is what the server decodes and parses, and a path counts as valid
\* when it never leaves the directory: whatever the characters of the words and the names in
\* the paths (decode_url, split, parse_query_text, is_valid_path).
THEOREM TextsDoArrive == Spec => []TextsArrive
<1>1. HttpInv => TextsArrive
  BY AllArrive DEF HttpInv, Types, TextsArrive
<1> QED
  BY HttpInvariance, <1>1, PTL

\* What was asked for is what is answered: no word is answered with the page of another,
\* whatever its characters and whoever is served before or meanwhile (route_request and the
\* handlers of sdwv.cpp, with what process_request read).
THEOREM RightAnswers == Spec => []AnswerRight
<1>1. HttpInv => AnswerRight
  <2> SUFFICES ASSUME HttpInv, NEW c \in Clients,
                      Asks(c, {"search", "content", "neigh"}), Answered(c)
               PROVE  /\ answer[c].status = 200
                      /\ asked[c].method = "HEAD" => answer[c].body = <<>>
                      /\ asked[c].method = "GET" =>
                           answer[c].body =
                             IF asked[c].op = "neigh"
                             THEN IF asked[c].word = <<>> THEN <<>>
                                  ELSE <<[call |-> "get_neighbour", word |-> asked[c].word,
                                          off |-> asked[c].means.off, len |-> asked[c].means.len]>>
                             ELSE <<[call |-> "process_phrase", word |-> asked[c].word,
                                     all |-> asked[c].op = "search"]>>
    BY DEF AnswerRight
  <2> DEFINE r == asked[c]
             line == RequestLineOf(r)
  <2>1. r \in Requests /\ Asks(c, Gets)
    BY DEF HttpInv, Types, Asks, Gets, Unasked
  <2>2. answer[c] = AnswerTo(r)
    BY <2>1 DEF HttpInv, OwnAnswers
  <2>3. WordArrives(r)
    BY <2>1, WordsArrive DEF Asks
  <2>4. r.op \in {"search", "content", "neigh"}
    BY DEF Asks
  <2>5. /\ line.method = r.method /\ line.path = Path(r) /\ line.query = Query(r)
    BY DEF RequestLineOf, Line
  <2>6. Root # Neigh
    BY DEF Root, Neigh
  <2> HIDE DEF r, line
  <2>7. CASE r.op = "neigh"
    <3>1. Path(r) = Neigh
      BY <2>7 DEF Path
    <3>2. PageFor(line) = [status |-> 200, body |-> Neighbours(r.word, r.means.off, r.means.len)]
      BY <2>3, <2>5, <2>6, <2>7, <3>1 DEF WordArrives, PageFor
    <3>3. answer[c] = IF r.method = "HEAD" THEN [status |-> 200, body |-> <<>>]
                      ELSE [status |-> 200, body |-> Neighbours(r.word, r.means.off, r.means.len)]
      BY <2>2, <3>2 DEF AnswerTo, line
    <3> QED
      BY <2>7, <3>3 DEF Neighbours, r
  <2>8. CASE r.op \in {"search", "content"}
    <3> DEFINE page == <<[call |-> "process_phrase", word |-> r.word, all |-> r.op = "search"]>>
    <3>1. Path(r) = Root
      BY <2>8 DEF Path
    <3>2. ~HasParam(ParseQueryText(Query(r)), KeyCo) <=> r.op = "search"
      BY <2>3, <2>8 DEF WordArrives
    <3>3. PageFor(line) = [status |-> 200,
              body |-> <<[call |-> "process_phrase", word |-> r.word,
                          all |-> ~HasParam(ParseQueryText(Query(r)), KeyCo)]>>]
      BY <2>3, <2>5, <2>6, <3>1 DEF WordArrives, PageFor
    <3>4. PageFor(line) = [status |-> 200, body |-> page]
      BY <3>2, <3>3 DEF HasParam
    <3> HIDE DEF page
    <3>5. answer[c] = IF r.method = "HEAD" THEN [status |-> 200, body |-> <<>>]
                      ELSE [status |-> 200, body |-> page]
      BY <2>2, <3>4 DEF AnswerTo, line
    <3>6. r.op # "neigh"
      BY <2>8
    <3> QED
      BY <3>5, <3>6 DEF page, r
  <2> QED
    BY <2>4, <2>7, <2>8
<1> QED
  BY HttpInvariance, <1>1, PTL

\* A path is answered with the file it leads to, when it never leaves the data directory
\* and there is one, and with 404 otherwise (handle_file_request).
THEOREM RightFiles == Spec => []FileOfThePath
<1>1. HttpInv => FileOfThePath
  <2> SUFFICES ASSUME HttpInv, NEW c \in Clients, Asks(c, {"file"}), Answered(c)
               PROVE  LET path == asked[c].path
                          where == Resolve(IF Last(path) = Slash THEN path \o IndexHtml ELSE path)
                      IN  IF asked[c].method = "GET" /\ DotDot \notin ToSet(where) /\ where \in DataFiles
                          THEN answer[c] = [status |-> 200,
                                            body |-> <<[call |-> "read_file", path |-> where]>>]
                          ELSE answer[c] = [status |-> 404, body |-> <<>>]
    BY DEF FileOfThePath
  <2> DEFINE r == asked[c]
             line == RequestLineOf(r)
             where == Resolve(IF Last(r.path) = Slash THEN r.path \o IndexHtml ELSE r.path)
  <2>1. r \in Requests /\ Asks(c, Gets) /\ r.op = "file"
    BY DEF HttpInv, Types, Asks, Gets, Unasked
  <2>2. answer[c] = AnswerTo(r) /\ r.method \in {"GET", "HEAD"}
    BY <2>1, RequestsAssumption DEF HttpInv, OwnAnswers, Gets
  <2>3. /\ DecodeUrl(r.path) = r.path /\ r.path # Root /\ r.path # Neigh
        /\ IsValidPath(r.path) <=> DotDot \notin ToSet(where)
    BY <2>1, PathsArrive DEF PathArrives
  <2>4. Path(r) = r.path
    BY <2>1 DEF Path
  <2>5. line.method = r.method /\ line.path = r.path
    BY <2>4 DEF RequestLineOf, Line
  <2>6. FileOf(r.path) =
            IF IsValidPath(r.path) /\ where \in DataFiles THEN where ELSE None
    BY DEF FileOf
  <2> HIDE DEF r, line, where
  <2>7. CASE r.method = "GET" /\ DotDot \notin ToSet(where) /\ where \in DataFiles
    <3>1. where # None /\ FileOf(r.path) = where
      BY <2>3, <2>6, <2>7, NoneAssumption
    <3>2. PageFor(line) = [status |-> 200, body |-> <<[call |-> "read_file", path |-> where]>>]
      BY <2>3, <2>5, <2>7, <3>1 DEF PageFor
    <3>3. answer[c] = PageFor(line)
      BY <2>2, <2>7 DEF AnswerTo, line
    <3> QED
      BY <2>7, <3>2, <3>3 DEF r, where
  <2>8. CASE ~(r.method = "GET" /\ DotDot \notin ToSet(where) /\ where \in DataFiles)
    <3>1. ~(r.method = "GET" /\ FileOf(r.path) # None)
      BY <2>3, <2>6, <2>8
    <3>2. PageFor(line) = [status |-> 404, body |-> <<>>]
      BY <2>3, <2>5, <3>1 DEF PageFor
    <3>3. answer[c] = [status |-> 404, body |-> <<>>]
      BY <2>2, <3>2 DEF AnswerTo, line
    <3> QED
      BY <2>8, <3>3 DEF r, where
  <2> QED
    BY <2>7, <2>8
<1> QED
  BY HttpInvariance, <1>1, PTL
=============================================================================
