---------------------------- MODULE MCHttpServer ----------------------------
EXTENDS HttpServer

\* A word with a blank, a plus and a percent sign before two digits; one with the
\* separators of a query and a letter of two bytes in UTF-8; and none.
Ask(method, op, word, blank) == [method |-> method, op |-> op, word |-> word, blank |-> blank]
Odd == <<32, 43, 37, 52, 49>>
Searches == { Ask("GET", "search", Odd, b) : b \in Blanks }
            \cup { Ask("GET", "content", <<61, 38, 195, 169>>, <<Plus>>),
                   Ask("HEAD", "search", <<>>, <<Plus>>) }

\* off and len as they are sent, and what they mean: the second is no number.
Numbers == { [off |-> <<45, 49>>, len |-> <<50>>, means |-> [off |-> -1, len |-> 2]],
             [off |-> <<120>>, len |-> <<49, 48, 120>>, means |-> [off |-> 0, len |-> 10]] }
Neighs == { [method |-> "GET", op |-> "neigh", word |-> <<97>>, blank |-> <<Plus>>,
             off |-> n.off, len |-> n.len, means |-> n.means] : n \in Numbers }

\* /h/, /h/../f, and /f/../../d/f.
Paths == { <<47, 104, 47>>, <<47, 104, 47, 46, 46, 47, 102>>,
           <<47, 102, 47, 46, 46, 47, 46, 46, 47, 100, 47, 102>> }
MCDataFiles == { <<<<102>>>>, <<<<104>>, IndexHtml>>, <<DotDot, <<100>>, <<102>>>> }
FileAsks == { [method |-> "GET", op |-> "file", path |-> p] : p \in Paths }

Posts == { [method |-> "POST", op |-> "post", path |-> Root, body |-> b, size |-> 2] :
             b \in {"length", "chunked", "toend", "multipart"} }

MCRequests == Searches \cup Neighs \cup FileAsks \cup Posts \cup { [op |-> "junk"] }
=============================================================================
