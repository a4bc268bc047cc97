------------------------------ MODULE MCStartup ------------------------------
EXTENDS Startup

Ifo(under, directory, book, beside, damaged) ==
    [under |-> under, directory |-> directory, book |-> book, magic |-> TRUE,
     wordcount |-> 1, beside |-> beside, damaged |-> damaged]
Plain == {"dict", "idx"}
Packed == {"dict.dz", "idx.gz", "dict", "idx"}

\* Four files: of one name two, or not; one backup; one damaged, one that is no
\* dictionary's, one without a book name, one without words.
Third == { Ifo("data", "/data/c", "C", Plain, {}),
           Ifo("data", "/data/a", "A", Plain, {}),
           Ifo("data", "/data/c", "C", Packed, {"dict.dz"}),
           Ifo("data", "/data/c", "C", Packed \ {"idx.gz"}, {"idx"}),
           [Ifo("data", "/data/c", "C", Plain, {}) EXCEPT !.magic = FALSE],
           [Ifo("data", "/data/c", "C", Plain, {}) EXCEPT !.wordcount = 0],
           Ifo("data", "/data/c", NoFile, Plain, {}) }
Fourth == { Ifo("home", "/home/d", "D", Packed, {}), Ifo("home", "/home/b", "B", {}, {}) }

\* Files 1 and 2 are A and B; the file names of the home directory come last.
MCTrees == { <<Ifo("data", "/data/a", "A", Packed, {}), Ifo("data", "/data/b", "B", Plain, {}),
               t, u>> : t \in Third, u \in Fourth }
MCUseLists == { NoFile, <<"A">>, <<"B", "A">>, <<"C", "nobook", "D">>, <<"B", "B">>, <<>> }
MCOrderings == { NoFile, <<"B">>, <<"C", "A">>, <<"nobook", "A">>, <<"D", "A", "D">> }

SameNames == { t \in MCTrees : ~(\A f, g \in 1 .. 4 : f # g => t[f].book # t[g].book) }
=============================================================================
