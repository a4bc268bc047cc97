# sdwv: a verification project

sdwv (a fork of sdcv) looks words up in StarDict dictionaries and serves the
answers over HTTP. These modules model it in TLA+, from start-up to the
answer a client gets, check it with TLC on small instances and prove part of it
with TLAPS. Paths are relative to the repository; `stardict_lib.cpp` stands for `src/stardict_lib.cpp`, and so on.

## Inventory

| part | state | operations | what makes it correct |
|---|---|---|---|
| `OffsetIndex` (`stardict_lib.cpp`) | open .idx file, page offsets, first words of three pages, last word, one cached page | `load`, `get_key`, `get_data`, `lookup` | answers as the whole sorted list would; no read outside a page; the cached page is never another one |
| `WordListIndex` | unpacked .idx.gz, pointers to entries | the same | the same; the sentinel pointer is never compared |
| .oft cache | two files outside the process | `load_cache`, `save_cache`, `get_cache_variant` | never older than the .idx file; complete |
| `SynFile`, `Dict::Lookup` | map of synonyms | `lookup` | synonyms before the index |
| `Dict` | the index `Dict::load` chose | the same, through either class | both classes answer alike |
| `Libs` cursor, `Library::get_neighbour` | one index per dictionary | `poGetNextWord`, `poGetPreWord`, `poGetCurrentWord` | one place in the merged order; no word left out or listed twice |
| `DictData` (`dictziplib.cpp`) | header with the place of every chunk, 5 unpacked chunks with stamps, inflate stream | `open`, `read_header`, `read` | the bytes of the file |
| `DictBase::GetWordData` | 10 articles | hit, read, replace | the bytes of the article |
| fuzzy search, `EditDistance` | list of the nearest words, a limit that shrinks | `LookupWithFuzzy`, `CalEditDistance` | the nearest words are kept; the distance is right below the limit |
| `LookupSimilarWord` | none | suffix rules | finds an inflected form's base word |
| rule and full-text search | match lists | `LookupWithRule`, `LookupData`, `SearchData` | every match once, up to the limit |
| article layout | an article as sections | `GetWordData` (rewriting), `parse_data` | what is written is what is parsed |
| `TransformatTemplate` (`format.conf`) | rules of each type | parser, `generate` | each rule applied once to each match |
| `ResponseOut` | template elements, the page buffer of the library | parser, `make_content`, `reset` | a page shows the results of its own phrase |
| start-up (`sdwv.cpp`) | book names, order and disable lists | `main`, `prepare`, `Libs::load` | the dictionaries asked for, in that order |
| HTTP server (`httplib.h`) | listening socket, one connection, its request | `listen`, `process_request`, `routing`, the handlers of `main` | every connection ends; a client gets the answer to its own request, whole |

How they interact: a request reaches one handler of `main`; the server accepts
connections one after the other on one thread, so a handler runs alone. The
handler calls `Library`, which calls `Libs`, which walks over the `Dict`
objects. A `Dict` asks its index for an entry number, then for the place of
the entry's article (left in `wordentry_offset` and `wordentry_size`), then
`GetWordData` for the article, which reads it through `DictData` or a plain
file. All calls are synchronous and there are no callbacks across parts. The
only state shared between processes is the .oft files.

Hard behaviours, therefore: caches that stand for something else (page, chunk,
article, .oft file) under arbitrary sequences of calls; binary searches at the
edges of pages and lists; several cursors that must move as one; a search list
whose limit shrinks while it is used; processes that write and read one cache
file, end half-way, or meet a changed .idx file; clients that stop in the middle
of a request; dictionaries that fail to load or share a name. `PROJECT.json` lists them under
`hazards`, each at its line.

## Modules

Data is abstracted to what the properties tell apart. A word is the integer
rank that `stardict_strcmp` gives it, and `strcasecmp` compares its case class
`Fold[w]`; in `Query` and `EditDistance` it is the sequence of its characters. An offset
into an .idx file is an entry number; byte `o` of a .dict file is the number `o`; a part
of an .oft file is the version of the .idx file it was counted in. Where bytes are what a
hazard is about (gzip header, sections of an article, `format.conf`, URLs) they are
sequences of numbers.

Indexes and cursors:

- `IdxFile`: word lists, the two comparisons, and what an index must answer
  (`LookupAnswer`). `KeyIndex`: the abstract index: one call at a time, any right
  answer.
- `OffsetIndex`: one action per step of the code: `Load`, `LoadFails`, `Call`,
  `GetKey`, the two early returns of `lookup`, a turn of either loop, and the
  ends of the loops. The cached page changes exactly where `load_page` runs.
- `WordListIndex`: the same for the index in memory.
- `DictIndex`: a dictionary, which has one of the two (`idxclass`, as `Dict::load` finds
  an .idx or .idx.gz file). It composes both and implements `KeyIndex`.
- `MergedCursor`: the abstract cursor over the distinct words of all
  dictionaries. `LibsCursor`: the cursors of the code and the request
  `get_neighbour`; the indexes underneath are used through `LookupAnswer`,
  that is, through what `DictIndex` is shown to implement.
- `OftCache`: the life of the .oft files of one dictionary between processes.

Articles:

- `DictFile`: the abstract file of bytes. `DzHeader`: the bytes of a .dict.dz
  file and what `read_header` finds in them, the optional fields included.
  `DictZip`: `open`, `read` and its chunk cache, one action per chunk. `DictZipHeap`
  adds the other outcomes of the out-of-bounds read described below.
- `WordDataCache`: `GetWordData` and its ten slots, over `DictFile`.
- `DictData`: both caches together: a miss of the article cache is a `read()` of
  the chunk cache, step by step (`Read`, `ReadChunk`, `ReadReturns`), or a read of
  the plain .dict file. It implements `DictFile`.
- `Article`: an article as its sections. `GetWordData` (one action per item
  copied), `parse_data` (one per section) and the full-text search, `LookupData`
  with `SearchData` (one per section searched). The memory each works on is a
  sequence of bytes, so that a wrong size or offset shows. A size has four bytes, in network
  order in the file (`Network`) and in the order of the host where the program
  reads or writes it (`Uint32`, `Host`, the parameter `BigEndian`). A size that is read
  wrong leads on as it does in the code; where that reads or writes outside,
  the step is `CopyOutside`, `ParseOutside` or `SearchOutside`, and nothing follows. `TransformatTemplate`
  is there too: the parser of `format.conf` character by character
  (`TakeConfChar`), and its text and expression rules (`ReplaceText`,
  `ReplaceBy`); what an expression matches is the parameter `RegexReplace`. What
  follows a buffer in memory is the parameter `Beyond`.

Searches and pages:

- `EditDistance`: `CalEditDistance` as functions, and the definition it is
  compared with. `FuzzySearch`: the walk of `LookupWithFuzzy`, one action per
  word. Its two tables are `Tabulated`, so that TLC computes them once.
- `Query`: `process_phrase`. `AnalyzeQuery` is `analyze_query`; `LookupWithRule`
  takes one dictionary per step; `SimpleLookup` one dictionary per step, and in it
  `LookupSimilarWord` one lookup per step, its nine rules in the table `Rules` and
  its buffer `sNewWord` with the characters behind its end. A word is the sequence of
  its characters here. The fuzzy and the
  full-text search are used through what they may answer. `rout` is the page
  buffer that all requests share.
- `ResponseOut`: what the constructor makes of a template, and what
  `make_content` makes of the results. A template is the sequence of its tokens, and the
  name of a variable the sequence of its letters, because `forFunc` looks at the first only.

The program:

- `Startup`: `prepare()` and `Libs::load`. `for_each_file` goes over the directories
  twice and takes the files of each in any order; the lists made from `-u` or the
  ordering file decide what is loaded and where. Its specification is `PrepareSpec`, so
  that `LibraryProofs` can speak of start-up and queries.
- `UrlText`: `decode_url`, the query of a request line, `is_valid_path`, and the
  numbers of `/neigh`. `HttpServer`: the accept loop beside its clients, one action per
  line or part of a body that is read, then routing, the handlers of `main`, the
  response and `CloseSocket`. What `process_phrase` and `get_neighbour` answer is
  the record of the call; `Query` and `LibsCursor` say what the call does.
- `MC*`: the instances for TLC. `*Proofs`: theorems. `Sorting`: lemmas about lining up
  finitely many things in an order, and about the least number with a property.

Definitions introduced by "A slip:" are not part of a specification. Each is a
wrong variant of the definition after it, and replacing that definition by it
makes the property named in `PROJECT.json` under `mutants` fail.

## Runs

| run | question | bounds |
|---|---|---|
| `word_indexes` | does a dictionary, with either class of index, answer as the list would for every sequence of calls, and always return? | words 0..3 in two case classes, all sorted lists of 1 to 7 entries with repetitions, pages of 2: one to four pages, full and short last page, `first`, `middle` and `last` apart and equal |
| `libs_cursor` | are the cursors one cursor, and is the answer of `/neigh` a run of the merged list? | two dictionaries of up to 3 of 4 words, offsets -1..5, lengths 0, 2, 3: answers that begin before the first word, end after the last, and words in one or both dictionaries |
| `dict_data` | are articles the bytes of the file, through the header, the chunk cache and the article cache? | chunks of 2 bytes, files of 4 (full last chunk) and 7 bytes, headers with none, two and all of the optional fields, 2 chunk slots and 2 article slots, articles of 0, 2 and 3 bytes at every offset, 6 chunk visits before the last call: every slot of both caches is replaced and read again; .dict files too |
| `dictzip_past_end` | is every middle chunk complete? (no) | 6 bytes, 9 visits |
| `oft_cache` | is a cache of a replaced .idx file ever used, or part of a cache whose save was neither cut short nor read half-way? | two processes, three seconds, three replacements, both places of the file |
| `oft_cache_busy` | the same when the .idx file is replaced at any moment (yes, it is) | one process, two seconds |
| `fuzzy_search` | are the nearest words kept and the distances right? | dictionaries of one word: every word of up to three letters out of three and of four letters out of two; dictionaries of two lists: 3 words and 1 or 2 out of 5, one of them an upper case form; queries of up to two letters out of three, of three and four letters out of two, and `<<1, 2, 3>>`, `<<2, 3, 1>>`, the shortest that tell a swap of adjacent letters from a cheaper edit; 2 slots, so that words give way |
| `article` | does `GetWordData` fill its allocation exactly, does `parse_data` return what was written, rewritten by each rule once, does the full-text search miss an article, and when does each leave the article? | a host with the other byte order than the network (`BigEndian = FALSE`, as on x86 and ARM); one to three sections, all pairs of a text, an HTML or a wav section with a text or a wav section, unknown types n and X, binary sections that are empty (their size is the same in both orders) and longer, one of 100 bytes in which a search goes astray, texts of up to two letters, one of which is also the letter of a type; two articles or two dictionaries for the search; a `format.conf` with a comment, escapes, rules that contain what they replace, one that is none, one that is bad |
| `query` | are results what was asked for, do the suffix rules try exactly the base words, does a rule search keep its limits, does a page show the results of its phrase? | 38 inflected words, from the length of an ending up, against every dictionary of one of their base words; two dictionaries of up to three words with and without synonyms, two matches per dictionary, every set of matches; the page buffer left by any earlier phrase; the shipped `out.htm`, a JSON template and a loop in a loop |
| `http_server` | does what a client means arrive through `decode_url` and the parsing of a query, does every client get the answer to what it asked, and does every connection end? | two clients, one place in the queue of connections, searches with blanks, plus, percent, separators and letters of two bytes, each encoding of a blank, neighbours with numbers and with none, three paths, POST with each kind of body, and no HTTP at all; clients that close, leave or break at any point |
| `startup` | is every dictionary asked for loaded once, in the order asked for, and found by its name? | four files in two directories: of one name two, a backup, and one damaged, without words, without a name or no dictionary's; lists with unknown, repeated and no names |
| `startup_same_name` | are only the dictionaries asked for loaded? (no) | the trees of `startup` in which two names are the same |

Bounds: `MaxWc`, `ENTR_PER_PAGE`, `MaxStamp`, `DICT_CACHE_SIZE`,
`WORDDATA_CACHE_NUM`, `ArticleSizes`, `MaxTime`, `reslist_size`, `MAXFUZZY`,
`MAX_MATCH_ITEM_PER_LIB` and `Backlog` are constants. The properties
compare words, pages, chunks and slots only with their neighbours, so that
three of each show what more would; the proofs remove the bounds where they exist.
A client of the server connects once: the server keeps nothing of a connection
but `rout`, which a second client finds as the first left it.

Deadlock is not checked where the model ends for good: a load that fails, an
exception that ends the program, a read after the bound on stamps, a program that
has started, and a server that exited or whose clients are all done. In
`libs_cursor`, `oft_cache`, `fuzzy_search`, `article` and `query` it is: no call gets
stuck.

Fairness: weak fairness of the steps inside a call. Calls run on one thread and
wait for nothing, so a step that can be taken is taken. New calls are not fair:
nobody has to ask for anything. In `HttpServer` the server's own steps are weakly
fair for the same reason, and a client that began its request goes on sending
it or leaves: `recv` has no time limit, so that without this a silent client holds
the server for ever, which is the code's behaviour and no property denies it.

## What the runs found

- `oft_cache_busy`: `load_cache` compares modification times in seconds with
  `<`, and `save_cache` writes after the .idx file was read. An .idx file replaced
  in the same second, or between scan and save, keeps the offsets of its
  predecessor, although NEWS promises "Recreate cache if idx file was modified".
- `dictzip_past_end`: a read that ends where a full last chunk ends visits chunk
  number `chunkCount`, which `chunks[]` and `offsets[]` do not have. If `inflate`
  fails on what is found there, its error stays in the stream, and later chunks
  come out empty under their numbers: the assertion `count == this->chunkLength`
  fails. In the module `DictZip` the number found is 0, the outcome in which
  nothing is inflated; there the reader is right.
- `startup_same_name`: `-u` is to "search only" the dictionaries it names, but
  `bookname_to_ifo` keeps one file per book name, and only files of that map can be
  disabled. Of two dictionaries of one name that is not asked for, the one
  scanned first is in neither list and is loaded.

The run `article` shows one more disagreement, which the runs above do not:
`get_uint32` and `set_uint32` copy a number in the byte order of the host, and
`doc/DICTFILE_FORMAT` (10-13, 280-288) has the sizes of binary sections in network
order. On a little-endian host the size of a section of 1 to 65535 bytes is never
read as it was written (`SmallSizesAreNot`). If such a section is in front of another one,
`GetWordData` copies more than there is (`CopyOutside` is taken in the run); without a
sametypesequence `parse_data` passes over what follows it, and `SearchData` leaves
its buffer (`SearchOutside`). The properties of `Article` say where this ends:
that the code leaves an article (`copy outside`, `parse outside`, `search outside`)
only when a size stands in another byte order, a type is unknown or, in a search, there is
no sametypesequence; and that the articles in which every size is read as it was written
(`InHostOrder`) are copied, returned and found. These are all articles on a big-endian
host, and elsewhere those without a binary section, with an empty one, or with
one at the end of a sametypesequence, where the file has no size and the program puts it
in its own order. Of the others `LayoutExact` still says that no byte is written outside
the copy before that.

Things the models have as the code has them, which no property claims to be
right:

- A synonym moves one cursor to the word it stands for, which may be
  anywhere, so that the cursors are apart; `Synced` and the refinement of
  `libs_cursor` are stated without synonyms. `/neigh` with an offset that reaches
  before the first word omits the first word (`FirstBelow`).
- `SearchData` accepts a word of several letters that begins at the end of an
  article and continues in what a longer article left in the buffer (`LastFound`);
  without a sametypesequence it reads the size of a binary section one byte too
  early, and counts the letter of a type as part of the text (`SearchSection`);
  `containSearchData` does not know of type k, which `SearchData` searches.
- `parse_data` takes the bytes of a section of an unnamed type (n, r, X) for types
  (`ParseSection`).
- `LookupWithFuzzy` gets the phrase with its backslashes.
- An empty article ends the program when the .dict file is not
  compressed (`GetWordDataThrows`; `Article` reads a .dict.dz file).
- An .ifo file that is read but has no book name ends the program (`ScanFile`), as a name in
  the ordering file that no dictionary has does (`OrderName`); an unknown name
  after `-u` is passed over (`UseName`). A name given twice is loaded twice.
- The body of a POST request is read and dropped (`Route`); a request refused
  before it is read to its end may lose its answer, because the socket is closed
  with data unread (`CloseSocket`), and so may one with a chunked body, whose last
  empty line is not read (`ChunkSize`). Hence `NoAnswerLost` is about GET and HEAD.
- The argument of `strtol` in the `/neigh` handler is a temporary string, and the
  pointer into it is read after it is gone; the model has what a short string
  still holds.

## Proofs

For every value of the constants that satisfies the named assumptions:

- `DictIndexProofs`: the indexes.
  - `Invariance`, that `IInv` holds of `OffsetIndex`, and with it `TypeCorrect`,
    `LookupIsCorrect`, `PageIsCoherent`, `SearchStaysInside` and `KeyIsCorrect`;
    `Refinement`, that it implements `KeyIndex`. `LookupCorrect` alone is not
    inductive: a return is right because of the window (`SearchWindow`: everything
    left of it is less than the word asked for, everything right of it greater),
    the window moves by comparing words that must be those of the file
    (`LoadedCoherent`), and in the second search those of the page
    (`PageCoherent`). Arithmetic about pages is in lemmas of its own.
  - `ListInvariance` and `ListRefinement`: the same for `WordListIndex`; its window
    is one range of entries that never holds the sentinel.
  - `DictInvariance`, `DictLookupCorrect`, `DictKeyCorrect`, `DictPageCoherent`,
    `DictSearchInside`, `DictRefinement`: a step of a dictionary is a step of the
    class it has and leaves the other alone, so the invariant is that of the one
    class, and both refinements give the one of `KeyIndex`. These are the
    properties the run `word_indexes` checks.
- `LibsCursorProofs`, for any finite set of dictionaries and any words:
  - `CursorsStayInRange` (`TypeOK`), with synonyms or without.
  - `CursorsStaySynced` and `MergedOrder`, under `NoSynonyms`. `Synced` is nearly
    inductive: with the ranges of the indexes it says that the words behind the
    cursors are a beginning of the merged order, and each cursor call moves over
    exactly one word of it.
  - `NeighboursAreRight` (`NeighbourAnswer`), under `NoSynonyms`: the answer of
    `get_neighbour` has the words asked for, none left out and none twice. The
    invariant `NeighbourInv` counts: how far the request has gone back and how many
    words it has collected, as cardinalities of beginnings of the merged order.
- `DictDataProofs`, for files, chunks and caches of any size:
  - `SlotsStayCoherent` and `WordDataRefinement`: the article cache implements plain
    reads.
  - `ChunksAreFound`: `read_header` finds every chunk where dictzip wrote it, with any
    combination of optional fields. The file is taken as parts one behind the other;
    the header has the length `HeaderLength` because each optional field ends where
    `read_header` stops looking, and the sum of the sizes before a chunk is the place
    at which the part begins. The sums, the file and the length of a string are
    recursive functions of data. TLAPS has no induction for them to use: the proofs exhibit a
    function that satisfies the recursive equation and show, with `UpTo` of `Sorting`, that every
    other one agrees with it. `FieldsAssumption` says that the numbers fit the bytes
    the format has for them, as they do in whatever dictzip writes.
  - `ChunksStayCoherent` (each slot holds the whole chunk of its number),
    `ArticlesStayCoherent`, and `DataRefinement`, that both caches together implement
    plain reads. The invariant says what a read in progress has copied: the bytes
    from its first to the chunk it is at, which the next chunk continues because
    chunks are coherent. These are about `DictZip`, where the number found past the
    end of `chunks[]` is 0.
- `DictIndexProofs` also has the .oft files: `CacheIsRecreated`, that under `Quiet` (the .idx file is
  replaced when no process is busy, in a later second than its caches were written)
  no load ends with the offsets of a replaced file, and `CacheIsWhole`, that
  partial offsets come only from a save that was cut short or read half-way.
  Both are for any number of processes and any time. `RecreateIfModified`
  speaks of the end of a load, so the invariant adds what is true before:
  `FreshFiles`, a cache file newer than the .idx file holds its offsets,
  `BusyProcs`, a process that is scanning or saving has those of the present file, and
  `TailsComing`, a cache with a head and no tail has a writer that is still to write
  it, unless a save failed.
- `ArticleProofs`, for any libraries, sections, texts and rules of format.conf, and hosts of
  both byte orders: `LayoutIsExact` (`LayoutExact`), `AllIsParsed` (`ParsedIsWritten`), `RulesApplyOnce`
  (`ReplacedOnce`) and, for any phrases, `SearchIsRight` (`FullTextSearch`).
  - The invariant `Filling` holds whatever a size is taken for: what was written and what
    is left to read of the file make up the allocation. So a copy that ends has
    filled it, and one that cannot go on has written nothing outside.
  - The invariant `Layout`, of an article with `InHostOrder`, says of a copy in progress that as many items (a type and
    what follows it) were written as sections were read, and that they are what the
    memory begins with. So what is left of it is what the rest of the file, the types
    and the end or the size of the last section take, and when the copy ends, the
    memory is the items of the article and nothing else. The copy reads the file at
    the places where sections begin because what `strlen()` and `get_uint32()` give
    there is the size of the section (`SizeOfField`).
  - `parse_data` then is at the place of an item and has shown those before it
    (`Parsed`), as long as it knows the types; it stops behind the last one because
    the first number is the size of them all.
  - Four bytes give back the number they were made of, in either order, if it is less than
    2^32 (`BytesOf`). `NetworkOrderIsRead`: on a host with network order `InHostOrder`
    holds of every article. `SmallSizesAreNot`: on another one it does not hold of
    an article with a section of 1 to 65535 bytes behind its size.
  - `LibrariesAssumption` says what an article is (`Conforms`): with a sametypesequence it has those
    sections, a text has no NUL in it, and its size takes 32 bits. `std::regex_replace` may do anything.
  - `RulesApplyOnce` rests on `AllIsParsed`: what is returned is the texts with the rules of
    their types applied. The rules of a type are those of its lines, in their order
    (`RulesCollected`). `replaceAll` of one character, which the code and the model do from
    left to right, puts together what each character becomes (`CharReplaced`); so it
    may be applied to the parts of a text one by one (`PartsReplaced`), and a part that an
    earlier rule put in stays as it is (`BecomesMore`). `ConfLoads` says what a
    `format.conf` is with which the program starts and `replaceAll` ends, so no pattern is
    empty.
  - The invariant `Search` says of the search in progress that each article still to come
    is not among the results and each one done is there as it should be (`Answered`); that
    `SearchData` is where a section of the file begins, and that the words it has marked are
    those of the sections before it, and not yet all (`Marked`). The text of a section in
    front of the last one ends where `strlen()` says, so its words are found, and no others
    (`FieldSearched`). `strlen()` of the last one goes on in what is behind the article,
    but does not end before the text does (`TextIsRead`), so no word is missed
    (`WordIsFound`), and one letter that begins in the article is in it (`FoundIsWord`).
    That a word has a letter, without which an empty last section would be missed, is
    shown of the loop that takes a phrase apart (`WordsAreGood`). `SearchAssumption` says
    that a phrase, and what lies behind the buffer, are bytes.
- `FuzzySearchProofs`, for any dictionaries, queries and numbers of slots:
  - `DistancesAreExact` (`DistanceExact`): for any two words and any limit,
    `CalEditDistance` tells a distance below the limit exactly, and no other as one below.
    The argument goes over the matrix: it satisfies the recurrence of the definition (an
    exchange saves at most one edit), neighbours differ by one at most, and no diagonal
    falls; so the walk along the diagonal of the last corner may stop at the limit, and
    the difference of the lengths is enough to refuse a word. What two words share at
    the front or at the back costs nothing, and the matrix of the words exchanged is the
    same one transposed. The tables are recursive functions of two words, reasoned about as those
    of `DictDataProofs` are.
  - `SlotIsFound` (`SlotToReplace`), `NearestStay` (`NearestKept`) and `NearestComeFirst`
    (`NearestFirst`). The invariant says of a walk that every word it passed is in a
    slot or at least as far as the limit, that no word has two slots, and that the
    limit is the farthest slot.
- `LibraryProofs`, what the program does with its dictionaries.
  - It loads them, for any files, any lists and any order in which `readdir()` returns
    the files: `PathsAreKnown` (`PathKnown`), `AllAskedOnce` (`EveryAskedOnce`) and
    `OrderStays` (`OrderKept`). The invariant `StartupInv` follows the list of names as it is
    looked up: what was found is in its order (`Drawn`), what was not named is disabled, the
    ordered dictionaries are loaded first and the others behind them by the names of
    their files. `TreesAssumption` and `ListsAssumption` say what a directory and a list are.
  - It searches them by a rule, for any dictionaries and any set of words that match:
    `RuleSearchIsRight` (`RuleSearch`). `Listed` says what the list holds after each
    dictionary. A dictionary adds at most `MAX_MATCH_ITEM_PER_LIB` words because it has no
    more matches with so few before them (`HowManyFirst`), and sorting moves the words
    without losing one.
  - It looks for base words: `BasesAreTried` (`AllBasesTried`), for any word. `SimilarInv`
    says of each rule what the buffer holds, a string of which only what is before its end
    is known (`Holds`), that a doubled consonant is there again before the endings are put
    on, and that what was looked up is what the rules before it look up (`Tried`). That the
    nine rules together look up what `BaseWords` says of the spelling is `BasesAre`.
  - It answers: `ResultsAreRight` (`ResultsAreAsked`). Every word that `LookupSimilarWord`
    finds is one that a rule looks up, so it is a base word, and it is only called for a
    dictionary that has not the word asked for.
  - It shows the results: `PagesAreRight` (`PageShowsResults`), for any template, any number
    of results and both values of `alldata`. What the page must be is said of the template as it is
    written (`PageOf`); what the code does goes over the elements the constructor made.
    The proof follows the constructor: after k tokens the elements stand for the places among the
    first k that are `Outside` the loops, in their order, and the element of a loop holds what is
    `Inside` it; the marker kept is the one before the place (`TokenRead`, `ElementsAre`).
    Tokens that make no element put nothing on the page, so putting together over the
    places is the same as over the elements (`FlattenPicked`). The first letter of a
    name is enough to tell the documented variables apart (`VariableIs`). `PageInv`
    says that the buffer is empty while a phrase is looked up, so nothing of an
    earlier page is in front, and that it then has what `make_content` makes.
    `Documented` is the form that the comment of the constructor gives a template: a
    loop ends before the next begins and has no marker in it, and `idx`, `word`,
    `definition` and `bookname` are used in loops. Of any other template nothing is
    said: `forFunc` would take a name by its first letter, and what is in a loop in a
    loop is put to the outer one.
  - `LibrariesAssumption` says that dictionaries have words of characters and what tokens a
    template has; `CharsAssumption` that NUL is no character of a word and the letters e and y are.
- `HttpServerProofs`, for any clients, requests and length of the queue:
  - `AnswersArrive` (`NoAnswerLost`), `RightAnswers` (`AnswerRight`) and `RightFiles`
    (`FileOfThePath`). The invariant `HttpInv` says where each connection is, that what the
    server has not read is the rest of the client's request, that what it has read is
    that request, and that an answer on its way is to that client.
  - `TextsDoArrive` (`TextsArrive`), on which the last two rest. A word is encoded
    letter by letter, and `decode_url` takes it apart at the same places: the codes of
    the letters are a `%` and two hex digits, never `%u`, and from the start of one it comes to the
    start of the next. No code has a `=` or a `&` in it, so `split` cuts
    where the browser put them. `is_valid_path` refuses a path exactly when a `..` is left
    of it after the others have taken their names back, and an `index.html` behind
    it changes nothing.
  - `RequestsAssumption` says what a client asks: words without a NUL, numbers
    that mean what `strtol()` makes of them, and paths other than the two that have handlers in which
    nothing has to be encoded. `DataFilesAssumption` says that the data directory has no
    file named as a handler is.
- `Sorting`: what those proofs use about numbers and sequences: a transitive, irreflexive
  order lines up n things in one way, a set of numbers has a least one, a property that
  passes from each number to the next holds up to the last, and what is true of each part
  of a sequence put together from parts is found again in the whole.

All safety invariants, action properties and refinements of the passing runs are proved.
Only model-checked: liveness, which needs fairness and `ENABLED` and is out of reach of
the prover.

## Not modelled

`PROJECT.json` lists every part with its status. Left out for good:

- Translations, build files, tests, and the index generator, which have no state of the
  program; the conversions of characters in `utils`; the `.syn` parser.
- `httplib.h`: the client, SSL, compression, keep-alive of HTTP/1.1 (main() answers
  1.0), content types, lines longer than a buffer, negative lengths, what is in a
  multipart body, and `stop()`, which nothing calls. SIGPIPE is taken to be
  ignored.
- The web page shows answers of `/neigh` as they arrive, in whatever order; the
  program does not see it.
- Within modelled parts: malformed dictionaries and templates, running out of memory,
  the lifetime of pointers into caches, .dict.dz files of the type DICT_GZIP, the
  pointers that `open()` leaves unset when it fails, overflow of the stamps,
  a place in an article that is 2^32 bytes behind its beginning because a size was read wrong
  (the code computes some of these in 32 bits), regular expressions as such, an empty pattern in `format.conf` (for which
  `replaceAll` does not end), a colon with no type behind it and a backslash at the end
  of one of its lines,
  data directories inside one another, dictionaries installed between the two
  scans of start-up, and two dictionaries that share the name of a file in
  `~/.cache/sdwv`.
- Synonyms with capital letters, and several of the same word: the query has the
  map as `SynFile::load` leaves it.

## Plan

Done: all parts of the inventory have their modules, and the indexes, cursors, caches,
searches, pages, start-up and the server have their proofs. What would come next: the parser
of `.syn` files and several synonyms of one word, and the conversions of characters in `utils`.
