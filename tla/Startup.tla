------------------------------- MODULE Startup -------------------------------
(***************************************************************************)
(* prepare() of sdwv.cpp: the .ifo files are looked for, the options and   *)
(* the ordering file turned into a list of files to load first and one of  *)
(* files not to load, the files looked for again and loaded, and those     *)
(* without a place in the order sorted.  A file is a number, its place in  *)
(* the order of the full names; readdir() returns files in any order.      *)
(***************************************************************************)
EXTENDS Integers, Sequences, SequencesExt, FiniteSets

CONSTANTS
    Trees,      \* what may be in the directories: see Ifo
    UseLists,   \* what may follow -u, a list of book names
    Orderings,  \* what may be in the ordering file
    NoFile      \* no such option, no such file, no such line

\* Files are counted from 1, and are where for_each_file looks; a list has its names
\* one after the other.
ASSUME TreesAssumption ==
    \A t \in Trees : \A f \in DOMAIN t : f \in Nat \ {0} /\ t[f].under \in {"home", "data"}
ASSUME ListsAssumption ==
    \A list \in UseLists \cup Orderings : list # NoFile => list \in Seq(Range(list))

VARIABLES
    tree, use_dict_list, ordering,  \* the directories, the option, and the file
    stage,              \* what runs
    dirs, unseen,       \* for_each_file: directories to come, files of this one
    names,              \* the book names of a list that are still to come
    bookname_to_ifo,    \* the file of each book name, then its directory
    order_list, disable_list,
    oLib, order_cnt     \* the dictionaries loaded, and how many of them in order

inputs == <<tree, use_dict_list, ordering>>
lists == <<names, bookname_to_ifo, order_list, disable_list>>
prepareVars == <<inputs, stage, dirs, unseen, lists, oLib, order_cnt>>
-----------------------------------------------------------------------------
(* A file whose name has ".ifo" in it: the directory it is found under, its *)
(* own directory, the book name, and what stands beside it under its name   *)
(* without the last three letters, in order or damaged.  For a backup,      *)
(* x.ifo~, nothing does.                                                    *)

Files == DOMAIN tree
Named(f) == tree[f].book # NoFile
Unreadable(f) == ~tree[f].magic

\* Dict::load: the compressed files come first, and when they are there but damaged
\* the plain ones are not tried; synonyms may be missing.
Good(f, packed, plain) ==
    IF packed \in tree[f].beside THEN packed \notin tree[f].damaged
    ELSE plain \in tree[f].beside \ tree[f].damaged
Loads(f) ==
    /\ ~Unreadable(f) /\ Named(f) /\ tree[f].wordcount > 0
    /\ Good(f, "dict.dz", "dict") /\ Good(f, "idx.gz", "idx")

Under(dir) == { f \in Files : tree[f].under = dir }

SearchDirs == <<"home", "data">>

PrepareInit ==
    /\ tree \in Trees
    /\ use_dict_list \in UseLists /\ ordering \in Orderings
    /\ stage = "scan" /\ dirs = SearchDirs /\ unseen = {}
    /\ names = <<>> /\ bookname_to_ifo = <<>>
    /\ order_list = <<>> /\ disable_list = {}
    /\ oLib = <<>> /\ order_cnt = 0
-----------------------------------------------------------------------------
(* for_each_file: one directory after the other, file by file.              *)

OpenDir ==
    /\ stage \in {"scan", "walk"} /\ unseen = {} /\ dirs # <<>>
    /\ unseen' = Under(Head(dirs)) /\ dirs' = Tail(dirs)
    /\ UNCHANGED <<inputs, stage, lists, oLib, order_cnt>>

\* The names: a later file of a book name takes the place of an earlier one; a file
\* that is a dictionary's but has no book name ends the program, by at().
ScanFile(f) ==
    /\ stage = "scan" /\ f \in unseen
    /\ unseen' = unseen \ {f}
    /\ \/ Unreadable(f) /\ UNCHANGED <<stage, bookname_to_ifo>>
       \/ /\ ~Unreadable(f) /\ Named(f)
          /\ bookname_to_ifo' =
                 [name \in DOMAIN bookname_to_ifo \cup {tree[f].book} |->
                      IF name = tree[f].book THEN f ELSE bookname_to_ifo[name]]
          /\ UNCHANGED stage
       \/ ~Unreadable(f) /\ ~Named(f) /\ stage' = "exit 10" /\ UNCHANGED bookname_to_ifo
    /\ UNCHANGED <<inputs, dirs, names, order_list, disable_list, oLib, order_cnt>>

ScanDone ==
    /\ stage = "scan" /\ unseen = {} /\ dirs = <<>>
    /\ \/ use_dict_list # NoFile /\ stage' = "use" /\ names' = use_dict_list
       \/ use_dict_list = NoFile /\ ordering # NoFile /\ stage' = "order" /\ names' = ordering
       \/ use_dict_list = NoFile /\ ordering = NoFile /\ stage' = "paths" /\ names' = <<>>
    /\ UNCHANGED <<inputs, dirs, unseen, bookname_to_ifo, order_list, disable_list, oLib, order_cnt>>
-----------------------------------------------------------------------------
(* The order.                                                               *)

Known(name) == name \in DOMAIN bookname_to_ifo
UnchangedNames == UNCHANGED <<inputs, dirs, unseen, bookname_to_ifo, oLib, order_cnt>>

\* A name after -u that is no book's is passed over; one of the ordering file ends
\* the program.
UseName ==
    /\ stage = "use" /\ names # <<>>
    /\ names' = Tail(names)
    /\ order_list' = IF Known(Head(names)) THEN Append(order_list, bookname_to_ifo[Head(names)])
                     ELSE order_list
    /\ UNCHANGED <<stage, disable_list>> /\ UnchangedNames

\* A slip: the names that are not asked for are forgotten.
UseDoneForgets ==
    /\ stage = "use" /\ names = <<>>
    /\ disable_list' = Range(bookname_to_ifo) \ ToSet(order_list)
    /\ bookname_to_ifo' =
           [name \in { n \in DOMAIN bookname_to_ifo : bookname_to_ifo[n] \in ToSet(order_list) }
                |-> bookname_to_ifo[name]]
    /\ stage' = "paths"
    /\ UNCHANGED <<inputs, dirs, unseen, oLib, order_cnt, names, order_list>>

UseDone ==
    /\ stage = "use" /\ names = <<>>
    /\ disable_list' = Range(bookname_to_ifo) \ ToSet(order_list)
    /\ stage' = "paths"
    /\ UNCHANGED <<names, order_list>> /\ UnchangedNames

OrderName ==
    /\ stage = "order" /\ names # <<>>
    /\ names' = Tail(names)
    /\ \/ /\ Known(Head(names))
          /\ order_list' = Append(order_list, bookname_to_ifo[Head(names)])
          /\ UNCHANGED stage
       \/ ~Known(Head(names)) /\ stage' = "exit 10" /\ UNCHANGED order_list
    /\ UNCHANGED disable_list /\ UnchangedNames

OrderDone ==
    /\ stage = "order" /\ names = <<>>
    /\ stage' = "paths"
    /\ UNCHANGED <<names, order_list, disable_list>> /\ UnchangedNames

\* The file names become those of their directories; the Library is made.
Paths ==
    /\ stage = "paths"
    /\ bookname_to_ifo' = [name \in DOMAIN bookname_to_ifo |-> tree[bookname_to_ifo[name]].directory]
    /\ stage' = "ordered" /\ names' = order_list
    /\ UNCHANGED <<inputs, dirs, unseen, order_list, disable_list, oLib, order_cnt>>
-----------------------------------------------------------------------------
(* Libs::load.                                                              *)

\* load_dict.
LoadDict(f) == oLib' = IF Loads(f) THEN Append(oLib, f) ELSE oLib

LoadOrdered ==
    /\ stage = "ordered" /\ names # <<>>
    /\ names' = Tail(names)
    /\ LoadDict(Head(names))
    /\ order_cnt' = IF Loads(Head(names)) THEN order_cnt + 1 ELSE order_cnt
    /\ UNCHANGED <<inputs, stage, dirs, unseen, bookname_to_ifo, order_list, disable_list>>

StartWalk ==
    /\ stage = "ordered" /\ names = <<>>
    /\ stage' = "walk" /\ dirs' = SearchDirs
    /\ UNCHANGED <<inputs, unseen, lists, oLib, order_cnt>>

\* A slip: the files of the order are not passed over.
WantedAgain(f) == f \notin disable_list

\* What is in neither list is loaded as it is met.
Wanted(f) == f \notin ToSet(order_list) /\ f \notin disable_list

WalkFile(f) ==
    /\ stage = "walk" /\ f \in unseen
    /\ unseen' = unseen \ {f}
    /\ IF Wanted(f) THEN LoadDict(f) ELSE UNCHANGED oLib
    /\ UNCHANGED <<inputs, stage, dirs, lists, order_cnt>>

\* A slip: all that was to be ordered counts, loaded or not.
OrderedWanted == Len(order_list)

Ordered == order_cnt

Sorted(files) ==
    CHOOSE s \in { [k \in DOMAIN files |-> files[p[k]]] :
                     p \in { f \in [DOMAIN files -> DOMAIN files] : IsInjective(f) } } :
        \A j, k \in DOMAIN files : j < k => ~(s[k] < s[j])

\* Those after the ordered ones are sorted by the names of their files.
SortRest ==
    /\ stage = "walk" /\ unseen = {} /\ dirs = <<>>
    /\ oLib' = SubSeq(oLib, 1, Ordered) \o Sorted(SubSeq(oLib, Ordered + 1, Len(oLib)))
    /\ stage' = "ready"
    /\ UNCHANGED <<inputs, dirs, unseen, lists, order_cnt>>
-----------------------------------------------------------------------------
PrepareNext ==
    \/ OpenDir \/ ScanDone
    \/ \E f \in Files : ScanFile(f) \/ WalkFile(f)
    \/ UseName \/ UseDone \/ OrderName \/ OrderDone
    \/ Paths \/ LoadOrdered \/ StartWalk \/ SortRest

PrepareSpec == PrepareInit /\ [][PrepareNext]_prepareVars
-----------------------------------------------------------------------------
Ready == stage = "ready"
Loaded == ToSet(oLib)
Asked(f) == use_dict_list = NoFile \/ tree[f].book \in ToSet(use_dict_list)

\* Every dictionary that can be loaded and was asked for is there, found in whatever
\* order, and once only unless its name was given twice; even when two have one name.
EveryAskedOnce ==
    Ready => \A f \in Files :
        LET times == Cardinality({ k \in DOMAIN oLib : oLib[k] = f })
            given == IF use_dict_list # NoFile THEN use_dict_list
                     ELSE IF ordering # NoFile THEN ordering ELSE <<>>
            twice == Cardinality({ k \in DOMAIN given : given[k] = tree[f].book }) > 1
        IN  /\ Loads(f) /\ Asked(f) => times > 0
            /\ times > 1 => twice

\* The dictionaries of an order come first and in that order, those of them that
\* load; the others follow by the names of their files.  While no two have one name.
NamesDiffer ==
    \A f, g \in Files : f # g /\ Named(f) /\ ~Unreadable(f) /\ ~Unreadable(g)
                           => tree[f].book # tree[g].book
PlaceIn(list, f) ==
    LET at == { k \in DOMAIN list : list[k] = tree[f].book }
    IN  IF at = {} THEN Len(list) + f ELSE CHOOSE k \in at : \A j \in at : k <= j
OrderKept ==
    Ready /\ NamesDiffer =>
        LET list == IF use_dict_list # NoFile THEN use_dict_list
                    ELSE IF ordering # NoFile THEN ordering ELSE <<>>
        IN  IsInjective(list) =>
                \A j, k \in DOMAIN oLib : j < k => PlaceIn(list, oLib[j]) < PlaceIn(list, oLib[k])

\* parse_data looks the directory of a dictionary up by its book name: every name is
\* there, with the directory of a file of that name, and with the dictionary's own
\* while no two have one name.
PathKnown ==
    Ready => \A f \in Loaded :
        /\ tree[f].book \in DOMAIN bookname_to_ifo
        /\ \E g \in Files : /\ tree[g].book = tree[f].book
                            /\ bookname_to_ifo[tree[f].book] = tree[g].directory
        /\ NamesDiffer => bookname_to_ifo[tree[f].book] = tree[f].directory

\* The help says that -u searches only the dictionaries with these names.
OnlyAsked == Ready => \A f \in Loaded : Asked(f)
=============================================================================
