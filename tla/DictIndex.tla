------------------------------ MODULE DictIndex ------------------------------
(***************************************************************************)
(* The word index of one dictionary as Dict uses it: Dict::load makes a    *)
(* WordListIndex where there is an .idx.gz file and an OffsetIndex where   *)
(* there is an .idx file, and Dict calls either through IIndexFile.  The   *)
(* two classes share the word list and the protocol of a call; what only   *)
(* one of them has does not move when the other serves.                    *)
(***************************************************************************)
EXTENDS OffsetIndex

VARIABLES
    idxclass,   \* the class of idx_file
    wordlist    \* of WordListIndex

W == INSTANCE WordListIndex

onDisk == <<loaded, page, idx>>     \* what only OffsetIndex has
dictvars == <<vars, idxclass, wordlist>>

\* Which of the two files is there is up to whoever installed the dictionary.
DictInit ==
    /\ Init
    /\ W!Init
    /\ idxclass \in {"OffsetIndex", "WordListIndex"}

Serve ==
    \/ idxclass = "OffsetIndex" /\ Step /\ UNCHANGED <<idxclass, wordlist>>
    \/ idxclass = "WordListIndex" /\ W!Step /\ UNCHANGED <<idxclass, onDisk>>

DictNext ==
    \/ idxclass = "OffsetIndex" /\ Next /\ UNCHANGED <<idxclass, wordlist>>
    \/ idxclass = "WordListIndex" /\ W!Next /\ UNCHANGED <<idxclass, onDisk>>

DictSpec == DictInit /\ [][DictNext]_dictvars

\* The thread that made a call runs it: nothing in either class waits.
FairDictSpec == DictSpec /\ WF_dictvars(Serve)
-----------------------------------------------------------------------------
\* Where the index is on disk, the cached page is the one its number says,
\* whatever sequence of lookups and get_keys came before.
DiskPageCoherent == idxclass = "OffsetIndex" => PageCoherent

\* No search of either class leaves its window or compares a place that is
\* not an entry of the word list.
SearchInside ==
    /\ idxclass = "OffsetIndex" => SearchWindow
    /\ idxclass = "WordListIndex" => W!SearchWindow
==============================================================================
