------------------------------ MODULE OftCache ------------------------------
(***************************************************************************)
(* The .oft files: OffsetIndex::load keeps the page offsets it has counted *)
(* in a file beside the .idx file or in ~/.cache/sdwv, and a later load    *)
(* takes them from there unless the .idx file is newer.                    *)
(*                                                                         *)
(* This is the cache of one dictionary: README asks for dictionaries with  *)
(* different file names.  An .oft file is written in two parts, the first  *)
(* with the magic numbers before it.  A part is the number of the version  *)
(* of the .idx file whose offsets it has.                                  *)
(***************************************************************************)
EXTENDS Integers, Sequences

CONSTANTS
    Procs,          \* processes of the program
    Quiet,          \* TRUE: the .idx file changes only while nothing is
                    \* loading, and in a later second than a save
    MaxTime         \* bound on the clock, in seconds, and on the versions

ASSUME QuietAssumption == Quiet \in BOOLEAN /\ MaxTime \in Nat

VARIABLES
    now,            \* the clock
    idxfile,        \* version and st_mtime of the .idx file
    oft,            \* oft[item]: the .oft file at one of the two places
    proc,           \* proc[p]: where process p is in load(), and, for the
                    \* properties, the version that was there when it began
    disturbed       \* a save was cut short, or read by another process

oftvars == <<now, idxfile, oft, proc, disturbed>>

Items == {"dir", "home"}
NoFile == [mtime |-> -1]
Versions == 0 .. MaxTime
None == -1      \* a part that was not written
Zeros == -2     \* a hole in the file
Idle == [pc |-> "idle"]

OftInit ==
    /\ now = 0
    /\ idxfile = [ver |-> 0, mtime |-> 0]
    /\ oft = [item \in Items |-> NoFile]
    /\ proc = [p \in Procs |-> Idle]
    /\ disturbed = FALSE
-----------------------------------------------------------------------------
\* get_cache_variant(): the second place is left out when ~/.cache/sdwv
\* cannot be made.
CacheVariants == { <<"dir">>, <<"dir", "home">> }

\* load() begins, with load_cache().
LoadCache(p) ==
    /\ proc[p].pc = "idle"
    /\ \E variants \in CacheVariants :
         proc' = [proc EXCEPT ![p] = [pc |-> "stat", ver |-> idxfile.ver, left |-> variants]]
    /\ UNCHANGED <<now, idxfile, oft, disturbed>>

Item(p) == Head(proc[p].left)
IsEmpty(item) == oft[item].head = None /\ oft[item].tail = None

\* A slip: any cache that is there is taken for fresh.
FreshIfThere(item) == oft[item].mtime >= 0

Fresh(item) == oft[item].mtime >= idxfile.mtime
NextItem(p) == [proc[p] EXCEPT !.pc = "stat", !.left = Tail(@)]

\* stat() of both files; mmap() refuses a file that is empty.
StatCache(p) ==
    /\ proc[p].pc = "stat"
    /\ proc[p].left # <<>>
    /\ proc' = [proc EXCEPT ![p] =
                  IF oft[Item(p)] # NoFile /\ Fresh(Item(p)) /\ ~IsEmpty(Item(p))
                  THEN [proc[p] EXCEPT !.pc = "read"]
                  ELSE NextItem(p)]
    /\ UNCHANGED <<now, idxfile, oft, disturbed>>

Writers(item) == { w \in Procs : proc[w].pc \in {"head", "tail"} /\ Item(w) = item }

\* The magic numbers and the offsets, as many as the dictionary needs, are
\* copied from the file as it is by now.  One that was emptied meanwhile ends
\* the process.
ReadCache(p) ==
    /\ proc[p].pc = "read"
    /\ LET item == Item(p)
           file == oft[item]
       IN /\ \/ /\ IsEmpty(item)
                /\ proc' = [proc EXCEPT ![p] = Idle]
             \/ /\ ~IsEmpty(item) /\ file.head \notin Versions
                /\ proc' = [proc EXCEPT ![p] = NextItem(p)]
             \/ /\ file.head \in Versions
                /\ proc' = [proc EXCEPT ![p] =
                              [pc |-> "open", ver |-> proc[p].ver,
                               wordoffset |-> <<file.head, file.tail>>]]
          /\ disturbed' = (disturbed \/ Writers(item) # {})
    /\ UNCHANGED <<now, idxfile, oft>>

\* No variant will do: the offsets are counted in the .idx file, and
\* save_cache() begins.
Scan(p) ==
    /\ proc[p].pc = "stat"
    /\ proc[p].left = <<>>
    /\ \E variants \in CacheVariants :
         proc' = [proc EXCEPT ![p] =
                    [pc |-> "save", ver |-> proc[p].ver, left |-> variants,
                     wordoffset |-> <<idxfile.ver, idxfile.ver>>]]
    /\ UNCHANGED <<now, idxfile, oft, disturbed>>

Saved(p) == [pc |-> "open", ver |-> proc[p].ver, wordoffset |-> proc[p].wordoffset]

\* fopen(item, "wb") makes the file, or empties it.
SaveOpen(p) ==
    /\ proc[p].pc = "save"
    /\ proc[p].left # <<>>
    /\ oft' = [oft EXCEPT ![Item(p)] = [mtime |-> now, head |-> None, tail |-> None]]
    /\ proc' = [proc EXCEPT ![p].pc = "head"]
    /\ UNCHANGED <<now, idxfile, disturbed>>

\* The process may not be allowed to: the next variant, or, after the last,
\* "cache update failed".
SaveCannotOpen(p) ==
    /\ proc[p].pc = "save"
    /\ proc' = [proc EXCEPT ![p] = IF proc[p].left = <<>> THEN Saved(p)
                                   ELSE [proc[p] EXCEPT !.left = Tail(@)]]
    /\ UNCHANGED <<now, idxfile, oft, disturbed>>

\* The first part reaches the file.
SaveHead(p) ==
    /\ proc[p].pc = "head"
    /\ oft' = [oft EXCEPT ![Item(p)].head = proc[p].wordoffset[1],
                          ![Item(p)].mtime = now]
    /\ proc' = [proc EXCEPT ![p].pc = "tail"]
    /\ UNCHANGED <<now, idxfile, disturbed>>

\* A slip: only the first part is written.
SaveTailLost(p) ==
    /\ proc[p].pc = "tail"
    /\ oft' = [oft EXCEPT ![Item(p)].mtime = now]
    /\ proc' = [proc EXCEPT ![p] = Saved(p)]
    /\ UNCHANGED <<now, idxfile, disturbed>>

\* The second part reaches the file and it is closed.  If another process has
\* emptied it since, zeros stand where the first part was.
SaveTail(p) ==
    /\ proc[p].pc = "tail"
    /\ oft' = [oft EXCEPT ![Item(p)] =
                 [mtime |-> now, tail |-> proc[p].wordoffset[2],
                  head |-> IF @.head = None THEN Zeros ELSE @.head]]
    /\ proc' = [proc EXCEPT ![p] = Saved(p)]
    /\ UNCHANGED <<now, idxfile, disturbed>>

\* fwrite() fails: what was written stays, and the next variant is tried.
SaveFails(p) ==
    /\ proc[p].pc \in {"head", "tail"}
    /\ disturbed' = TRUE
    /\ proc' = [proc EXCEPT ![p].pc = "save", ![p].left = Tail(@)]
    /\ UNCHANGED <<now, idxfile, oft>>

\* load() opens the .idx file it will read words from.
OpenIdx(p) ==
    /\ proc[p].pc = "open"
    /\ proc' = [proc EXCEPT ![p].pc = "loaded"]
    /\ UNCHANGED <<now, idxfile, oft, disturbed>>

\* The process ends, or is ended.
Exit(p) ==
    /\ proc[p].pc # "idle"
    /\ disturbed' = (disturbed \/ proc[p].pc \in {"head", "tail"})
    /\ proc' = [proc EXCEPT ![p] = Idle]
    /\ UNCHANGED <<now, idxfile, oft>>

\* Somebody replaces the .idx file.
Modify ==
    /\ idxfile.ver < MaxTime
    /\ Quiet => /\ \A p \in Procs : proc[p].pc \in {"idle", "loaded"}
                /\ \A item \in Items : oft[item].mtime < now
    /\ idxfile' = [ver |-> idxfile.ver + 1, mtime |-> now]
    /\ UNCHANGED <<now, oft, proc, disturbed>>

Tick ==
    /\ now < MaxTime
    /\ now' = now + 1
    /\ UNCHANGED <<idxfile, oft, proc, disturbed>>

OftNext ==
    \/ \E p \in Procs :
         \/ LoadCache(p) \/ StatCache(p) \/ ReadCache(p) \/ Scan(p)
         \/ SaveOpen(p) \/ SaveCannotOpen(p)
         \/ SaveHead(p) \/ SaveTail(p) \/ SaveFails(p)
         \/ OpenIdx(p) \/ Exit(p)
    \/ Modify
    \/ Tick

OftSpec == OftInit /\ [][OftNext]_oftvars
-----------------------------------------------------------------------------
\* NEWS: "Recreate cache if idx file was modified".  No part of the offsets
\* that a load ends with was counted in a version of the .idx file that had
\* been replaced when the load began.
RecreateIfModified ==
    \A p \in Procs : proc[p].pc = "loaded" =>
        \A k \in 1 .. 2 : LET part == proc[p].wordoffset[k] IN
            part # None => part >= proc[p].ver

\* While no save was cut short, and no .oft file read while it was written, no
\* load ends with offsets of which a part is missing.
LoadedWhole ==
    ~disturbed =>
        \A p \in Procs : proc[p].pc = "loaded" => proc[p].wordoffset[2] # None
=============================================================================
