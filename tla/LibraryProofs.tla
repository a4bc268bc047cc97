---------------------------- MODULE LibraryProofs ----------------------------
(***************************************************************************)
(* The two things the program does with its dictionaries.  It starts: for  *)
(* every set of files, every list after -u and every ordering file, and in *)
(* whatever order readdir() returns the files, every dictionary asked for  *)
(* is loaded once, the dictionaries come in the order asked for, and the   *)
(* directory of each is found by its name (see Startup).  And it answers:  *)
(* for every set of dictionaries and every phrase, a rule search finds     *)
(* what it should, LookupSimilarWord looks up the base words of a word and *)
(* nothing else, every result is what was asked for, and the page shows    *)
(* the results as its template says (see Query and ResponseOut).           *)
(***************************************************************************)
EXTENDS Startup, Query, Sorting, FiniteSetTheorems
-----------------------------------------------------------------------------
(* Start-up: the invariant. *)

\* The list that decides the order, and how many of its names were looked up.
Given == IF use_dict_list # NoFile THEN use_dict_list
         ELSE IF ordering # NoFile THEN ordering ELSE <<>>
Used == IF stage = "scan" THEN 0
        ELSE IF stage \in {"use", "order"} THEN Len(Given) - Len(names) ELSE Len(Given)

\* The files that for_each_file has been to, in the scan or in the walk.
Seen == { f \in Files : f \notin unseen /\ \A k \in DOMAIN dirs : tree[f].under # dirs[k] }
Scanned == IF stage = "scan" THEN Seen ELSE Files
Books(files) == [k \in DOMAIN files |-> tree[files[k]].book]

\* What is left of a sequence.
Rest(s, all) ==
    /\ Len(s) <= Len(all)
    /\ \A k \in 1 .. Len(s) : s[k] = all[(Len(all) - Len(s)) + k]

\* The first m of s are among the first n of t, and in the same order.
Drawn(s, m, t, n) ==
    \A j, k \in 1 .. m : j <= k =>
        \E a, b \in 1 .. n : /\ t[a] = s[j] /\ t[b] = s[k]
                             /\ a <= b /\ (j < k => a < b)

Types ==
    /\ tree \in Trees
    /\ use_dict_list \in UseLists /\ ordering \in Orderings
    /\ unseen \subseteq Files
    /\ \/ dirs = <<"home", "data">> /\ unseen = {}
       \/ dirs = <<"data">> /\ \A f \in unseen : tree[f].under = "home"
       \/ dirs = <<>>
    /\ order_list \in Seq(Files) /\ oLib \in Seq(Files)
    /\ disable_list \subseteq Files
    /\ order_cnt \in 0 .. Len(oLib)

\* Every name that was met has a file, and where it is nobody forgets.
NamesKnown ==
    /\ \A f \in Scanned : ~Unreadable(f) => Named(f) /\ Known(tree[f].book)
    /\ \A name \in DOMAIN bookname_to_ifo :
          \E f \in Scanned :
             /\ ~Unreadable(f) /\ Named(f) /\ tree[f].book = name
             /\ bookname_to_ifo[name] = IF stage \in {"scan", "use", "order", "paths"} THEN f
                                        ELSE tree[f].directory

\* The list of the order has the files of the names looked up, each a dictionary's.
ListOfOrder ==
    /\ \A f \in ToSet(order_list) :
          /\ ~Unreadable(f) /\ Named(f)
          /\ stage \in {"use", "order", "paths"} => bookname_to_ifo[tree[f].book] = f
    /\ Used \in 0 .. Len(Given)
    /\ Drawn(Books(order_list), Len(order_list), Given, Used)
    /\ \A a \in 1 .. Used : Known(Given[a]) => \E f \in ToSet(order_list) : tree[f].book = Given[a]

\* A file is not to be loaded only when its name is not asked for.
ListOfDisabled ==
    \A f \in disable_list :
        use_dict_list # NoFile /\ tree[f].book \notin ToSet(use_dict_list)

\* The files of the order that could be loaded come first, as the list has them.
OrderedFirst(n) ==
    /\ \A f \in Loaded : Loads(f)
    /\ Drawn(oLib, order_cnt, order_list, n)
    /\ \A a \in 1 .. n : Loads(order_list[a]) => \E k \in 1 .. order_cnt : oLib[k] = order_list[a]

\* Behind them stands what was met and wanted, each once.
OthersBehind ==
    /\ \A k \in order_cnt + 1 .. Len(oLib) : oLib[k] \in Seen /\ Wanted(oLib[k])
    /\ \A j, k \in order_cnt + 1 .. Len(oLib) : oLib[j] = oLib[k] => j = k
    /\ \A f \in Seen : Loads(f) /\ Wanted(f) => \E k \in order_cnt + 1 .. Len(oLib) : oLib[k] = f

OthersSorted == \A j, k \in order_cnt + 1 .. Len(oLib) : j < k => oLib[j] < oLib[k]

Phase ==
    /\ stage = "scan" => order_list = <<>> /\ disable_list = {} /\ oLib = <<>> /\ order_cnt = 0
    /\ stage \in {"use", "order"} => /\ names \in Seq(Range(Given)) /\ Rest(names, Given)
    /\ stage = "use" => use_dict_list # NoFile
    /\ stage = "order" => use_dict_list = NoFile /\ ordering # NoFile
    /\ stage = "paths" => use_dict_list # NoFile \/ ordering # NoFile \/ order_list = <<>>
    /\ stage \in {"use", "order", "paths"} => oLib = <<>> /\ order_cnt = 0
    /\ stage \in {"use", "order", "paths", "ordered"} => unseen = {} /\ dirs = <<>>
    /\ stage = "ordered" => /\ names \in Seq(Files) /\ Rest(names, order_list)
                            /\ order_cnt = Len(oLib)
                            /\ OrderedFirst(Len(order_list) - Len(names))
    /\ stage \in {"walk", "ready"} => OrderedFirst(Len(order_list)) /\ OthersBehind
    /\ stage = "ready" => unseen = {} /\ dirs = <<>> /\ OthersSorted

StartupInv ==
    /\ stage \in {"scan", "use", "order", "paths", "ordered", "walk", "ready", "exit 10"}
    /\ stage # "exit 10" => Types /\ NamesKnown /\ ListOfOrder /\ ListOfDisabled /\ Phase
-----------------------------------------------------------------------------
(* Sequences. *)

\* The next of what is left.
LEMMA RestTail ==
    ASSUME NEW X, NEW s \in Seq(X), NEW all, Len(all) \in Nat, Rest(s, all), s # <<>>
    PROVE  /\ Tail(s) \in Seq(X) /\ Rest(Tail(s), all)
           /\ Len(Tail(s)) = Len(s) - 1 /\ Len(s) \in 1 .. Len(all)
           /\ Head(s) \in X /\ Head(s) = all[(Len(all) - Len(s)) + 1]
<1>1. /\ Tail(s) \in Seq(X) /\ Len(Tail(s)) = Len(s) - 1 /\ Len(s) \in Nat \ {0}
      /\ Head(s) \in X /\ Head(s) = s[1]
      /\ \A k \in 1 .. Len(Tail(s)) : Tail(s)[k] = s[k + 1]
  OBVIOUS
<1>2. Len(s) <= Len(all) /\ \A k \in 1 .. Len(s) : s[k] = all[(Len(all) - Len(s)) + k]
  BY DEF Rest
<1>3. ASSUME NEW k \in 1 .. Len(Tail(s))
      PROVE  Tail(s)[k] = all[(Len(all) - Len(Tail(s))) + k]
  <2>1. k + 1 \in 1 .. Len(s)
        /\ (Len(all) - Len(s)) + (k + 1) = (Len(all) - Len(Tail(s))) + k
    BY <1>1
  <2> QED
    BY <1>1, <1>2, <2>1
<1>4. 1 \in 1 .. Len(s)
  BY <1>1
<1> QED
  BY <1>1, <1>2, <1>3, <1>4 DEF Rest

\* One more is drawn: the next one.
LEMMA DrawNext ==
    ASSUME NEW s, NEW r, NEW m \in Nat, NEW t, NEW n \in Nat, Drawn(s, m, t, n),
           \A k \in 1 .. m : r[k] = s[k], r[m + 1] = t[n + 1]
    PROVE  Drawn(r, m + 1, t, n + 1)
<1> SUFFICES ASSUME NEW j \in 1 .. m + 1, NEW k \in 1 .. m + 1, j <= k
             PROVE  \E a, b \in 1 .. n + 1 : /\ t[a] = r[j] /\ t[b] = r[k]
                                             /\ a <= b /\ (j < k => a < b)
  BY DEF Drawn
<1>1. CASE k <= m
  <2>1. j \in 1 .. m /\ k \in 1 .. m
    BY <1>1
  <2>2. PICK a, b \in 1 .. n : /\ t[a] = s[j] /\ t[b] = s[k]
                               /\ a <= b /\ (j < k => a < b)
    BY <2>1 DEF Drawn
  <2>3. a \in 1 .. n + 1 /\ b \in 1 .. n + 1
    OBVIOUS
  <2> QED
    BY <2>1, <2>2, <2>3
<1>2. CASE k = m + 1 /\ j <= m
  <2>1. j \in 1 .. m /\ j <= j
    BY <1>2
  <2>2. PICK a, b \in 1 .. n : /\ t[a] = s[j] /\ t[b] = s[j]
                               /\ a <= b /\ (j < j => a < b)
    BY <2>1 DEF Drawn
  <2>3. a \in 1 .. n + 1 /\ n + 1 \in 1 .. n + 1 /\ a < n + 1
    OBVIOUS
  <2>4. t[a] = r[j] /\ t[n + 1] = r[k]
    BY <1>2, <2>1, <2>2
  <2> QED
    BY <2>3, <2>4
<1>3. CASE k = m + 1 /\ j = m + 1
  <2>1. n + 1 \in 1 .. n + 1 /\ t[n + 1] = r[j] /\ t[n + 1] = r[k] /\ ~(j < k)
    BY <1>3
  <2> QED
    BY <2>1
<1> QED
  BY <1>1, <1>2, <1>3

\* One is passed over.
LEMMA DrawNone ==
    ASSUME NEW s, NEW r, NEW m \in Nat, NEW t, NEW n \in Nat, Drawn(s, m, t, n),
           \A k \in 1 .. m : r[k] = s[k]
    PROVE  Drawn(r, m, t, n + 1) /\ Drawn(r, m, t, n)
<1>1. 1 .. n \subseteq 1 .. n + 1
  OBVIOUS
<1>2. ASSUME NEW j \in 1 .. m, NEW k \in 1 .. m, j <= k
      PROVE  \E a, b \in 1 .. n : /\ t[a] = r[j] /\ t[b] = r[k]
                                  /\ a <= b /\ (j < k => a < b)
  <2>1. r[j] = s[j] /\ r[k] = s[k]
    OBVIOUS
  <2>2. PICK a, b \in 1 .. n : t[a] = s[j] /\ t[b] = s[k] /\ a <= b /\ (j < k => a < b)
    BY <1>2 DEF Drawn
  <2> QED BY ONLY <2>1, <2>2
<1>3. Drawn(r, m, t, n)
  BY ONLY <1>2 DEF Drawn
<1>4. Drawn(r, m, t, n + 1)
  BY ONLY <1>1, <1>2 DEF Drawn
<1> QED BY <1>3, <1>4

\* What is drawn from what was drawn; c and d say something of s and t.
LEMMA DrawnThrough ==
    ASSUME NEW s, NEW m \in Nat, NEW t, NEW n \in Nat, NEW u, NEW l \in Nat, NEW c, NEW d,
           Drawn(s, m, t, n), Drawn(d, n, u, l),
           \A j \in 1 .. m, i \in 1 .. n : s[j] = t[i] => c[j] = d[i]
    PROVE  Drawn(c, m, u, l)
<1> SUFFICES ASSUME NEW j \in 1 .. m, NEW k \in 1 .. m, j <= k
             PROVE  \E a, b \in 1 .. l : /\ u[a] = c[j] /\ u[b] = c[k]
                                         /\ a <= b /\ (j < k => a < b)
  BY DEF Drawn
<1>1. PICK g, h \in 1 .. n : t[g] = s[j] /\ t[h] = s[k] /\ g <= h /\ (j < k => g < h)
  BY ONLY Drawn(s, m, t, n), j \in 1 .. m, k \in 1 .. m, j <= k DEF Drawn
<1>2. PICK a, b \in 1 .. l : u[a] = d[g] /\ u[b] = d[h] /\ a <= b /\ (g < h => a < b)
  BY ONLY Drawn(d, n, u, l), g \in 1 .. n, h \in 1 .. n, <1>1 DEF Drawn
<1>3. c[j] = d[g] /\ c[k] = d[h]
  BY <1>1
<1>4. u[a] = c[j] /\ u[b] = c[k] /\ a <= b /\ (j < k => a < b)
  BY <1>1, <1>2, <1>3
<1> QED
  BY ONLY <1>4, a \in 1 .. l, b \in 1 .. l

\* What a sort does: it moves the files about, and none stands before a smaller one.
LEMMA SortedIs ==
    ASSUME NEW s \in Seq(Nat)
    PROVE  \E p \in [1 .. Len(s) -> 1 .. Len(s)] :
              /\ \A j, k \in 1 .. Len(s) : p[j] = p[k] => j = k
              /\ \A j \in 1 .. Len(s) : \E k \in 1 .. Len(s) : p[k] = j
              /\ Sorted(s) = [k \in 1 .. Len(s) |-> s[p[k]]]
              /\ \A j, k \in 1 .. Len(s) : j < k => s[p[j]] <= s[p[k]]
<1> DEFINE n == Len(s)
           R == { x \in (1 .. n) \X (1 .. n) : s[x[1]] < s[x[2]] }
           Ways == { [k \in 1 .. n |-> s[p[k]]] :
                       p \in { f \in [1 .. n -> 1 .. n] : IsInjective(f) } }
<1>1. n \in Nat /\ DOMAIN s = 1 .. n /\ \A i \in 1 .. n : s[i] \in Nat
  OBVIOUS
<1>2. \A i, j \in 1 .. n : <<i, j>> \in R <=> s[i] < s[j]
  OBVIOUS
<1> HIDE DEF n, R
<1>3. \A i \in 1 .. n : <<i, i>> \notin R
  BY <1>1, <1>2
<1>4. \A i, j, k \in 1 .. n : <<i, j>> \in R /\ <<j, k>> \in R => <<i, k>> \in R
  BY <1>1, <1>2
<1>5. PICK q \in [1 .. n -> 1 .. n] :
         /\ \A i, j \in 1 .. n : q[i] = q[j] => i = j
         /\ \A i, j \in 1 .. n : i < j => <<q[j], q[i]>> \notin R
  BY <1>1, <1>3, <1>4, Sortable
<1>6. IsInjective(q)
  BY <1>5 DEF IsInjective
<1>7. [k \in 1 .. n |-> s[q[k]]] \in Ways
  BY <1>6
<1>8. \A j, k \in 1 .. n : j < k => ~([i \in 1 .. n |-> s[q[i]]][k] < [i \in 1 .. n |-> s[q[i]]][j])
  BY <1>2, <1>5
<1>9. Sorted(s) \in Ways /\ \A j, k \in 1 .. n : j < k => ~(Sorted(s)[k] < Sorted(s)[j])
  <2>1. Sorted(s) = CHOOSE r \in Ways : \A j, k \in 1 .. n : j < k => ~(r[k] < r[j])
    BY <1>1 DEF Sorted
  <2> HIDE DEF Ways
  <2> QED
    BY <1>7, <1>8, <2>1
<1>10. PICK p \in [1 .. n -> 1 .. n] : IsInjective(p) /\ Sorted(s) = [k \in 1 .. n |-> s[p[k]]]
  BY <1>9
<1>11. \A j, k \in 1 .. n : p[j] = p[k] => j = k
  BY <1>10 DEF IsInjective
<1>12. \A j \in 1 .. n : \E k \in 1 .. n : p[k] = j
  <2>1. p \in Injection(1 .. n, 1 .. n)
    BY <1>10, <1>11 DEF Injection, IsInjective
  <2>2. IsFiniteSet(1 .. n)
    BY <1>1, FS_Interval
  <2>3. p \in Surjection(1 .. n, 1 .. n)
    BY <2>1, <2>2, FS_Injection
  <2> QED
    BY <2>3 DEF Surjection
<1>13. ASSUME NEW j \in 1 .. n, NEW k \in 1 .. n, j < k PROVE s[p[j]] <= s[p[k]]
  <2>1. ~(s[p[k]] < s[p[j]])
    BY <1>9, <1>10, <1>13
  <2>2. s[p[j]] \in Nat /\ s[p[k]] \in Nat
    BY <1>1, <1>10
  <2> QED
    BY <2>1, <2>2
<1> QED
  BY <1>10, <1>11, <1>12, <1>13 DEF n
-----------------------------------------------------------------------------
(* The scan. *)

\* Nothing is seen yet.
LEMMA StartupInitInv == PrepareInit => StartupInv
<1> SUFFICES ASSUME PrepareInit PROVE StartupInv
  OBVIOUS
<1>1. /\ tree \in Trees /\ use_dict_list \in UseLists /\ ordering \in Orderings
      /\ stage = "scan" /\ dirs = <<"home", "data">> /\ unseen = {}
      /\ names = <<>> /\ bookname_to_ifo = <<>>
      /\ order_list = <<>> /\ disable_list = {}
      /\ oLib = <<>> /\ order_cnt = 0
  BY DEF PrepareInit, SearchDirs
<1>2. Types
  BY <1>1 DEF Types
<1>3. Scanned = {}
  <2>1. \A f \in Files : tree[f].under = dirs[1] \/ tree[f].under = dirs[2]
    BY <1>1, TreesAssumption DEF Files
  <2>2. DOMAIN dirs = 1 .. 2
    BY <1>1
  <2> QED
    BY <1>1, <2>1, <2>2 DEF Scanned, Seen
<1>4. DOMAIN bookname_to_ifo = {}
  BY <1>1
<1>5. NamesKnown
  BY <1>3, <1>4 DEF NamesKnown
<1>6. Used = 0 /\ ToSet(order_list) = {}
  BY <1>1 DEF Used, ToSet
<1>a. Len(Given) \in Nat
  BY <1>1, ListsAssumption DEF Given
<1>7. ListOfOrder
  <2>1. Drawn(Books(order_list), Len(order_list), Given, Used)
    BY <1>1 DEF Drawn
  <2>2. 1 .. Used = {}
    BY <1>6
  <2> QED
    BY <1>6, <1>a, <2>1, <2>2 DEF ListOfOrder
<1>8. ListOfDisabled
  BY <1>1 DEF ListOfDisabled
<1>9. Phase
  BY <1>1 DEF Phase
<1> QED
  BY <1>1, <1>2, <1>5, <1>7, <1>8, <1>9 DEF StartupInv

\* A directory is opened: its files have not been seen.
LEMMA OpenDirInv ==
    ASSUME StartupInv, OpenDir
    PROVE  StartupInv'
<1>1. /\ stage \in {"scan", "walk"} /\ unseen = {} /\ dirs # <<>>
      /\ unseen' = Under(Head(dirs)) /\ dirs' = Tail(dirs)
      /\ tree' = tree /\ use_dict_list' = use_dict_list /\ ordering' = ordering
      /\ stage' = stage /\ names' = names /\ bookname_to_ifo' = bookname_to_ifo
      /\ order_list' = order_list /\ disable_list' = disable_list
      /\ oLib' = oLib /\ order_cnt' = order_cnt
  BY DEF OpenDir, inputs, lists
<1>2. Types /\ NamesKnown /\ ListOfOrder /\ ListOfDisabled /\ Phase
  BY <1>1 DEF StartupInv
<1>3. \/ dirs = <<"home", "data">> /\ Head(dirs) = "home" /\ dirs' = <<"data">>
      \/ dirs = <<"data">> /\ Head(dirs) = "data" /\ dirs' = <<>>
  <2>1. CASE dirs = <<"home", "data">>
    BY <1>1, <2>1
  <2>2. CASE dirs = <<"data">>
    BY <1>1, <2>2
  <2> QED
    BY <1>1, <1>2, <2>1, <2>2 DEF Types
<1>4. Files' = Files
  BY <1>1 DEF Files
<1>5. unseen' \subseteq Files
      /\ \A f \in unseen' : tree[f].under = Head(dirs)
      /\ \A g \in Files : g \notin unseen' => tree[g].under # Head(dirs)
  BY <1>1 DEF Under
<1>6. Types'
  BY <1>1, <1>2, <1>3, <1>4, <1>5 DEF Types
<1>7. Seen' = Seen
  <2> DEFINE Before(f) == \A k \in DOMAIN dirs : tree[f].under # dirs[k]
             After(f) == \A k \in DOMAIN dirs' : tree'[f].under # dirs'[k]
  <2>1. CASE dirs = <<"home", "data">>
    <3>1. DOMAIN dirs = 1 .. 2 /\ dirs[1] = "home" /\ dirs[2] = "data"
      BY <2>1
    <3>2. Head(dirs) = "home" /\ DOMAIN dirs' = 1 .. 1 /\ dirs'[1] = "data"
      BY <1>3, <2>1
    <3>3. \A f \in Files : Before(f)
                              <=> tree[f].under # "home" /\ tree[f].under # "data"
      BY <3>1
    <3>4. \A f \in Files : After(f)
                              <=> tree[f].under # "data"
      <4>1. \A k : k \in DOMAIN dirs' <=> k = 1
        BY ONLY <3>2
      <4>2. tree' = tree /\ dirs'[1] = "data"
        BY <1>1, <3>2
      <4> QED BY ONLY <4>1, <4>2
    <3> HIDE DEF Before, After
    <3>5. \A f \in Files : (f \notin unseen /\ Before(f))
              <=> (f \notin unseen' /\ After(f))
      <4>1. unseen = {} /\ unseen' = Under("home")
        BY <1>1, <3>2
      <4>2. \A f \in Files : f \in unseen' <=> tree[f].under = "home"
        BY ONLY <4>1 DEF Under
      <4> QED
        BY ONLY <3>3, <3>4, <4>1, <4>2
    <3> QED
      BY <1>4, <3>5 DEF Seen, Before, After
  <2>2. CASE dirs = <<"data">>
    <3>1. DOMAIN dirs = 1 .. 1 /\ dirs[1] = "data"
      BY <2>2
    <3>2. Head(dirs) = "data" /\ DOMAIN dirs' = {} /\ \A f \in Files : After(f)
      BY <1>3, <2>2
    <3>3. \A f \in Files : Before(f)
                              <=> tree[f].under # "data"
      BY <3>1
    <3> HIDE DEF Before, After
    <3>4. \A f \in Files : (f \notin unseen /\ Before(f))
              <=> (f \notin unseen' /\ After(f))
      <4>1. unseen = {} /\ unseen' = Under("data")
        BY <1>1, <3>2
      <4>2. \A f \in Files : f \in unseen' <=> tree[f].under = "data"
        BY ONLY <4>1 DEF Under
      <4> QED
        BY ONLY <3>2, <3>3, <4>1, <4>2
    <3> QED
      BY <1>1, <1>4, <3>4 DEF Seen, Before, After
  <2> QED
    BY <1>3, <2>1, <2>2
<1>8. Scanned' = Scanned
  BY <1>1, <1>4, <1>7 DEF Scanned
<1>9. NamesKnown'
  BY <1>1, <1>2, <1>4, <1>8 DEF NamesKnown, Unreadable, Named, Known
<1>10. Given' = Given /\ Used' = Used /\ Books(order_list)' = Books(order_list)
  BY <1>1 DEF Given, Used, Books
<1>11. ListOfOrder'
  BY <1>1, <1>2, <1>4, <1>10 DEF ListOfOrder, Unreadable, Named, Known
<1>12. ListOfDisabled'
  BY <1>1, <1>2 DEF ListOfDisabled
<1>13. Phase'
  <2>1. OrderedFirst(Len(order_list))' <=> OrderedFirst(Len(order_list))
    BY <1>1 DEF OrderedFirst, Loaded, Loads, Good, Unreadable, Named
  <2>2. OthersBehind' <=> OthersBehind
    BY <1>1, <1>7 DEF OthersBehind, Wanted, Loads, Good, Unreadable, Named
  <2> QED
    BY <1>1, <1>2, <2>1, <2>2 DEF Phase
<1> QED
  BY <1>1, <1>6, <1>9, <1>11, <1>12, <1>13 DEF StartupInv

\* One file is met: it is one more that was seen.
LEMMA SeeOne ==
    ASSUME Types, NEW f \in unseen, unseen' = unseen \ {f}, dirs' = dirs, tree' = tree
    PROVE  /\ f \in Files /\ Files' = Files
           /\ Seen' = Seen \cup {f} /\ f \notin Seen
           /\ unseen' \subseteq Files
           /\ \/ dirs' = <<"data">> /\ \A g \in unseen' : tree'[g].under = "home"
              \/ dirs' = <<>>
<1>1. f \in Files /\ Files' = Files /\ unseen' \subseteq Files
  BY DEF Types, Files
<1>2. \/ dirs = <<"data">> /\ tree[f].under = "home"
      \/ dirs = <<>>
  BY DEF Types
<1>3. \A k \in DOMAIN dirs : tree[f].under # dirs[k]
  <2>1. CASE dirs = <<"data">>
    <3>1. DOMAIN dirs = 1 .. 1 /\ dirs[1] = "data"
      BY <2>1
    <3>2. tree[f].under = "home"
      BY <1>2, <2>1
    <3> QED
      BY <3>1, <3>2
  <2>2. CASE dirs = <<>>
    BY <2>2
  <2> QED
    BY <1>2, <2>1, <2>2
<1>4. Seen' = Seen \cup {f} /\ f \notin Seen
  <2> DEFINE Before(g) == \A k \in DOMAIN dirs : tree[g].under # dirs[k]
  <2>1. Seen = { g \in Files : g \notin unseen /\ Before(g) }
    BY DEF Seen
  <2>2. Seen' = { g \in Files : g \notin unseen' /\ Before(g) }
    BY <1>1 DEF Seen
  <2>3. Before(f)
    BY <1>3
  <2> HIDE DEF Before
  <2> QED
    BY <1>1, <2>1, <2>2, <2>3
<1>5. \/ dirs' = <<"data">> /\ \A g \in unseen' : tree'[g].under = "home"
      \/ dirs' = <<>>
  BY <1>2 DEF Types
<1> QED
  BY <1>1, <1>4, <1>5

\* A file of the scan: its book name leads to it from now on.
LEMMA ScanFileInv ==
    ASSUME StartupInv, NEW f \in Files, ScanFile(f)
    PROVE  StartupInv'
<1>1. /\ stage = "scan" /\ f \in unseen /\ unseen' = unseen \ {f}
      /\ tree' = tree /\ use_dict_list' = use_dict_list /\ ordering' = ordering
      /\ dirs' = dirs /\ names' = names
      /\ order_list' = order_list /\ disable_list' = disable_list
      /\ oLib' = oLib /\ order_cnt' = order_cnt
  BY DEF ScanFile, inputs
<1>2. Types /\ NamesKnown /\ ListOfOrder /\ ListOfDisabled /\ Phase
  BY <1>1 DEF StartupInv
<1>3. CASE stage' = "exit 10"
  BY <1>3 DEF StartupInv
<1>4. CASE stage' # "exit 10"
  <2>1. /\ stage' = stage
        /\ \/ Unreadable(f) /\ bookname_to_ifo' = bookname_to_ifo
           \/ /\ ~Unreadable(f) /\ Named(f)
              /\ bookname_to_ifo' =
                     [name \in DOMAIN bookname_to_ifo \cup {tree[f].book} |->
                          IF name = tree[f].book THEN f ELSE bookname_to_ifo[name]]
    BY <1>4 DEF ScanFile
  <2>2. /\ Files' = Files /\ Seen' = Seen \cup {f} /\ unseen' \subseteq Files
        /\ \/ dirs' = <<"data">> /\ \A g \in unseen' : tree'[g].under = "home"
           \/ dirs' = <<>>
    BY <1>1, <1>2, SeeOne
  <2>3. Types'
    BY <1>1, <1>2, <2>2 DEF Types
  <2>4. Scanned = Seen /\ Scanned' = Seen \cup {f}
    BY <1>1, <2>1, <2>2 DEF Scanned
  <2>5. \A g : (Unreadable(g)' <=> Unreadable(g)) /\ (Named(g)' <=> Named(g))
    BY <1>1 DEF Unreadable, Named
  <2>6. NamesKnown'
    <3>1. \A g \in Seen : ~Unreadable(g) => Named(g) /\ tree[g].book \in DOMAIN bookname_to_ifo
      BY <1>2, <2>4 DEF NamesKnown, Known
    <3>2. \A name \in DOMAIN bookname_to_ifo :
             \E g \in Seen : /\ ~Unreadable(g) /\ Named(g) /\ tree[g].book = name
                             /\ bookname_to_ifo[name] = g
      BY <1>1, <1>2, <2>4 DEF NamesKnown
    <3>3. CASE Unreadable(f) /\ bookname_to_ifo' = bookname_to_ifo
      BY <1>1, <2>1, <2>4, <2>5, <3>1, <3>2, <3>3 DEF NamesKnown, Known
    <3>4. CASE ~(Unreadable(f) /\ bookname_to_ifo' = bookname_to_ifo)
      <4>1. /\ ~Unreadable(f) /\ Named(f)
            /\ DOMAIN bookname_to_ifo' = DOMAIN bookname_to_ifo \cup {tree[f].book}
            /\ bookname_to_ifo'[tree[f].book] = f
            /\ \A name \in DOMAIN bookname_to_ifo :
                  name # tree[f].book => bookname_to_ifo'[name] = bookname_to_ifo[name]
        BY <2>1, <3>4
      <4>2. \A g \in Scanned' :
               ~Unreadable(g) => Named(g) /\ tree[g].book \in DOMAIN bookname_to_ifo'
        BY <2>4, <3>1, <4>1
      <4>3. ASSUME NEW name \in DOMAIN bookname_to_ifo'
            PROVE  \E g \in Scanned' : /\ ~Unreadable(g) /\ Named(g) /\ tree[g].book = name
                                       /\ bookname_to_ifo'[name] = g
        <5>1. CASE name = tree[f].book
          BY <2>4, <4>1, <5>1
        <5>2. CASE name # tree[f].book
          <6>1. name \in DOMAIN bookname_to_ifo /\ bookname_to_ifo'[name] = bookname_to_ifo[name]
            BY <4>1, <4>3, <5>2
          <6> QED
            BY <2>4, <3>2, <6>1
        <5> QED
          BY <5>1, <5>2
      <4> QED
        BY <1>1, <2>1, <2>5, <4>2, <4>3 DEF NamesKnown, Known
    <3> QED
      BY <3>3, <3>4
  <2>7. order_list = <<>> /\ disable_list = {} /\ oLib = <<>> /\ order_cnt = 0
    BY <1>1, <1>2 DEF Phase
  <2>8. ListOfOrder'
    <3>1. Used = 0 /\ Used' = 0 /\ Given' = Given
      BY <1>1, <2>1 DEF Used, Given
    <3>2. Drawn(Books(order_list), Len(order_list), Given, Used)'
      BY <1>1, <2>7 DEF Drawn
    <3>3. ToSet(order_list') = {} /\ 1 .. Used' = {}
      BY <1>1, <2>7, <3>1 DEF ToSet
    <3> QED
      BY <1>2, <3>1, <3>2, <3>3 DEF ListOfOrder
  <2>9. ListOfDisabled'
    BY <1>1, <2>7 DEF ListOfDisabled
  <2>10. Phase'
    BY <1>1, <2>1, <2>7 DEF Phase
  <2> QED
    BY <1>1, <2>1, <2>3, <2>6, <2>8, <2>9, <2>10 DEF StartupInv
<1> QED
  BY <1>3, <1>4

\* The scan is over: the list that was given is gone through, if there is one.
LEMMA ScanDoneInv ==
    ASSUME StartupInv, ScanDone
    PROVE  StartupInv'
<1>1. /\ stage = "scan" /\ unseen = {} /\ dirs = <<>>
      /\ tree' = tree /\ use_dict_list' = use_dict_list /\ ordering' = ordering
      /\ dirs' = dirs /\ unseen' = unseen /\ bookname_to_ifo' = bookname_to_ifo
      /\ order_list' = order_list /\ disable_list' = disable_list
      /\ oLib' = oLib /\ order_cnt' = order_cnt
      /\ names' = Given
      /\ \/ use_dict_list # NoFile /\ stage' = "use"
         \/ use_dict_list = NoFile /\ ordering # NoFile /\ stage' = "order"
         \/ use_dict_list = NoFile /\ ordering = NoFile /\ stage' = "paths" /\ Given = <<>>
  BY DEF ScanDone, inputs, Given
<1>2. Types /\ NamesKnown /\ ListOfOrder /\ ListOfDisabled /\ Phase
  BY <1>1 DEF StartupInv
<1>3. order_list = <<>> /\ disable_list = {} /\ oLib = <<>> /\ order_cnt = 0
  BY <1>1, <1>2 DEF Phase
<1>4. Types'
  BY <1>1, <1>2 DEF Types, Files
<1>5. Scanned = Files /\ Scanned' = Files /\ Files' = Files
  <2>1. DOMAIN dirs = {}
    BY <1>1
  <2> QED
    BY <1>1, <2>1 DEF Scanned, Seen, Files
<1>6. NamesKnown'
  <2>1. stage' \in {"use", "order", "paths"}
    BY <1>1
  <2> QED
    BY <1>1, <1>2, <1>5, <2>1 DEF NamesKnown, Unreadable, Named, Known
<1>7. Given \in Seq(Range(Given)) /\ Len(Given) \in Nat
  <2>1. CASE Given = <<>>
    BY <2>1
  <2>2. CASE use_dict_list # NoFile
    BY <1>2, <2>2, ListsAssumption DEF Given, Types
  <2>3. CASE use_dict_list = NoFile /\ ordering # NoFile
    BY <1>2, <2>3, ListsAssumption DEF Given, Types
  <2> QED
    BY <2>1, <2>2, <2>3 DEF Given
<1>8. Given' = Given
  BY <1>1 DEF Given
<1>9. Used' = 0
  <2>1. CASE stage' \in {"use", "order"}
    BY <1>1, <1>7, <1>8, <2>1 DEF Used
  <2>2. CASE stage' \notin {"use", "order"}
    BY <1>1, <1>8, <2>2 DEF Used
  <2> QED
    BY <2>1, <2>2
<1>10. ListOfOrder'
  <2>1. Drawn(Books(order_list), Len(order_list), Given, Used)'
    BY <1>1, <1>3 DEF Drawn
  <2>2. ToSet(order_list') = {} /\ 1 .. Used' = {}
    BY <1>1, <1>3, <1>9 DEF ToSet
  <2> QED
    BY <1>7, <1>8, <1>9, <2>1, <2>2 DEF ListOfOrder
<1>11. ListOfDisabled'
  BY <1>1, <1>3 DEF ListOfDisabled
<1>12. Phase'
  <2>1. Rest(Given, Given)
    BY <1>7 DEF Rest
  <2> QED
    BY <1>1, <1>3, <1>7, <1>8, <2>1 DEF Phase
<1> QED
  BY <1>1, <1>4, <1>6, <1>10, <1>11, <1>12 DEF StartupInv
-----------------------------------------------------------------------------
(* The order. *)

\* The elements of a list with one more.
LEMMA OneMore ==
    ASSUME NEW X, NEW s \in Seq(X), NEW f \in X
    PROVE  /\ Append(s, f) \in Seq(X) /\ Len(Append(s, f)) = Len(s) + 1 /\ Len(s) \in Nat
           /\ ToSet(Append(s, f)) = ToSet(s) \cup {f}
           /\ DOMAIN Append(s, f) = 1 .. Len(s) + 1 /\ DOMAIN s = 1 .. Len(s)
           /\ \A k \in 1 .. Len(s) : Append(s, f)[k] = s[k]
           /\ Append(s, f)[Len(s) + 1] = f
<1>1. /\ Append(s, f) \in Seq(X) /\ Len(Append(s, f)) = Len(s) + 1 /\ Len(s) \in Nat
      /\ DOMAIN Append(s, f) = 1 .. Len(s) + 1 /\ DOMAIN s = 1 .. Len(s)
      /\ \A k \in 1 .. Len(s) : Append(s, f)[k] = s[k]
      /\ Append(s, f)[Len(s) + 1] = f
  OBVIOUS
<1>2. ToSet(Append(s, f)) = ToSet(s) \cup {f}
  <2> DEFINE r == Append(s, f)
             n == Len(s)
  <2>1. DOMAIN r = 1 .. n + 1 /\ DOMAIN s = 1 .. n /\ n \in Nat /\ r[n + 1] = f
        /\ \A k \in 1 .. n : r[k] = s[k]
    BY <1>1
  <2> HIDE DEF r, n
  <2>2. \A k \in 1 .. n + 1 : k \in 1 .. n \/ k = n + 1
    BY <2>1
  <2>3. 1 .. n \subseteq 1 .. n + 1 /\ n + 1 \in 1 .. n + 1
    BY <2>1
  <2>4. ToSet(r) = ToSet(s) \cup {f}
    BY <2>1, <2>2, <2>3 DEF ToSet
  <2> QED
    BY <2>4 DEF r
<1> QED
  BY <1>1, <1>2

\* What is known of a name leads to a file of that name, before the directories
\* are put in.
LEMMA KnownFile ==
    ASSUME NamesKnown, stage \in {"use", "order", "paths"}, NEW name, Known(name)
    PROVE  LET f == bookname_to_ifo[name]
           IN  f \in Files /\ ~Unreadable(f) /\ Named(f) /\ tree[f].book = name
<1>1. PICK f \in Scanned : /\ ~Unreadable(f) /\ Named(f) /\ tree[f].book = name
                           /\ bookname_to_ifo[name] = f
  BY DEF NamesKnown, Known
<1>2. Scanned = Files
  BY DEF Scanned
<1> QED
  BY <1>1, <1>2

\* A name of the list is looked up.
LEMMA NextNameInv ==
    ASSUME StartupInv, stage \in {"use", "order"}, stage' = stage,
           names # <<>>, names' = Tail(names),
           \/ /\ Known(Head(names))
              /\ order_list' = Append(order_list, bookname_to_ifo[Head(names)])
           \/ ~Known(Head(names)) /\ order_list' = order_list,
           disable_list' = disable_list, UnchangedNames
    PROVE  StartupInv'
<1>1. /\ tree' = tree /\ use_dict_list' = use_dict_list /\ ordering' = ordering
      /\ dirs' = dirs /\ unseen' = unseen /\ bookname_to_ifo' = bookname_to_ifo
      /\ disable_list' = disable_list /\ oLib' = oLib /\ order_cnt' = order_cnt
      /\ stage' = stage /\ stage \in {"use", "order"}
  BY DEF UnchangedNames, inputs
<1>2. Types /\ NamesKnown /\ ListOfOrder /\ ListOfDisabled /\ Phase
  BY <1>1 DEF StartupInv
<1> DEFINE n == Len(Given) - Len(names)
           name == Head(names)
<1>3. /\ Files' = Files /\ Given' = Given /\ Scanned = Files /\ Scanned' = Files
      /\ \A f : (Unreadable(f)' <=> Unreadable(f)) /\ (Named(f)' <=> Named(f))
      /\ \A x : Known(x)' <=> Known(x)
  BY <1>1 DEF Files, Given, Scanned, Unreadable, Named, Known
<1>4. Used = n /\ n \in Nat /\ n < Len(Given) /\ Used' = n + 1 /\ name = Given[n + 1]
      /\ Tail(names) \in Seq(Range(Given)) /\ Rest(Tail(names), Given)
  <2>1. names \in Seq(Range(Given)) /\ Rest(names, Given)
    BY <1>1, <1>2 DEF Phase
  <2>2. Used = n /\ Used \in 0 .. Len(Given)
    BY <1>1, <1>2 DEF Used, ListOfOrder
  <2>3. Len(names) \in Nat
    BY <2>1
  <2>4. Len(Given) \in Nat
    <3>1. CASE use_dict_list # NoFile
      BY <1>2, <3>1, ListsAssumption DEF Given, Types
    <3>2. CASE ordering # NoFile /\ use_dict_list = NoFile
      BY <1>2, <3>2, ListsAssumption DEF Given, Types
    <3> QED
      BY <1>1, <1>2, <3>1, <3>2 DEF Phase
  <2>5. /\ Tail(names) \in Seq(Range(Given)) /\ Rest(Tail(names), Given)
        /\ Len(Tail(names)) = Len(names) - 1 /\ Len(names) \in 1 .. Len(Given)
        /\ name = Given[(Len(Given) - Len(names)) + 1]
    BY <2>1, <2>4, RestTail
  <2>6. Used' = Len(Given) - Len(names')
    BY <1>1, <1>3 DEF Used
  <2> QED
    BY <2>2, <2>3, <2>4, <2>5, <2>6
<1> HIDE DEF n, name
<1>5. order_list \in Seq(Files) /\ Len(order_list) \in Nat /\ DOMAIN order_list = 1 .. Len(order_list)
  BY <1>2 DEF Types
<1>6. NamesKnown'
  BY <1>1, <1>2, <1>3 DEF NamesKnown
<1>7. ListOfDisabled'
  BY <1>1, <1>2 DEF ListOfDisabled
<1>8. Phase'
  BY <1>1, <1>2, <1>3, <1>4 DEF Phase
<1>9. /\ \A g \in ToSet(order_list) : /\ ~Unreadable(g) /\ Named(g)
                                      /\ bookname_to_ifo[tree[g].book] = g
      /\ Drawn(Books(order_list), Len(order_list), Given, n)
      /\ \A a \in 1 .. n : Known(Given[a]) => \E g \in ToSet(order_list) : tree[g].book = Given[a]
  BY <1>1, <1>2, <1>4 DEF ListOfOrder
<1>10. \A a \in 1 .. n + 1 : a \in 1 .. n \/ a = n + 1
  BY <1>4
<1>11. Used' \in 0 .. Len(Given)'
  <2>1. Used \in 0 .. Len(Given)
    BY <1>2 DEF ListOfOrder
  <2> QED
    BY <1>3, <1>4, <2>1
<1>12. CASE Known(name)
  <2> DEFINE f == bookname_to_ifo[name]
  <2>1. f \in Files /\ ~Unreadable(f) /\ Named(f) /\ tree[f].book = name
    BY <1>1, <1>2, <1>12, KnownFile
  <2>2. order_list' = Append(order_list, f)
    BY <1>12 DEF name
  <2>3. bookname_to_ifo[tree[f].book] = f
    BY <2>1
  <2> HIDE DEF f
  <2>4. /\ order_list' \in Seq(Files) /\ Len(order_list') = Len(order_list) + 1
        /\ ToSet(order_list') = ToSet(order_list) \cup {f}
        /\ DOMAIN order_list' = 1 .. Len(order_list) + 1
        /\ \A k \in 1 .. Len(order_list) : order_list'[k] = order_list[k]
        /\ order_list'[Len(order_list) + 1] = f
    <3> DEFINE r == Append(order_list, f)
    <3>1. /\ r \in Seq(Files) /\ Len(r) = Len(order_list) + 1
          /\ ToSet(r) = ToSet(order_list) \cup {f} /\ DOMAIN r = 1 .. Len(order_list) + 1
          /\ \A k \in 1 .. Len(order_list) : r[k] = order_list[k]
          /\ r[Len(order_list) + 1] = f
      <4>1. order_list \in Seq(Files) /\ f \in Files
        BY <1>5, <2>1
      <4> QED
        BY ONLY <4>1, OneMore
    <3>2. order_list' = r
      BY <2>2
    <3> HIDE DEF r
    <3> QED
      BY ONLY <3>1, <3>2
  <2>5. Types'
    BY <1>1, <1>2, <1>3, <2>4 DEF Types
  <2>6. Drawn(Books(order_list'), Len(order_list) + 1, Given, n + 1)
    <3>1. \A k \in 1 .. Len(order_list) : Books(order_list')[k] = Books(order_list)[k]
      BY <1>5, <2>4 DEF Books
    <3>2. Books(order_list')[Len(order_list) + 1] = Given[n + 1]
      BY <1>4, <1>5, <2>1, <2>4 DEF Books
    <3> QED
      BY <1>4, <1>5, <1>9, <3>1, <3>2, DrawNext
  <2>7. Books(order_list)' = Books(order_list')
    BY <1>1 DEF Books
  <2>8. \A g \in ToSet(order_list') : /\ ~Unreadable(g) /\ Named(g)
                                      /\ bookname_to_ifo[tree[g].book] = g
    BY <1>9, <2>1, <2>3, <2>4
  <2>9. \A a \in 1 .. n + 1 : Known(Given[a]) => \E g \in ToSet(order_list') : tree[g].book = Given[a]
    BY <1>4, <1>9, <1>10, <2>1, <2>4
  <2>10. ListOfOrder'
    BY <1>1, <1>3, <1>4, <1>11, <2>4, <2>6, <2>7, <2>8, <2>9 DEF ListOfOrder
  <2> QED
    BY <1>1, <1>6, <1>7, <1>8, <2>5, <2>10 DEF StartupInv
<1>13. CASE ~Known(name)
  <2>1. order_list' = order_list
    BY <1>13 DEF name
  <2>2. Types'
    BY <1>1, <1>2, <1>3, <2>1 DEF Types
  <2>3. Drawn(Books(order_list), Len(order_list), Given, n + 1)
    BY <1>4, <1>5, <1>9, DrawNone
  <2>4. \A a \in 1 .. n + 1 : Known(Given[a]) => \E g \in ToSet(order_list) : tree[g].book = Given[a]
    BY <1>4, <1>9, <1>10, <1>13
  <2>5. Books(order_list)' = Books(order_list)
    BY <1>1, <2>1 DEF Books
  <2>6. ListOfOrder'
    BY <1>1, <1>3, <1>4, <1>9, <1>11, <2>1, <2>3, <2>4, <2>5 DEF ListOfOrder
  <2> QED
    BY <1>1, <1>6, <1>7, <1>8, <2>2, <2>6 DEF StartupInv
<1> QED
  BY <1>12, <1>13

\* A name after -u.
LEMMA UseNameInv ==
    ASSUME StartupInv, UseName
    PROVE  StartupInv'
BY NextNameInv DEF UseName

\* A name of the ordering file, which ends the program when it is no book's.
LEMMA OrderNameInv ==
    ASSUME StartupInv, OrderName
    PROVE  StartupInv'
<1>1. CASE stage' = "exit 10"
  BY <1>1 DEF StartupInv
<1>2. CASE stage' # "exit 10"
  <2>1. /\ stage = "order" /\ stage' = stage /\ names # <<>> /\ names' = Tail(names)
        /\ Known(Head(names))
        /\ order_list' = Append(order_list, bookname_to_ifo[Head(names)])
        /\ disable_list' = disable_list /\ UnchangedNames
    BY <1>2 DEF OrderName
  <2> QED
    BY <2>1, NextNameInv
<1> QED
  BY <1>1, <1>2

\* The names of a list are through.
LEMMA AllUsed ==
    ASSUME StartupInv, stage \in {"use", "order"}, names = <<>>
    PROVE  Used = Len(Given) /\ Len(Given) \in Nat
<1>1. Len(names) = 0
  OBVIOUS
<1>2. Used \in 0 .. Len(Given) /\ Used = Len(Given) - Len(names)
  BY DEF StartupInv, ListOfOrder, Used
<1>3. Types /\ Phase
  BY DEF StartupInv
<1>4. Len(Given) \in Nat
  <2>1. CASE use_dict_list # NoFile
    BY <1>3, <2>1, ListsAssumption DEF Given, Types
  <2>2. CASE ordering # NoFile /\ use_dict_list = NoFile
    BY <1>3, <2>2, ListsAssumption DEF Given, Types
  <2> QED
    BY <1>3, <2>1, <2>2 DEF Phase
<1> QED
  BY <1>1, <1>2, <1>4

\* The names after -u are through: the other files are not to be loaded.
LEMMA UseDoneInv ==
    ASSUME StartupInv, UseDone
    PROVE  StartupInv'
<1>1. /\ tree' = tree /\ use_dict_list' = use_dict_list /\ ordering' = ordering
      /\ dirs' = dirs /\ unseen' = unseen /\ bookname_to_ifo' = bookname_to_ifo
      /\ order_list' = order_list /\ oLib' = oLib /\ order_cnt' = order_cnt
      /\ stage = "use" /\ stage' = "paths" /\ names = <<>>
      /\ disable_list' = Range(bookname_to_ifo) \ ToSet(order_list)
  BY DEF UseDone, UnchangedNames, inputs
<1>2. Types /\ NamesKnown /\ ListOfOrder /\ ListOfDisabled /\ Phase
  BY <1>1 DEF StartupInv
<1>3. Used = Len(Given) /\ Used' = Len(Given) /\ Given' = Given
  BY <1>1, AllUsed DEF Used, Given
<1>4. Scanned = Files /\ Scanned' = Files /\ Files' = Files
  BY <1>1 DEF Scanned, Files
<1>5. use_dict_list # NoFile /\ Given = use_dict_list
  BY <1>1, <1>2 DEF Phase, Given
<1>6. ASSUME NEW f \in disable_list'
      PROVE  f \in Files /\ tree[f].book \notin ToSet(use_dict_list)
  <2>1. PICK name \in DOMAIN bookname_to_ifo : f = bookname_to_ifo[name]
    BY <1>1 DEF Range
  <2>2. f \in Files /\ tree[f].book = name
    BY <1>1, <1>2, <2>1, KnownFile DEF Known
  <2>3. ASSUME name \in ToSet(use_dict_list) PROVE FALSE
    <3>1. PICK a \in DOMAIN Given : Given[a] = name
      BY <1>5, <2>3 DEF ToSet
    <3>2. DOMAIN Given = 1 .. Len(Given)
      BY <1>2, <1>5, ListsAssumption DEF Types
    <3>3. PICK g \in ToSet(order_list) : tree[g].book = name
      BY <1>2, <1>3, <2>1, <3>1, <3>2 DEF ListOfOrder, Known
    <3>4. g = f
      BY <1>1, <1>2, <2>1, <3>3 DEF ListOfOrder
    <3> QED
      BY <1>1, <3>3, <3>4
  <2> QED
    BY <2>2, <2>3
<1>7. Types'
  BY <1>1, <1>2, <1>4, <1>6 DEF Types
<1>8. NamesKnown'
  BY <1>1, <1>2, <1>4 DEF NamesKnown, Unreadable, Named, Known
<1>9. ListOfOrder'
  <2>1. Books(order_list)' = Books(order_list)
    BY <1>1 DEF Books
  <2> QED
    BY <1>1, <1>2, <1>3, <2>1 DEF ListOfOrder, Unreadable, Named, Known
<1>10. ListOfDisabled'
  BY <1>1, <1>5, <1>6 DEF ListOfDisabled
<1>11. Phase'
  BY <1>1, <1>2, <1>5 DEF Phase
<1> QED
  BY <1>1, <1>7, <1>8, <1>9, <1>10, <1>11 DEF StartupInv

\* The names of the ordering file are through.
LEMMA OrderDoneInv ==
    ASSUME StartupInv, OrderDone
    PROVE  StartupInv'
<1>1. /\ tree' = tree /\ use_dict_list' = use_dict_list /\ ordering' = ordering
      /\ dirs' = dirs /\ unseen' = unseen /\ bookname_to_ifo' = bookname_to_ifo
      /\ order_list' = order_list /\ oLib' = oLib /\ order_cnt' = order_cnt
      /\ disable_list' = disable_list
      /\ stage = "order" /\ stage' = "paths" /\ names = <<>>
  BY DEF OrderDone, UnchangedNames, inputs
<1>2. Types /\ NamesKnown /\ ListOfOrder /\ ListOfDisabled /\ Phase
  BY <1>1 DEF StartupInv
<1>3. Used = Len(Given) /\ Used' = Len(Given) /\ Given' = Given
  BY <1>1, AllUsed DEF Used, Given
<1>4. Scanned = Files /\ Scanned' = Files /\ Files' = Files
  BY <1>1 DEF Scanned, Files
<1>5. Types'
  BY <1>1, <1>2, <1>4 DEF Types
<1>6. NamesKnown'
  BY <1>1, <1>2, <1>4 DEF NamesKnown, Unreadable, Named, Known
<1>7. ListOfOrder'
  <2>1. Books(order_list)' = Books(order_list)
    BY <1>1 DEF Books
  <2> QED
    BY <1>1, <1>2, <1>3, <2>1 DEF ListOfOrder, Unreadable, Named, Known
<1>8. ListOfDisabled'
  BY <1>1, <1>2 DEF ListOfDisabled
<1>9. Phase'
  BY <1>1, <1>2 DEF Phase
<1> QED
  BY <1>1, <1>5, <1>6, <1>7, <1>8, <1>9 DEF StartupInv

\* The directories take the places of the files.
LEMMA PathsInv ==
    ASSUME StartupInv, Paths
    PROVE  StartupInv'
<1>1. /\ tree' = tree /\ use_dict_list' = use_dict_list /\ ordering' = ordering
      /\ dirs' = dirs /\ unseen' = unseen
      /\ bookname_to_ifo' =
             [name \in DOMAIN bookname_to_ifo |-> tree[bookname_to_ifo[name]].directory]
      /\ order_list' = order_list /\ oLib' = oLib /\ order_cnt' = order_cnt
      /\ disable_list' = disable_list
      /\ stage = "paths" /\ stage' = "ordered" /\ names' = order_list
  BY DEF Paths, inputs
<1>2. Types /\ NamesKnown /\ ListOfOrder /\ ListOfDisabled /\ Phase
  BY <1>1 DEF StartupInv
<1>3. Used' = Used /\ Given' = Given
  BY <1>1 DEF Used, Given
<1>4. Scanned = Files /\ Scanned' = Files /\ Files' = Files
  BY <1>1 DEF Scanned, Files
<1>5. /\ DOMAIN bookname_to_ifo' = DOMAIN bookname_to_ifo
      /\ \A name \in DOMAIN bookname_to_ifo :
            bookname_to_ifo'[name] = tree[bookname_to_ifo[name]].directory
  BY <1>1
<1>6. Types'
  BY <1>1, <1>2, <1>4 DEF Types
<1>7. NamesKnown'
  <2>1. \A f \in Files : ~Unreadable(f) => Named(f) /\ tree[f].book \in DOMAIN bookname_to_ifo
    BY <1>2, <1>4 DEF NamesKnown, Known
  <2>2. ASSUME NEW name \in DOMAIN bookname_to_ifo
        PROVE  \E f \in Files : /\ ~Unreadable(f) /\ Named(f) /\ tree[f].book = name
                                /\ bookname_to_ifo'[name] = tree[f].directory
    <3>1. PICK f \in Files : /\ ~Unreadable(f) /\ Named(f) /\ tree[f].book = name
                             /\ bookname_to_ifo[name] = f
      BY <1>1, <1>2, <1>4 DEF NamesKnown
    <3> QED
      BY <1>5, <3>1
  <2>3. \A f : (Unreadable(f)' <=> Unreadable(f)) /\ (Named(f)' <=> Named(f))
    BY <1>1 DEF Unreadable, Named
  <2> QED
    BY <1>1, <1>4, <1>5, <2>1, <2>2, <2>3 DEF NamesKnown, Known
<1>8. ListOfOrder'
  <2>1. Books(order_list)' = Books(order_list)
    BY <1>1 DEF Books
  <2>2. \A x : Known(x)' <=> Known(x)
    BY <1>5 DEF Known
  <2> QED
    BY <1>1, <1>2, <1>3, <2>1, <2>2 DEF ListOfOrder, Unreadable, Named
<1>9. ListOfDisabled'
  BY <1>1, <1>2 DEF ListOfDisabled
<1>10. Phase'
  <2>1. oLib = <<>> /\ order_cnt = 0 /\ unseen = {} /\ dirs = <<>>
    BY <1>1, <1>2 DEF Phase
  <2>2. order_list \in Seq(Files) /\ Len(order_list) \in Nat
    BY <1>2 DEF Types
  <2>3. Rest(order_list, order_list) /\ Len(order_list) - Len(order_list) = 0
    BY <2>2 DEF Rest
  <2>4. OrderedFirst(0)'
    <3>1. ToSet(oLib') = {} /\ order_cnt' = 0
      BY <1>1, <2>1 DEF ToSet
    <3>2. Drawn(oLib, order_cnt, order_list, 0)'
      BY <3>1 DEF Drawn
    <3> QED
      BY <3>1, <3>2 DEF OrderedFirst, Loaded
  <2> QED
    BY <1>1, <1>4, <2>1, <2>2, <2>3, <2>4 DEF Phase
<1> QED
  BY <1>1, <1>6, <1>7, <1>8, <1>9, <1>10 DEF StartupInv
-----------------------------------------------------------------------------
(* Loading. *)

\* What the lists say does not change while dictionaries are loaded.
LEMMA LoadKeepsLists ==
    ASSUME StartupInv, stage \in {"ordered", "walk", "ready"},
           stage' \in {"ordered", "walk", "ready"},
           UNCHANGED <<tree, use_dict_list, ordering, bookname_to_ifo, order_list, disable_list>>
    PROVE  NamesKnown' /\ ListOfOrder' /\ ListOfDisabled'
<1>1. /\ tree' = tree /\ use_dict_list' = use_dict_list /\ ordering' = ordering
      /\ bookname_to_ifo' = bookname_to_ifo
      /\ order_list' = order_list /\ disable_list' = disable_list
  OBVIOUS
<1>2. NamesKnown /\ ListOfOrder /\ ListOfDisabled
  BY DEF StartupInv
<1>3. Used' = Used /\ Given' = Given
  BY <1>1 DEF Used, Given
<1>4. Scanned = Files /\ Scanned' = Files /\ Files' = Files
  BY <1>1 DEF Scanned, Files
<1>5. NamesKnown'
  BY <1>1, <1>2, <1>4 DEF NamesKnown, Unreadable, Named, Known
<1>6. ListOfOrder'
  <2>1. Books(order_list)' = Books(order_list)
    BY <1>1 DEF Books
  <2> QED
    BY <1>1, <1>2, <1>3, <2>1 DEF ListOfOrder, Unreadable, Named, Known
<1>7. ListOfDisabled'
  BY <1>1, <1>2 DEF ListOfDisabled
<1> QED
  BY <1>5, <1>6, <1>7

\* A file of the order is loaded, or cannot be.
LEMMA LoadOrderedInv ==
    ASSUME StartupInv, LoadOrdered
    PROVE  StartupInv'
<1> DEFINE f == Head(names)
           n == Len(order_list) - Len(names)
<1>1. /\ tree' = tree /\ use_dict_list' = use_dict_list /\ ordering' = ordering
      /\ dirs' = dirs /\ unseen' = unseen /\ bookname_to_ifo' = bookname_to_ifo
      /\ order_list' = order_list /\ disable_list' = disable_list
      /\ stage = "ordered" /\ stage' = stage /\ names # <<>> /\ names' = Tail(names)
      /\ oLib' = IF Loads(f) THEN Append(oLib, f) ELSE oLib
      /\ order_cnt' = IF Loads(f) THEN order_cnt + 1 ELSE order_cnt
  BY DEF LoadOrdered, inputs, LoadDict
<1>2. Types /\ NamesKnown /\ ListOfOrder /\ ListOfDisabled /\ Phase
  BY <1>1 DEF StartupInv
<1>3. NamesKnown' /\ ListOfOrder' /\ ListOfDisabled'
  BY <1>1, LoadKeepsLists
<1>4. /\ order_list \in Seq(Files) /\ Len(order_list) \in Nat
      /\ oLib \in Seq(Files) /\ Len(oLib) \in Nat /\ Files' = Files
      /\ unseen = {} /\ dirs = <<>> /\ order_cnt = Len(oLib) /\ order_cnt \in Nat
      /\ names \in Seq(Files) /\ Rest(names, order_list) /\ OrderedFirst(n)
  BY <1>1, <1>2 DEF Types, Phase, Files
<1>5. /\ Tail(names) \in Seq(Files) /\ Rest(Tail(names), order_list)
      /\ f \in Files /\ f = order_list[n + 1] /\ n \in Nat
      /\ Len(order_list) - Len(names') = n + 1
  <2>1. /\ Tail(names) \in Seq(Files) /\ Rest(Tail(names), order_list)
        /\ Len(Tail(names)) = Len(names) - 1 /\ Len(names) \in 1 .. Len(order_list)
        /\ f \in Files /\ f = order_list[(Len(order_list) - Len(names)) + 1]
    BY <1>1, <1>4, RestTail
  <2> QED
    BY <1>1, <1>4, <2>1
<1> HIDE DEF f, n
<1>6. \A g : Loads(g)' <=> Loads(g)
  BY <1>1 DEF Loads, Good, Unreadable, Named
<1>7. /\ \A g \in ToSet(oLib) : Loads(g)
      /\ Drawn(oLib, order_cnt, order_list, n)
      /\ \A a \in 1 .. n : Loads(order_list[a]) => \E k \in 1 .. order_cnt : oLib[k] = order_list[a]
  BY <1>4 DEF OrderedFirst, Loaded
<1>8. \A a \in 1 .. n + 1 : a \in 1 .. n \/ a = n + 1
  BY <1>5
<1>9. CASE Loads(f)
  <2>1. /\ oLib' \in Seq(Files) /\ Len(oLib') = order_cnt + 1
        /\ ToSet(oLib') = ToSet(oLib) \cup {f}
        /\ \A k \in 1 .. order_cnt : oLib'[k] = oLib[k]
        /\ oLib'[order_cnt + 1] = f
    <3> DEFINE r == Append(oLib, f)
    <3>1. /\ r \in Seq(Files) /\ Len(r) = Len(oLib) + 1
          /\ ToSet(r) = ToSet(oLib) \cup {f}
          /\ \A k \in 1 .. Len(oLib) : r[k] = oLib[k]
          /\ r[Len(oLib) + 1] = f
      <4>1. oLib \in Seq(Files) /\ f \in Files
        BY <1>4, <1>5
      <4> QED
        BY ONLY <4>1, OneMore
    <3>2. oLib' = r
      BY <1>1, <1>9
    <3> HIDE DEF r
    <3> QED
      BY <1>4, <3>1, <3>2
  <2>2. order_cnt' = order_cnt + 1
    BY <1>1, <1>9
  <2>3. Types'
    BY <1>1, <1>2, <1>4, <2>1, <2>2 DEF Types
  <2>4. Drawn(oLib', order_cnt + 1, order_list, n + 1)
    BY <1>4, <1>5, <1>7, <2>1, DrawNext
  <2>5. ASSUME NEW a \in 1 .. n + 1, Loads(order_list[a])
        PROVE  \E k \in 1 .. order_cnt + 1 : oLib'[k] = order_list[a]
    <3>1. CASE a \in 1 .. n
      <4>1. PICK k \in 1 .. order_cnt : oLib[k] = order_list[a]
        BY <1>7, <2>5, <3>1
      <4>2. k \in 1 .. order_cnt + 1
        BY <1>4
      <4> QED
        BY <2>1, <4>1, <4>2
    <3>2. CASE a = n + 1
      <4>1. order_cnt + 1 \in 1 .. order_cnt + 1
        BY <1>4
      <4> QED
        BY <1>5, <2>1, <3>2, <4>1
    <3> QED
      BY <1>8, <3>1, <3>2
  <2>6. OrderedFirst(Len(order_list) - Len(names))'
    BY <1>1, <1>5, <1>6, <1>7, <1>9, <2>1, <2>2, <2>4, <2>5 DEF OrderedFirst, Loaded
  <2>7. Phase'
    BY <1>1, <1>4, <1>5, <2>1, <2>2, <2>6 DEF Phase
  <2> QED
    BY <1>1, <1>3, <2>3, <2>7 DEF StartupInv
<1>10. CASE ~Loads(f)
  <2>1. oLib' = oLib /\ order_cnt' = order_cnt
    BY <1>1, <1>10
  <2>2. Types'
    BY <1>1, <1>2, <1>4, <2>1 DEF Types
  <2>3. Drawn(oLib, order_cnt, order_list, n + 1)
    BY <1>4, <1>5, <1>7, DrawNone
  <2>4. \A a \in 1 .. n + 1 : Loads(order_list[a]) => \E k \in 1 .. order_cnt : oLib[k] = order_list[a]
    BY <1>5, <1>7, <1>8, <1>10
  <2>5. OrderedFirst(Len(order_list) - Len(names))'
    BY <1>1, <1>5, <1>6, <1>7, <2>1, <2>3, <2>4 DEF OrderedFirst, Loaded
  <2>6. Phase'
    BY <1>1, <1>4, <1>5, <2>1, <2>5 DEF Phase
  <2> QED
    BY <1>1, <1>3, <2>2, <2>6 DEF StartupInv
<1> QED
  BY <1>9, <1>10

\* The order is through: the directories are gone over again, and nothing is seen.
LEMMA StartWalkInv ==
    ASSUME StartupInv, StartWalk
    PROVE  StartupInv'
<1>1. /\ tree' = tree /\ use_dict_list' = use_dict_list /\ ordering' = ordering
      /\ unseen' = unseen /\ names' = names /\ bookname_to_ifo' = bookname_to_ifo
      /\ order_list' = order_list /\ disable_list' = disable_list
      /\ oLib' = oLib /\ order_cnt' = order_cnt
      /\ stage = "ordered" /\ stage' = "walk" /\ names = <<>> /\ dirs' = <<"home", "data">>
  BY DEF StartWalk, inputs, lists, SearchDirs
<1>2. Types /\ Phase
  BY <1>1 DEF StartupInv
<1>3. NamesKnown' /\ ListOfOrder' /\ ListOfDisabled'
  BY <1>1, LoadKeepsLists
<1>4. /\ order_list \in Seq(Files) /\ Len(order_list) \in Nat /\ Len(names) = 0
      /\ oLib \in Seq(Files) /\ Len(oLib) \in Nat /\ Files' = Files
      /\ unseen = {} /\ order_cnt = Len(oLib) /\ OrderedFirst(Len(order_list) - Len(names))
  BY <1>1, <1>2 DEF Types, Phase, Files
<1>5. Types'
  BY <1>1, <1>2, <1>4 DEF Types
<1>6. Seen' = {}
  <2>1. \A f \in Files : tree[f].under = "home" \/ tree[f].under = "data"
    BY <1>2, TreesAssumption DEF Types, Files
  <2>2. DOMAIN dirs' = 1 .. 2 /\ dirs'[1] = "home" /\ dirs'[2] = "data"
    BY <1>1
  <2> QED
    BY <1>1, <1>4, <2>1, <2>2 DEF Seen
<1>7. OrderedFirst(Len(order_list))'
  <2>1. Len(order_list) - Len(names) = Len(order_list)
    BY <1>4
  <2> QED
    BY <1>1, <1>4, <2>1 DEF OrderedFirst, Loaded, Loads, Good, Unreadable, Named
<1>8. OthersBehind'
  <2>1. (order_cnt + 1 .. Len(oLib))' = {}
    BY <1>1, <1>4
  <2> QED
    BY <1>6, <2>1 DEF OthersBehind
<1>9. Phase'
  BY <1>1, <1>7, <1>8 DEF Phase
<1> QED
  BY <1>1, <1>3, <1>5, <1>9 DEF StartupInv

\* A file of the walk is loaded unless a list has it, or it cannot be.
LEMMA WalkFileInv ==
    ASSUME StartupInv, NEW f \in Files, WalkFile(f)
    PROVE  StartupInv'
<1>1. /\ tree' = tree /\ use_dict_list' = use_dict_list /\ ordering' = ordering
      /\ dirs' = dirs /\ names' = names /\ bookname_to_ifo' = bookname_to_ifo
      /\ order_list' = order_list /\ disable_list' = disable_list
      /\ order_cnt' = order_cnt
      /\ stage = "walk" /\ stage' = stage /\ f \in unseen /\ unseen' = unseen \ {f}
      /\ oLib' = IF Wanted(f) /\ Loads(f) THEN Append(oLib, f) ELSE oLib
  BY DEF WalkFile, inputs, lists, LoadDict
<1>2. Types /\ Phase
  BY <1>1 DEF StartupInv
<1>3. NamesKnown' /\ ListOfOrder' /\ ListOfDisabled'
  BY <1>1, LoadKeepsLists
<1> DEFINE n == Len(order_list)
           L == Len(oLib)
<1>4. /\ Files' = Files /\ Seen' = Seen \cup {f} /\ f \notin Seen /\ unseen' \subseteq Files
      /\ \/ dirs' = <<"data">> /\ \A g \in unseen' : tree'[g].under = "home"
         \/ dirs' = <<>>
  BY <1>1, <1>2, SeeOne
<1>5. /\ oLib \in Seq(Files) /\ L \in Nat /\ order_cnt \in 0 .. L
      /\ OrderedFirst(n) /\ OthersBehind
  BY <1>1, <1>2 DEF Types, Phase
<1>6. /\ \A g : (Loads(g)' <=> Loads(g)) /\ (Wanted(g)' <=> Wanted(g))
      /\ \A g : Wanted(g) <=> g \notin ToSet(order_list) /\ g \notin disable_list
  BY <1>1 DEF Loads, Good, Unreadable, Named, Wanted
<1>7. /\ \A g \in ToSet(oLib) : Loads(g)
      /\ Drawn(oLib, order_cnt, order_list, n)
      /\ \A a \in 1 .. n : Loads(order_list[a]) => \E k \in 1 .. order_cnt : oLib[k] = order_list[a]
  BY <1>5 DEF OrderedFirst, Loaded
<1>8. /\ \A k \in order_cnt + 1 .. L : oLib[k] \in Seen /\ Wanted(oLib[k])
      /\ \A j, k \in order_cnt + 1 .. L : oLib[j] = oLib[k] => j = k
      /\ \A g \in Seen : Loads(g) /\ Wanted(g) => \E k \in order_cnt + 1 .. L : oLib[k] = g
  BY <1>5 DEF OthersBehind
<1> HIDE DEF n, L
<1>9. CASE Wanted(f) /\ Loads(f)
  <2>1. /\ oLib' \in Seq(Files) /\ Len(oLib') = L + 1
        /\ ToSet(oLib') = ToSet(oLib) \cup {f}
        /\ \A k \in 1 .. L : oLib'[k] = oLib[k]
        /\ oLib'[L + 1] = f
    <3> DEFINE r == Append(oLib, f)
    <3>1. /\ r \in Seq(Files) /\ Len(r) = L + 1
          /\ ToSet(r) = ToSet(oLib) \cup {f}
          /\ \A k \in 1 .. L : r[k] = oLib[k]
          /\ r[L + 1] = f
      <4>1. oLib \in Seq(Files) /\ f \in Files
        BY <1>5
      <4> QED
        BY ONLY <4>1, OneMore DEF L
    <3>2. oLib' = r
      BY <1>1, <1>9
    <3> HIDE DEF r
    <3> QED
      BY <3>1, <3>2
  <2>2. Types'
    BY <1>1, <1>2, <1>4, <1>5, <2>1 DEF Types
  <2>3. \A k \in 1 .. order_cnt : oLib'[k] = oLib[k]
    BY <1>5, <2>1
  <2>4. OrderedFirst(Len(order_list))'
    <3>1. Drawn(oLib', order_cnt, order_list, n)
      BY <1>7, <2>3 DEF Drawn
    <3>2. \A a \in 1 .. n : Loads(order_list[a]) => \E k \in 1 .. order_cnt : oLib'[k] = order_list[a]
      BY <1>7, <2>3
    <3>3. \A g \in ToSet(oLib') : Loads(g)
      BY <1>7, <1>9, <2>1
    <3> QED
      BY <1>1, <1>6, <3>1, <3>2, <3>3 DEF OrderedFirst, Loaded, n
  <2>5. /\ \A k \in order_cnt + 1 .. L + 1 : k \in order_cnt + 1 .. L \/ k = L + 1
        /\ \A k \in order_cnt + 1 .. L : oLib'[k] = oLib[k] /\ k \in order_cnt + 1 .. L + 1
        /\ L + 1 \in order_cnt + 1 .. L + 1
    BY <1>5, <2>1
  <2>6. ASSUME NEW k \in order_cnt + 1 .. L + 1
        PROVE  oLib'[k] \in Seen \cup {f} /\ Wanted(oLib'[k])
    BY <1>8, <1>9, <2>1, <2>5
  <2>7. ASSUME NEW j \in order_cnt + 1 .. L + 1, NEW k \in order_cnt + 1 .. L + 1,
               oLib'[j] = oLib'[k]
        PROVE  j = k
    <3>1. CASE j \in order_cnt + 1 .. L /\ k \in order_cnt + 1 .. L
      BY <1>8, <2>5, <2>7, <3>1
    <3>2. CASE j \in order_cnt + 1 .. L /\ k = L + 1
      BY <1>4, <1>8, <2>1, <2>5, <2>7, <3>2
    <3>3. CASE k \in order_cnt + 1 .. L /\ j = L + 1
      BY <1>4, <1>8, <2>1, <2>5, <2>7, <3>3
    <3> QED
      BY <2>5, <3>1, <3>2, <3>3
  <2>8. ASSUME NEW g \in Seen \cup {f}, Loads(g) /\ Wanted(g)
        PROVE  \E k \in order_cnt + 1 .. L + 1 : oLib'[k] = g
    <3>1. CASE g = f
      BY <2>1, <2>5, <3>1
    <3>2. CASE g \in Seen
      BY <1>8, <2>5, <2>8, <3>2
    <3> QED
      BY <3>1, <3>2
  <2>9. OthersBehind'
    <3>1. order_cnt' = order_cnt /\ Len(oLib') = L + 1 /\ Seen' = Seen \cup {f}
      BY <1>1, <1>4, <2>1
    <3>2. \A k \in order_cnt' + 1 .. Len(oLib') : oLib'[k] \in Seen' /\ Wanted(oLib'[k])
      BY <2>6, <3>1
    <3>3. \A j, k \in order_cnt' + 1 .. Len(oLib') : oLib'[j] = oLib'[k] => j = k
      BY <2>7, <3>1
    <3>4. \A g \in Seen' : Loads(g) /\ Wanted(g) => \E k \in order_cnt' + 1 .. Len(oLib') : oLib'[k] = g
      BY <2>8, <3>1
    <3> QED
      BY <1>6, <3>2, <3>3, <3>4 DEF OthersBehind
  <2>10. Phase'
    BY <1>1, <2>4, <2>9 DEF Phase
  <2> QED
    BY <1>1, <1>3, <2>2, <2>10 DEF StartupInv
<1>10. CASE ~(Wanted(f) /\ Loads(f))
  <2>1. oLib' = oLib
    BY <1>1, <1>10
  <2>2. Types'
    BY <1>1, <1>2, <1>4, <2>1 DEF Types
  <2>3. OrderedFirst(Len(order_list))'
    BY <1>1, <1>6, <1>7, <2>1 DEF OrderedFirst, Loaded, n
  <2>4. OthersBehind'
    BY <1>1, <1>4, <1>6, <1>8, <1>10, <2>1 DEF OthersBehind, L
  <2>5. Phase'
    BY <1>1, <2>3, <2>4 DEF Phase
  <2> QED
    BY <1>1, <1>3, <2>2, <2>5 DEF StartupInv
<1> QED
  BY <1>9, <1>10

\* Two sequences, one behind the other.
LEMMA Concatenation ==
    ASSUME NEW S, NEW s \in Seq(S), NEW t \in Seq(S)
    PROVE  /\ s \o t \in Seq(S) /\ Len(s \o t) = Len(s) + Len(t)
           /\ \A k \in 1 .. Len(s) : (s \o t)[k] = s[k]
           /\ \A k \in Len(s) + 1 .. Len(s) + Len(t) : (s \o t)[k] = t[k - Len(s)]
OBVIOUS

\* A sequence whose end is sorted: where each file of the end comes from.
LEMMA EndSorted ==
    ASSUME NEW X, X \subseteq Nat, NEW s \in Seq(X), NEW m \in 0 .. Len(s)
    PROVE  LET r == SubSeq(s, 1, m) \o Sorted(SubSeq(s, m + 1, Len(s)))
           IN  /\ r \in Seq(X) /\ Len(r) = Len(s)
               /\ \A k \in 1 .. m : r[k] = s[k]
               /\ \A k \in m + 1 .. Len(s) : r[k] \in { s[j] : j \in m + 1 .. Len(s) }
               /\ \A j \in m + 1 .. Len(s) : \E k \in m + 1 .. Len(s) : r[k] = s[j]
               /\ (\A j, k \in m + 1 .. Len(s) : s[j] = s[k] => j = k)
                     => \A j, k \in m + 1 .. Len(s) : /\ (r[j] = r[k] => j = k)
                                                      /\ (j < k => r[j] < r[k])
<1> DEFINE L == Len(s)
           n == L - m
           first == SubSeq(s, 1, m)
           rest == SubSeq(s, m + 1, L)
           last == Sorted(rest)
           r == first \o last
<1>1. /\ L \in Nat /\ m \in Nat /\ n \in Nat /\ L = m + n
      /\ \A k \in 1 .. L : s[k] \in X
  OBVIOUS
<1>2. first \in Seq(X) /\ Len(first) = m /\ \A k \in 1 .. m : first[k] = s[k]
  OBVIOUS
<1>3. rest \in Seq(X) /\ Len(rest) = n /\ \A k \in 1 .. n : rest[k] = s[m + k]
  OBVIOUS
<1> HIDE DEF L, n, first, rest
<1>a. \A k \in 1 .. n : rest[k] \in X /\ rest[k] \in Nat
  <2>1. \A k \in 1 .. n : m + k \in 1 .. L
    BY <1>1
  <2>2. \A k \in 1 .. n : s[m + k] \in X
    BY <1>1, <2>1
  <2> QED
    BY <1>3, <2>2
<1>4. rest \in Seq(Nat)
  <2>1. Len(rest) \in Nat /\ \A k \in 1 .. Len(rest) : rest[k] \in Nat
    BY <1>1, <1>3, <1>a
  <2>2. rest = [k \in 1 .. Len(rest) |-> rest[k]]
    BY <1>3
  <2> QED
    BY <2>1, <2>2
<1>5. PICK p \in [1 .. n -> 1 .. n] :
         /\ \A j, k \in 1 .. n : p[j] = p[k] => j = k
         /\ \A j \in 1 .. n : \E k \in 1 .. n : p[k] = j
         /\ last = [k \in 1 .. n |-> rest[p[k]]]
         /\ \A j, k \in 1 .. n : j < k => rest[p[j]] <= rest[p[k]]
  <2>1. \E p \in [1 .. Len(rest) -> 1 .. Len(rest)] :
           /\ \A j, k \in 1 .. Len(rest) : p[j] = p[k] => j = k
           /\ \A j \in 1 .. Len(rest) : \E k \in 1 .. Len(rest) : p[k] = j
           /\ last = [k \in 1 .. Len(rest) |-> rest[p[k]]]
           /\ \A j, k \in 1 .. Len(rest) : j < k => rest[p[j]] <= rest[p[k]]
    BY <1>4, SortedIs DEF last
  <2>2. Len(rest) = n
    BY <1>3
  <2> HIDE DEF last
  <2> QED
    BY ONLY <2>1, <2>2
<1>6. ASSUME NEW k \in 1 .. n
      PROVE  p[k] \in 1 .. n /\ last[k] = s[m + p[k]] /\ m + p[k] \in m + 1 .. L
  <2>1. p[k] \in 1 .. n /\ last[k] = rest[p[k]]
    BY <1>5
  <2> HIDE DEF last
  <2>2. m + p[k] \in m + 1 .. L
    BY <1>1, <2>1
  <2> QED
    BY <1>3, <2>1, <2>2
<1>7. \A k \in m + 1 .. L : k - m \in 1 .. n /\ m + (k - m) = k
  BY <1>1
<1>8. last \in Seq(X) /\ Len(last) = n
  <2>1. \A k \in 1 .. n : rest[p[k]] \in X
    BY <1>5, <1>a
  <2>2. last = [k \in 1 .. n |-> rest[p[k]]] /\ n \in Nat
    BY <1>1, <1>5
  <2> HIDE DEF n, last
  <2> QED
    BY <2>1, <2>2
<1> HIDE DEF last
<1>9. /\ r \in Seq(X) /\ Len(r) = L
      /\ \A k \in 1 .. m : r[k] = first[k]
      /\ \A k \in m + 1 .. L : r[k] = last[k - m]
  <2>1. Len(first) = m /\ Len(last) = n /\ L = m + n /\ m \in Nat /\ n \in Nat
    BY <1>1, <1>2, <1>8
  <2>2. first \in Seq(X) /\ last \in Seq(X)
    BY <1>2, <1>8
  <2> HIDE DEF n, L, first
  <2>3. /\ r \in Seq(X) /\ Len(r) = Len(first) + Len(last)
        /\ \A k \in 1 .. Len(first) : r[k] = first[k]
        /\ \A k \in Len(first) + 1 .. Len(first) + Len(last) : r[k] = last[k - Len(first)]
    BY <2>2, Concatenation
  <2> HIDE DEF r
  <2> QED BY ONLY <2>1, <2>3
<1> HIDE DEF r, L, n
<1>10. \A k \in 1 .. m : r[k] = s[k]
  BY <1>2, <1>9
<1>11. \A k \in m + 1 .. L : r[k] = s[m + p[k - m]] /\ m + p[k - m] \in m + 1 .. L
  BY <1>6, <1>7, <1>9
<1>12. ASSUME NEW j \in m + 1 .. L
       PROVE  \E k \in m + 1 .. L : r[k] = s[j]
  <2>1. PICK i \in 1 .. n : p[i] = j - m
    BY <1>5, <1>7
  <2>2. m + i \in m + 1 .. L /\ (m + i) - m = i /\ m + p[i] = j
    BY <1>1, <1>7, <2>1 DEF n
  <2> QED
    BY <1>11, <2>2
<1>13. ASSUME \A j, k \in m + 1 .. L : s[j] = s[k] => j = k,
              NEW j \in m + 1 .. L, NEW k \in m + 1 .. L
       PROVE  /\ (r[j] = r[k] => j = k)
              /\ (j < k => r[j] < r[k])
  <2>1. j - m \in 1 .. n /\ k - m \in 1 .. n /\ (j - m = k - m => j = k) /\ (j < k => j - m < k - m)
    BY <1>1, <1>7
  <2>2. p[j - m] \in 1 .. n /\ p[k - m] \in 1 .. n
    BY <1>5, <2>1
  <2>3. r[j] = r[k] => j = k
    <3>1. r[j] = r[k] => m + p[j - m] = m + p[k - m]
      BY <1>11, <1>13
    <3>2. r[j] = r[k] => p[j - m] = p[k - m]
      BY <1>1, <2>2, <3>1 DEF n
    <3> QED
      BY <1>5, <2>1, <3>2
  <2>4. j < k => r[j] < r[k]
    <3>1. r[j] = rest[p[j - m]] /\ r[k] = rest[p[k - m]]
      BY <1>5, <1>9, <2>1
    <3>2. j < k => r[j] <= r[k]
      BY <1>5, <2>1, <3>1
    <3>3. r[j] \in Nat /\ r[k] \in Nat
      BY <1>5, <1>a, <2>1, <3>1
    <3>4. j < k => j # k
      BY <1>1
    <3> QED
      BY <2>3, <3>2, <3>3, <3>4
  <2> QED
    BY <2>3, <2>4
<1> QED
  BY <1>9, <1>10, <1>11, <1>12, <1>13 DEF r, first, last, rest, L

\* The walk is over: those behind the ordered ones are sorted.
LEMMA SortRestInv ==
    ASSUME StartupInv, SortRest
    PROVE  StartupInv'
<1>1. /\ tree' = tree /\ use_dict_list' = use_dict_list /\ ordering' = ordering
      /\ dirs' = dirs /\ unseen' = unseen /\ names' = names /\ bookname_to_ifo' = bookname_to_ifo
      /\ order_list' = order_list /\ disable_list' = disable_list
      /\ order_cnt' = order_cnt
      /\ stage = "walk" /\ stage' = "ready" /\ unseen = {} /\ dirs = <<>>
      /\ oLib' = SubSeq(oLib, 1, order_cnt) \o Sorted(SubSeq(oLib, order_cnt + 1, Len(oLib)))
  BY DEF SortRest, inputs, lists, Ordered
<1>2. Types /\ Phase
  BY <1>1 DEF StartupInv
<1>3. NamesKnown' /\ ListOfOrder' /\ ListOfDisabled'
  BY <1>1, LoadKeepsLists
<1> DEFINE n == Len(order_list)
           L == Len(oLib)
<1>4. /\ oLib \in Seq(Files) /\ L \in Nat /\ order_cnt \in 0 .. L /\ Files \subseteq Nat
      /\ OrderedFirst(n) /\ OthersBehind /\ Files' = Files /\ Seen' = Seen
  <2>1. Files' = Files
    BY <1>1 DEF Files
  <2>2. Seen' = Seen
    BY <1>1, <2>1 DEF Seen
  <2>3. Files \subseteq Nat
    BY <1>2, TreesAssumption DEF Types, Files
  <2> QED
    BY <1>1, <1>2, <2>1, <2>2, <2>3 DEF Types, Phase
<1>5. /\ \A g \in ToSet(oLib) : Loads(g)
      /\ Drawn(oLib, order_cnt, order_list, n)
      /\ \A a \in 1 .. n : Loads(order_list[a]) => \E k \in 1 .. order_cnt : oLib[k] = order_list[a]
  BY <1>4 DEF OrderedFirst, Loaded
<1>6. /\ \A k \in order_cnt + 1 .. L : oLib[k] \in Seen /\ Wanted(oLib[k])
      /\ \A j, k \in order_cnt + 1 .. L : oLib[j] = oLib[k] => j = k
      /\ \A g \in Seen : Loads(g) /\ Wanted(g) => \E k \in order_cnt + 1 .. L : oLib[k] = g
  BY <1>4 DEF OthersBehind
<1>7. /\ oLib' \in Seq(Files) /\ Len(oLib') = L
      /\ \A k \in 1 .. order_cnt : oLib'[k] = oLib[k]
      /\ \A k \in order_cnt + 1 .. L : oLib'[k] \in { oLib[j] : j \in order_cnt + 1 .. L }
      /\ \A j \in order_cnt + 1 .. L : \E k \in order_cnt + 1 .. L : oLib'[k] = oLib[j]
      /\ \A j, k \in order_cnt + 1 .. L : /\ (oLib'[j] = oLib'[k] => j = k)
                                          /\ (j < k => oLib'[j] < oLib'[k])
  <2> DEFINE r == SubSeq(oLib, 1, order_cnt) \o Sorted(SubSeq(oLib, order_cnt + 1, Len(oLib)))
  <2>1. oLib \in Seq(Files) /\ order_cnt \in 0 .. Len(oLib) /\ Files \subseteq Nat
    BY <1>4
  <2>2. /\ r \in Seq(Files) /\ Len(r) = Len(oLib)
        /\ \A k \in 1 .. order_cnt : r[k] = oLib[k]
        /\ \A k \in order_cnt + 1 .. Len(oLib) : r[k] \in { oLib[j] : j \in order_cnt + 1 .. Len(oLib) }
        /\ \A j \in order_cnt + 1 .. Len(oLib) :
              \E k \in order_cnt + 1 .. Len(oLib) : r[k] = oLib[j]
        /\ (\A j, k \in order_cnt + 1 .. Len(oLib) : oLib[j] = oLib[k] => j = k)
              => \A j, k \in order_cnt + 1 .. Len(oLib) : /\ (r[j] = r[k] => j = k)
                                                         /\ (j < k => r[j] < r[k])
    BY ONLY <2>1, EndSorted
  <2>3. oLib' = r
    BY <1>1
  <2> HIDE DEF r
  <2> QED
    BY <1>6, <2>2, <2>3
<1> HIDE DEF n, L
<1>8. \A g : (Loads(g)' <=> Loads(g)) /\ (Wanted(g)' <=> Wanted(g))
  BY <1>1 DEF Loads, Good, Unreadable, Named, Wanted
<1>9. Types'
  BY <1>1, <1>2, <1>4, <1>7 DEF Types, L
<1>10. OrderedFirst(Len(order_list))'
  <2>1. \A g \in ToSet(oLib') : g \in ToSet(oLib)
    <3>1. DOMAIN oLib = 1 .. L /\ DOMAIN oLib' = 1 .. L
      BY <1>4, <1>7 DEF L
    <3>2. ASSUME NEW k \in 1 .. L PROVE oLib'[k] \in ToSet(oLib)
      <4>1. CASE k \in 1 .. order_cnt
        BY <1>7, <3>1, <4>1 DEF ToSet
      <4>2. CASE k \in order_cnt + 1 .. L
        <5>1. PICK j \in order_cnt + 1 .. L : oLib'[k] = oLib[j]
          BY <1>7, <4>2
        <5>2. j \in 1 .. L
          BY <1>4, <5>1
        <5> QED
          BY <3>1, <5>1, <5>2 DEF ToSet
      <4> QED
        BY <1>4, <4>1, <4>2
    <3> QED
      BY <3>1, <3>2 DEF ToSet
  <2>2. Drawn(oLib', order_cnt, order_list, n)
    BY <1>5, <1>7 DEF Drawn
  <2>3. \A a \in 1 .. n : Loads(order_list[a]) => \E k \in 1 .. order_cnt : oLib'[k] = order_list[a]
    BY <1>5, <1>7
  <2> QED
    BY <1>1, <1>5, <1>8, <2>1, <2>2, <2>3 DEF OrderedFirst, Loaded, n
<1>11. OthersBehind'
  <2>1. \A k \in order_cnt + 1 .. L : oLib'[k] \in Seen /\ Wanted(oLib'[k])
    <3>1. ASSUME NEW k \in order_cnt + 1 .. L PROVE oLib'[k] \in Seen /\ Wanted(oLib'[k])
      <4>1. PICK j \in order_cnt + 1 .. L : oLib'[k] = oLib[j]
        BY <1>7
      <4>2. oLib[j] \in Seen /\ Wanted(oLib[j])
        BY <1>6
      <4> HIDE DEF Wanted
      <4> QED
        BY <4>1, <4>2
    <3> QED
      BY <3>1
  <2>2. \A g \in Seen : Loads(g) /\ Wanted(g) => \E k \in order_cnt + 1 .. L : oLib'[k] = g
    <3>1. ASSUME NEW g \in Seen, Loads(g) /\ Wanted(g)
          PROVE  \E k \in order_cnt + 1 .. L : oLib'[k] = g
      <4>1. PICK j \in order_cnt + 1 .. L : oLib[j] = g
        BY <1>6, <3>1
      <4> QED
        BY <1>7, <4>1
    <3> QED
      BY <3>1
  <2>3. order_cnt' = order_cnt /\ Len(oLib') = L /\ Seen' = Seen
    BY <1>1, <1>4, <1>7
  <2> QED
    BY <1>7, <1>8, <2>1, <2>2, <2>3 DEF OthersBehind
<1>12. OthersSorted'
  BY <1>1, <1>7 DEF OthersSorted
<1>13. Phase'
  BY <1>1, <1>10, <1>11, <1>12 DEF Phase
<1> QED
  BY <1>1, <1>3, <1>9, <1>13 DEF StartupInv

\* Nothing happens.
LEMMA StartupStutter ==
    ASSUME StartupInv, UNCHANGED prepareVars
    PROVE  StartupInv'
<1>1. /\ tree' = tree /\ use_dict_list' = use_dict_list /\ ordering' = ordering /\ stage' = stage
      /\ dirs' = dirs /\ unseen' = unseen /\ names' = names /\ bookname_to_ifo' = bookname_to_ifo
      /\ order_list' = order_list /\ disable_list' = disable_list
      /\ oLib' = oLib /\ order_cnt' = order_cnt
  BY DEF prepareVars, inputs, lists
<1>2. /\ Files' = Files /\ Given' = Given /\ Used' = Used /\ Seen' = Seen /\ Scanned' = Scanned
      /\ Loaded' = Loaded /\ Books(order_list)' = Books(order_list)
  BY <1>1 DEF Files, Given, Used, Seen, Scanned, Loaded, Books
<1>3. \A g : /\ Unreadable(g)' <=> Unreadable(g)
             /\ Named(g)' <=> Named(g)
             /\ Loads(g)' <=> Loads(g)
             /\ Wanted(g)' <=> Wanted(g)
             /\ Known(g)' <=> Known(g)
  BY <1>1 DEF Unreadable, Named, Loads, Good, Wanted, Known
<1>4. Types' <=> Types
  BY <1>1, <1>2 DEF Types
<1>5. NamesKnown' <=> NamesKnown
  BY <1>1, <1>2, <1>3 DEF NamesKnown
<1>6. ListOfOrder' <=> ListOfOrder
  BY <1>1, <1>2, <1>3 DEF ListOfOrder
<1>7. ListOfDisabled' <=> ListOfDisabled
  BY <1>1, <1>2 DEF ListOfDisabled
<1>8. /\ (OthersBehind' <=> OthersBehind) /\ (OthersSorted' <=> OthersSorted)
      /\ (OrderedFirst(Len(order_list))' <=> OrderedFirst(Len(order_list)))
      /\ (OrderedFirst(Len(order_list) - Len(names))' <=> OrderedFirst(Len(order_list) - Len(names)))
  BY <1>1, <1>2, <1>3 DEF OthersBehind, OthersSorted, OrderedFirst
<1>9. Phase' <=> Phase
  BY <1>1, <1>2, <1>8 DEF Phase
<1> QED
  BY <1>1, <1>4, <1>5, <1>6, <1>7, <1>9 DEF StartupInv

\* Every step of prepare() and of Libs::load keeps the invariant.
LEMMA StartupNextInv ==
    ASSUME StartupInv, [PrepareNext]_prepareVars
    PROVE  StartupInv'
<1>1. CASE \E f \in Files : ScanFile(f) \/ WalkFile(f)
  BY <1>1, ScanFileInv, WalkFileInv
<1> QED
  BY <1>1, OpenDirInv, ScanDoneInv, UseNameInv, UseDoneInv, OrderNameInv, OrderDoneInv,
     PathsInv, LoadOrderedInv, StartWalkInv, SortRestInv, StartupStutter DEF PrepareNext
-----------------------------------------------------------------------------
(* The theorems. *)

\* StartupInv, the invariant behind the three below, holds whatever files there are,
\* whatever is asked for, and in whatever order readdir() returns the files.
THEOREM StartupInvariance == PrepareSpec => []StartupInv
BY StartupInitInv, StartupNextInv, PTL DEF PrepareSpec

\* parse_data finds the directory of every loaded dictionary under its book name.
THEOREM PathsAreKnown == PrepareSpec => []PathKnown
<1>1. ASSUME StartupInv PROVE PathKnown
  <2> SUFFICES ASSUME Ready, NEW f \in Loaded
               PROVE  /\ tree[f].book \in DOMAIN bookname_to_ifo
                      /\ \E g \in Files : /\ tree[g].book = tree[f].book
                                          /\ bookname_to_ifo[tree[f].book] = tree[g].directory
                      /\ NamesDiffer => bookname_to_ifo[tree[f].book] = tree[f].directory
    BY DEF PathKnown
  <2>1. stage = "ready" /\ Types /\ NamesKnown /\ Phase
    BY <1>1 DEF Ready, StartupInv
  <2>2. f \in Files /\ Scanned = Files
    <3>1. oLib \in Seq(Files)
      BY <2>1 DEF Types
    <3> QED
      BY <2>1, <3>1 DEF Loaded, ToSet, Scanned
  <2>3. ~Unreadable(f) /\ Named(f)
    BY <2>1 DEF Phase, OrderedFirst, Loads
  <2>4. tree[f].book \in DOMAIN bookname_to_ifo
    BY <2>1, <2>2, <2>3 DEF NamesKnown, Known
  <2>5. PICK g \in Files : /\ ~Unreadable(g) /\ Named(g) /\ tree[g].book = tree[f].book
                           /\ bookname_to_ifo[tree[f].book] = tree[g].directory
    BY <2>1, <2>2, <2>4 DEF NamesKnown
  <2>6. NamesDiffer => g = f
    BY <2>2, <2>3, <2>5 DEF NamesDiffer
  <2> QED
    BY <2>4, <2>5, <2>6
<1> QED
  BY <1>1, StartupInvariance, PTL

\* How many, told from whether there are one or two.
LEMMA OneOrTwo ==
    ASSUME NEW n \in Nat, NEW S, S \subseteq 1 .. n
    PROVE  /\ S # {} => Cardinality(S) > 0
           /\ Cardinality(S) > 1 => \E a, b \in S : a < b
           /\ (\E a, b \in S : a < b) => Cardinality(S) > 1
<1>1. IsFiniteSet(S) /\ Cardinality(S) \in Nat /\ \A x \in S : x \in Nat
  <2>1. IsFiniteSet(1 .. n)
    BY FS_Interval
  <2>2. IsFiniteSet(S)
    BY <2>1, FS_Subset
  <2>3. \A x \in S : x \in 1 .. n
    OBVIOUS
  <2> QED
    BY <2>2, <2>3, FS_CardinalityType
<1>2. S # {} => Cardinality(S) > 0
  BY <1>1, FS_EmptySet
<1>3. ASSUME Cardinality(S) > 1 PROVE \E a, b \in S : a < b
  <2>1. S # {}
    BY <1>3, FS_EmptySet
  <2>2. PICK a \in S : TRUE
    BY <2>1
  <2>3. S # {a}
    <3>1. Cardinality({a}) = 1
      BY FS_Singleton
    <3>2. ASSUME S = {a} PROVE FALSE
      <4>1. Cardinality(S) = 1
        BY <3>1, <3>2
      <4> QED
        BY <1>3, <4>1
    <3> QED
      BY <3>2
  <2>4. PICK b \in S : b # a
    BY <2>2, <2>3
  <2>5. a \in Nat /\ b \in Nat
    BY <1>1
  <2> QED
    BY <2>4, <2>5
<1>4. ASSUME NEW a \in S, NEW b \in S, a < b PROVE Cardinality(S) > 1
  <2>1. a \in Nat /\ b \in Nat
    BY <1>1
  <2>2. {a, b} \subseteq S /\ a # b
    BY <1>4, <2>1
  <2>3. Cardinality({a, b}) = 2
    <3>1. Cardinality({a}) = 1 /\ IsFiniteSet({a}) /\ b \notin {a}
      BY <2>2, FS_Singleton
    <3>2. Cardinality({a} \cup {b}) = 2
      BY <3>1, FS_AddElement
    <3>3. {a} \cup {b} = {a, b}
      OBVIOUS
    <3> QED
      BY <3>2, <3>3
  <2>4. Cardinality({a, b}) <= Cardinality(S)
    BY <1>1, <2>2, FS_Subset
  <2> QED
    BY <1>1, <2>3, <2>4
<1> QED
  BY <1>2, <1>3, <1>4

\* What can be said of the dictionaries when the program has started.
LEMMA WhenReady ==
    ASSUME StartupInv, Ready
    PROVE  /\ Len(Given) \in Nat /\ DOMAIN Given = 1 .. Len(Given)
           /\ DOMAIN oLib = 1 .. Len(oLib) /\ Len(oLib) \in Nat /\ order_cnt \in 0 .. Len(oLib)
           /\ DOMAIN order_list = 1 .. Len(order_list) /\ Len(order_list) \in Nat
           /\ \A k \in 1 .. Len(oLib) : oLib[k] \in Files /\ oLib[k] \in Nat \ {0} /\ Loads(oLib[k])
           /\ \A a \in 1 .. Len(order_list) : order_list[a] \in Files
           /\ Drawn(oLib, order_cnt, order_list, Len(order_list))
           /\ Drawn(Books(order_list), Len(order_list), Given, Len(Given))
           /\ OrderedFirst(Len(order_list)) /\ OthersBehind /\ OthersSorted /\ Seen = Files
           /\ NamesKnown /\ ListOfOrder /\ ListOfDisabled /\ Used = Len(Given) /\ Scanned = Files
<1>1. stage = "ready" /\ Types /\ NamesKnown /\ ListOfOrder /\ ListOfDisabled /\ Phase
  BY DEF Ready, StartupInv
<1>2. unseen = {} /\ dirs = <<>> /\ OrderedFirst(Len(order_list)) /\ OthersBehind /\ OthersSorted
  BY <1>1 DEF Phase
<1>3. Seen = Files /\ Scanned = Files
  <2>1. DOMAIN dirs = {}
    BY <1>2
  <2> QED
    BY <1>1, <1>2, <2>1 DEF Seen, Scanned, Files
<1>4. Len(Given) \in Nat /\ DOMAIN Given = 1 .. Len(Given)
  <2>1. CASE use_dict_list # NoFile
    BY <1>1, <2>1, ListsAssumption DEF Given, Types
  <2>2. CASE ordering # NoFile /\ use_dict_list = NoFile
    BY <1>1, <2>2, ListsAssumption DEF Given, Types
  <2>3. CASE ordering = NoFile /\ use_dict_list = NoFile
    BY <2>3 DEF Given
  <2> QED
    BY <2>1, <2>2, <2>3
<1>5. Used = Len(Given)
  BY <1>1 DEF Used
<1>6. oLib \in Seq(Files) /\ order_list \in Seq(Files) /\ order_cnt \in 0 .. Len(oLib)
  BY <1>1 DEF Types
<1>7. /\ DOMAIN oLib = 1 .. Len(oLib) /\ Len(oLib) \in Nat
      /\ DOMAIN order_list = 1 .. Len(order_list) /\ Len(order_list) \in Nat
      /\ \A k \in 1 .. Len(oLib) : oLib[k] \in Files
      /\ \A a \in 1 .. Len(order_list) : order_list[a] \in Files
  BY <1>6
<1>8. \A k \in 1 .. Len(oLib) : Loads(oLib[k])
  BY <1>2, <1>7 DEF OrderedFirst, Loaded, ToSet
<1>9. \A f \in Files : f \in Nat \ {0}
  BY <1>1, TreesAssumption DEF Types, Files
<1>10. /\ Drawn(oLib, order_cnt, order_list, Len(order_list))
       /\ Drawn(Books(order_list), Len(order_list), Given, Len(Given))
  BY <1>1, <1>2, <1>5 DEF OrderedFirst, ListOfOrder
<1> QED
  BY <1>1, <1>2, <1>3, <1>4, <1>5, <1>6, <1>7, <1>8, <1>9, <1>10

\* The ordered dictionaries have their names in the list that was given, in its order.
LEMMA NamesGiven ==
    ASSUME StartupInv, Ready, NEW j \in 1 .. order_cnt, NEW k \in 1 .. order_cnt, j <= k
    PROVE  \E a, b \in 1 .. Len(Given) : /\ Given[a] = tree[oLib[j]].book
                                         /\ Given[b] = tree[oLib[k]].book
                                         /\ a <= b /\ (j < k => a < b)
<1> DEFINE c == [i \in 1 .. order_cnt |-> tree[oLib[i]].book]
           d == Books(order_list)
           m == order_cnt
           n == Len(order_list)
           l == Len(Given)
<1>1. m \in Nat /\ n \in Nat /\ l \in Nat /\ Drawn(oLib, m, order_list, n) /\ Drawn(d, n, Given, l)
  BY WhenReady
<1>2. \A i \in 1 .. n : d[i] = tree[order_list[i]].book
  BY WhenReady DEF Books
<1>3. \A i \in 1 .. m : c[i] = tree[oLib[i]].book
  OBVIOUS
<1>4. j \in 1 .. m /\ k \in 1 .. m
  OBVIOUS
<1> HIDE DEF c, d, m, n, l
<1>5. \A h \in 1 .. m, i \in 1 .. n : oLib[h] = order_list[i] => c[h] = d[i]
  BY <1>2, <1>3
<1>6. Drawn(c, m, Given, l)
  BY <1>1, <1>5, DrawnThrough
<1>7. PICK a, b \in 1 .. l : /\ Given[a] = c[j] /\ Given[b] = c[k]
                            /\ a <= b /\ (j < k => a < b)
  BY ONLY j <= k, <1>4, <1>6 DEF Drawn
<1> QED
  BY <1>3, <1>4, <1>7 DEF l

\* Every dictionary that can be loaded and was asked for is loaded, and once unless its
\* name was given twice (prepare, Libs::load).
THEOREM AllAskedOnce == PrepareSpec => []EveryAskedOnce
<1>1. ASSUME StartupInv PROVE EveryAskedOnce
  <2> DEFINE Times(f) == { k \in DOMAIN oLib : oLib[k] = f }
             Places(f) == { k \in DOMAIN Given : Given[k] = tree[f].book }
  <2> SUFFICES ASSUME Ready, NEW f \in Files
               PROVE  /\ Loads(f) /\ Asked(f) => Cardinality(Times(f)) > 0
                      /\ Cardinality(Times(f)) > 1 => Cardinality(Places(f)) > 1
    BY DEF EveryAskedOnce, Given
  <2>1. /\ Len(Given) \in Nat /\ DOMAIN Given = 1 .. Len(Given)
        /\ DOMAIN oLib = 1 .. Len(oLib) /\ Len(oLib) \in Nat /\ order_cnt \in 0 .. Len(oLib)
        /\ DOMAIN order_list = 1 .. Len(order_list) /\ Len(order_list) \in Nat
        /\ Drawn(oLib, order_cnt, order_list, Len(order_list))
        /\ OrderedFirst(Len(order_list)) /\ OthersBehind /\ ListOfDisabled /\ Seen = Files
    BY <1>1, WhenReady
  <2>2. /\ Times(f) \subseteq 1 .. Len(oLib) /\ Places(f) \subseteq 1 .. Len(Given)
        /\ \A k : k \in Times(f) <=> k \in 1 .. Len(oLib) /\ oLib[k] = f
        /\ \A a : a \in Places(f) <=> a \in 1 .. Len(Given) /\ Given[a] = tree[f].book
    BY <2>1
  <2> HIDE DEF Times, Places
  <2>3. ASSUME Loads(f), Asked(f) PROVE Cardinality(Times(f)) > 0
    <3>1. \E k \in 1 .. Len(oLib) : oLib[k] = f
      <4>1. CASE f \in ToSet(order_list)
        <5>1. PICK a \in 1 .. Len(order_list) : order_list[a] = f
          BY <2>1, <4>1 DEF ToSet
        <5>2. PICK k \in 1 .. order_cnt : oLib[k] = f
          BY <2>1, <2>3, <5>1 DEF OrderedFirst
        <5>3. k \in 1 .. Len(oLib)
          BY <2>1
        <5> QED
          BY <5>2, <5>3
      <4>2. CASE f \notin ToSet(order_list)
        <5>1. f \notin disable_list
          BY <2>1, <2>3 DEF ListOfDisabled, Asked
        <5>2. PICK k \in order_cnt + 1 .. Len(oLib) : oLib[k] = f
          BY <2>1, <2>3, <4>2, <5>1 DEF OthersBehind, Wanted
        <5>3. k \in 1 .. Len(oLib)
          BY <2>1
        <5> QED
          BY <5>2, <5>3
      <4> QED
        BY <4>1, <4>2
    <3>2. Times(f) # {}
      BY <2>2, <3>1
    <3> QED
      BY <2>1, <2>2, <3>2, OneOrTwo
  <2>4. ASSUME Cardinality(Times(f)) > 1 PROVE Cardinality(Places(f)) > 1
    <3>1. PICK j, k \in Times(f) : j < k
      BY <2>1, <2>2, <2>4, OneOrTwo
    <3>2. j \in 1 .. Len(oLib) /\ k \in 1 .. Len(oLib) /\ oLib[j] = f /\ oLib[k] = f
      BY <2>2
    <3>3. CASE k <= order_cnt
      <4>1. j \in 1 .. order_cnt /\ k \in 1 .. order_cnt /\ j <= k
        BY <2>1, <3>1, <3>2, <3>3
      <4>2. PICK a, b \in 1 .. Len(Given) : /\ Given[a] = tree[oLib[j]].book
                                            /\ Given[b] = tree[oLib[k]].book
                                            /\ a <= b /\ (j < k => a < b)
        BY <1>1, <4>1, NamesGiven
      <4>3. a \in Places(f) /\ b \in Places(f) /\ a < b
        BY <2>2, <3>1, <3>2, <4>2
      <4> QED
        BY <2>1, <2>2, <4>3, OneOrTwo
    <3>4. CASE order_cnt < k
      <4>1. k \in order_cnt + 1 .. Len(oLib)
        BY <2>1, <3>2, <3>4
      <4>2. f \notin ToSet(order_list)
        BY <2>1, <3>2, <4>1 DEF OthersBehind, Wanted
      <4>3. CASE j <= order_cnt
        <5>1. j \in 1 .. order_cnt /\ j <= j
          BY <2>1, <3>2, <4>3
        <5>2. PICK a \in 1 .. Len(order_list) : order_list[a] = oLib[j]
          BY <2>1, <5>1 DEF Drawn
        <5> QED
          BY <2>1, <3>2, <4>2, <5>2 DEF ToSet
      <4>4. CASE order_cnt < j
        <5>1. j \in order_cnt + 1 .. Len(oLib)
          BY <2>1, <3>2, <4>4
        <5>2. j = k
          BY <2>1, <3>2, <4>1, <5>1 DEF OthersBehind
        <5> QED
          BY <3>1, <3>2, <5>2
      <4> QED
        BY <2>1, <3>2, <4>3, <4>4
    <3> QED
      BY <2>1, <3>2, <3>3, <3>4
  <2> QED
    BY <2>3, <2>4
<1> QED
  BY <1>1, StartupInvariance, PTL

\* Where a book that the list has once is in it.
LEMMA PlaceOf ==
    ASSUME NEW list, Len(list) \in Nat, DOMAIN list = 1 .. Len(list), IsInjective(list), NEW f
    PROVE  /\ \A a \in 1 .. Len(list) : list[a] = tree[f].book => PlaceIn(list, f) = a
           /\ (\A a \in 1 .. Len(list) : list[a] # tree[f].book) => PlaceIn(list, f) = Len(list) + f
<1> DEFINE at == { k \in DOMAIN list : list[k] = tree[f].book }
<1>1. ASSUME NEW a \in 1 .. Len(list), list[a] = tree[f].book
      PROVE  PlaceIn(list, f) = a
  <2>1. at = {a}
    BY <1>1 DEF IsInjective
  <2>2. (CHOOSE k \in at : \A j \in at : k <= j) = a
    <3>1. a \in at /\ \A j \in at : a <= j
      BY <2>1
    <3>2. \A k \in at : k = a
      BY <2>1
    <3> HIDE DEF at
    <3> QED
      BY <3>1, <3>2
  <2>3. at # {}
    BY <2>1
  <2> QED
    BY <2>2, <2>3 DEF PlaceIn
<1>2. ASSUME \A a \in 1 .. Len(list) : list[a] # tree[f].book
      PROVE  PlaceIn(list, f) = Len(list) + f
  <2>1. at = {}
    BY <1>2
  <2> QED
    BY <2>1 DEF PlaceIn
<1> QED
  BY <1>1, <1>2

\* The dictionaries of an order come first and as it names them, the others after them by
\* the names of their files (prepare, Libs::load).
THEOREM OrderStays == PrepareSpec => []OrderKept
<1>1. ASSUME StartupInv PROVE OrderKept
  <2> SUFFICES ASSUME Ready, NamesDiffer, IsInjective(Given),
                      NEW j \in DOMAIN oLib, NEW k \in DOMAIN oLib, j < k
               PROVE  PlaceIn(Given, oLib[j]) < PlaceIn(Given, oLib[k])
    BY DEF OrderKept, Given
  <2> DEFINE n == Len(Given)
  <2>1. /\ n \in Nat /\ DOMAIN Given = 1 .. n
        /\ DOMAIN oLib = 1 .. Len(oLib) /\ Len(oLib) \in Nat /\ order_cnt \in 0 .. Len(oLib)
        /\ \A i \in 1 .. Len(oLib) : oLib[i] \in Files /\ oLib[i] \in Nat \ {0} /\ Loads(oLib[i])
        /\ OthersBehind /\ OthersSorted /\ NamesKnown /\ ListOfOrder
        /\ Used = n /\ Scanned = Files
        /\ DOMAIN order_list = 1 .. Len(order_list)
        /\ \A a \in 1 .. Len(order_list) : order_list[a] \in Files
    BY <1>1, WhenReady
  <2>2. /\ \A f : \A a \in 1 .. n : Given[a] = tree[f].book => PlaceIn(Given, f) = a
        /\ \A f : (\A a \in 1 .. n : Given[a] # tree[f].book) => PlaceIn(Given, f) = n + f
    BY <2>1, PlaceOf
  <2> HIDE DEF n
  <2>3. ASSUME NEW i \in order_cnt + 1 .. Len(oLib)
        PROVE  PlaceIn(Given, oLib[i]) = n + oLib[i]
    <3> DEFINE f == oLib[i]
    <3>1. f \in Files /\ Loads(f) /\ f \notin ToSet(order_list)
      BY <2>1 DEF OthersBehind, Wanted
    <3>2. ASSUME NEW a \in 1 .. n, Given[a] = tree[f].book PROVE FALSE
      <4>1. Known(Given[a]) /\ Named(f) /\ ~Unreadable(f)
        BY <2>1, <3>1, <3>2 DEF NamesKnown, Loads
      <4>2. PICK g \in ToSet(order_list) : tree[g].book = Given[a]
        BY <2>1, <4>1 DEF ListOfOrder
      <4>3. g \in Files /\ Named(g) /\ ~Unreadable(g)
        BY <2>1 DEF ListOfOrder, ToSet
      <4>4. g = f
        BY <3>1, <3>2, <4>1, <4>2, <4>3 DEF NamesDiffer
      <4> QED
        BY <3>1, <4>4
    <3> HIDE DEF f
    <3>3. PlaceIn(Given, f) = n + f
      BY <2>2, <3>2
    <3> QED
      BY <3>3 DEF f
  <2>4. CASE k <= order_cnt
    <3>1. j \in 1 .. order_cnt /\ k \in 1 .. order_cnt /\ j <= k
      BY <2>1, <2>4
    <3>2. PICK a, b \in 1 .. n : /\ Given[a] = tree[oLib[j]].book
                                 /\ Given[b] = tree[oLib[k]].book
                                 /\ a <= b /\ (j < k => a < b)
      BY <1>1, <3>1, NamesGiven DEF n
    <3> QED
      BY <2>2, <3>2
  <2>5. CASE j <= order_cnt /\ order_cnt < k
    <3>1. j \in 1 .. order_cnt /\ j <= j /\ k \in order_cnt + 1 .. Len(oLib)
      BY <2>1, <2>5
    <3>2. PICK a \in 1 .. n : Given[a] = tree[oLib[j]].book
      BY <1>1, <3>1, NamesGiven DEF n
    <3>3. PlaceIn(Given, oLib[j]) = a /\ PlaceIn(Given, oLib[k]) = n + oLib[k] /\ oLib[k] \in Nat \ {0}
      BY <2>1, <2>2, <2>3, <3>1, <3>2
    <3> QED
      BY <2>1, <3>3
  <2>6. CASE order_cnt < j
    <3>1. j \in order_cnt + 1 .. Len(oLib) /\ k \in order_cnt + 1 .. Len(oLib)
      BY <2>1, <2>6
    <3>2. oLib[j] < oLib[k] /\ oLib[j] \in Nat /\ oLib[k] \in Nat
      BY <2>1, <3>1 DEF OthersSorted
    <3>3. PlaceIn(Given, oLib[j]) = n + oLib[j] /\ PlaceIn(Given, oLib[k]) = n + oLib[k]
      BY <2>3, <3>1
    <3> QED
      BY <2>1, <3>2, <3>3
  <2> QED
    BY <2>1, <2>4, <2>5, <2>6
<1> QED
  BY <1>1, StartupInvariance, PTL
-----------------------------------------------------------------------------
(* The matches of a dictionary. *)

\* The numbers up to n that are in M, and those of them with less than max before.
Below(M, n) == { k \in 1 .. n : k \in M }
FirstBelow(M, max, n) == { k \in Below(M, n) : Cardinality(Below(M, k - 1)) < max }

\* There are finitely many numbers up to n.
LEMMA BelowFinite ==
    ASSUME NEW M, NEW n \in Nat
    PROVE  IsFiniteSet(Below(M, n)) /\ Cardinality(Below(M, n)) \in Nat
<1>1. IsFiniteSet(1 .. n)
  BY FS_Interval
<1>2. Below(M, n) \subseteq 1 .. n
  BY DEF Below
<1> QED
  BY <1>1, <1>2, FS_Subset, FS_CardinalityType

\* One number more.
LEMMA BelowNext ==
    ASSUME NEW M, NEW n \in Nat
    PROVE  /\ Below(M, n + 1) = IF n + 1 \in M THEN Below(M, n) \cup {n + 1} ELSE Below(M, n)
           /\ n + 1 \notin Below(M, n)
BY DEF Below

\* The first ones are all, or max of them.
LEMMA HowManyFirst ==
    ASSUME NEW M, NEW max \in Nat, NEW n \in Nat
    PROVE  /\ IsFiniteSet(FirstBelow(M, max, n))
           /\ Cardinality(FirstBelow(M, max, n)) =
                 IF Cardinality(Below(M, n)) < max THEN Cardinality(Below(M, n)) ELSE max
<1> DEFINE Right(k) == /\ IsFiniteSet(FirstBelow(M, max, k))
                       /\ Cardinality(FirstBelow(M, max, k)) =
                             IF Cardinality(Below(M, k)) < max THEN Cardinality(Below(M, k))
                             ELSE max
           S == { k \in Nat : Right(k) }
<1>1. 0 \in S
  <2>1. Below(M, 0) = {} /\ FirstBelow(M, max, 0) = {}
    BY DEF Below, FirstBelow
  <2>2. Right(0)
    BY <2>1, FS_EmptySet
  <2> QED
    BY <2>2
<1>2. ASSUME NEW k \in 0 .. n - 1, k \in S PROVE k + 1 \in S
  <2> DEFINE F == FirstBelow(M, max, k)
             c == Cardinality(Below(M, k))
  <2>1. k \in Nat /\ Right(k) /\ (k + 1) - 1 = k
    BY <1>2
  <2>2. c \in Nat /\ IsFiniteSet(Below(M, k))
    BY <2>1, BelowFinite
  <2>3. FirstBelow(M, max, k + 1) = IF k + 1 \in M /\ c < max THEN F \cup {k + 1} ELSE F
    <3>1. FirstBelow(M, max, k + 1) =
            { i \in Below(M, k + 1) : Cardinality(Below(M, i - 1)) < max }
      BY DEF FirstBelow
    <3>2. F = { i \in Below(M, k) : Cardinality(Below(M, i - 1)) < max }
      BY DEF FirstBelow
    <3>3. Cardinality(Below(M, (k + 1) - 1)) = c
      BY <2>1
    <3> HIDE DEF F, c
    <3> QED
      BY <3>1, <3>2, <3>3, <2>1, BelowNext
  <2>4. k + 1 \notin F
    BY <2>1, BelowNext DEF FirstBelow
  <2>5. Cardinality(Below(M, k + 1)) = IF k + 1 \in M THEN c + 1 ELSE c
    <3> DEFINE B == Below(M, k)
    <3>1. /\ Below(M, k + 1) = IF k + 1 \in M THEN B \cup {k + 1} ELSE B
          /\ k + 1 \notin B
      BY <2>1, BelowNext
    <3>2. c = Cardinality(B) /\ IsFiniteSet(B)
      BY <2>2
    <3> HIDE DEF B, c
    <3>3. Cardinality(B \cup {k + 1}) = c + 1
      BY <3>1, <3>2, FS_AddElement
    <3> QED
      BY <3>1, <3>2, <3>3
  <2>6. IsFiniteSet(F) /\ Cardinality(F) = IF c < max THEN c ELSE max
    BY <2>1
  <2> HIDE DEF F, c
  <2>7. IsFiniteSet(F \cup {k + 1}) /\ Cardinality(F \cup {k + 1}) = Cardinality(F) + 1
    <3>1. IsFiniteSet(F)
      BY <2>6
    <3> QED
      BY <2>4, <3>1, FS_AddElement
  <2>8. Right(k + 1)
    BY <2>2, <2>3, <2>5, <2>6, <2>7
  <2> QED
    BY <2>1, <2>8
<1>3. n \in S
  <2> HIDE DEF S
  <2> QED
    BY <1>1, <1>2, UpTo
<1> QED
  BY <1>3

\* A word is added to the list once.
LEMMA MatchAdded ==
    ASSUME NEW V, NEW list \in Seq(V), IsInjective(list), NEW w \in V
    PROVE  /\ AddMatch(list, w) \in Seq(V) /\ IsInjective(AddMatch(list, w))
           /\ ToSet(AddMatch(list, w)) = ToSet(list) \cup {w}
           /\ Len(AddMatch(list, w)) <= Len(list) + 1
<1>1. Len(list) \in Nat /\ DOMAIN list = 1 .. Len(list)
  OBVIOUS
<1>2. CASE w \in ToSet(list)
  <2>1. AddMatch(list, w) = list
    BY <1>2 DEF AddMatch
  <2> QED
    BY <1>1, <1>2, <2>1
<1>3. CASE w \notin ToSet(list)
  <2> DEFINE a == Append(list, w)
  <2>1. AddMatch(list, w) = a
    BY <1>3 DEF AddMatch
  <2>2. /\ a \in Seq(V) /\ Len(a) = Len(list) + 1 /\ DOMAIN a = 1 .. Len(list) + 1
        /\ a[Len(list) + 1] = w /\ \A k \in 1 .. Len(list) : a[k] = list[k]
    BY <1>1
  <2> HIDE DEF a
  <2>3. \A k \in 1 .. Len(list) + 1 : k = Len(list) + 1 \/ k \in 1 .. Len(list)
    BY <1>1
  <2>4. \A k \in 1 .. Len(list) : list[k] # w
    BY <1>1, <1>3 DEF ToSet
  <2>5. IsInjective(a)
    BY <1>1, <2>2, <2>3, <2>4 DEF IsInjective
  <2>6. ToSet(a) = ToSet(list) \cup {w}
    <3>1. \A k \in 1 .. Len(list) : k \in 1 .. Len(list) + 1
      BY <1>1
    <3>2. Len(list) + 1 \in 1 .. Len(list) + 1
      BY <1>1
    <3> QED
      BY <1>1, <2>2, <2>3, <3>1, <3>2 DEF ToSet
  <2> QED
    BY <1>1, <2>1, <2>2, <2>5, <2>6
<1> QED
  BY <1>2, <1>3

\* Where a dictionary's list has matches.
MatchesOf(d) == { k \in Nat : ListOf(d)[k] \in matches }

\* The matches that are taken, as the first ones of all matches.
LEMMA AiIndexIs ==
    ASSUME NEW d, Len(ListOf(d)) \in Nat
    PROVE  /\ AiIndex(d) = FirstBelow(MatchesOf(d), MAX_MATCH_ITEM_PER_LIB, Len(ListOf(d)))
           /\ \A n \in Nat : Matches(d, n) = Below(MatchesOf(d), n)
<1>1. \A n \in Nat : Matches(d, n) = Below(MatchesOf(d), n)
  BY DEF Matches, Below, MatchesOf
<1>2. \A k \in Below(MatchesOf(d), Len(ListOf(d))) :
          Matches(d, k - 1) = Below(MatchesOf(d), k - 1)
  BY <1>1 DEF Below
<1> QED
  BY <1>1, <1>2 DEF AiIndex, FirstBelow

\* A dictionary's first matches are added to the list, and nothing else.
LEMMA MatchesAdded ==
    ASSUME NEW d, ListOf(d) \in Seq(Word), NEW list \in Seq(matches), IsInjective(list)
    PROVE  /\ AddMatches(list, d) \in Seq(matches) /\ IsInjective(AddMatches(list, d))
           /\ Len(AddMatches(list, d)) <= Len(list) + MAX_MATCH_ITEM_PER_LIB
           /\ ToSet(list) \subseteq ToSet(AddMatches(list, d))
           /\ \A k \in AiIndex(d) : ListOf(d)[k] \in ToSet(AddMatches(list, d))
<1> DEFINE n == Len(ListOf(d))
           V == Seq(matches)
           M == MatchesOf(d)
           max == MAX_MATCH_ITEM_PER_LIB
           NextList(v, k) == IF k \in AiIndex(d) THEN AddMatch(v, ListOf(d)[k]) ELSE v
           F == [x \in V \X (1 .. n) |-> NextList(x[1], x[2])]
           Next1(r, k) == IF k = 0 THEN list
                          ELSE IF k \in AiIndex(d) THEN AddMatch(r[k - 1], ListOf(d)[k])
                          ELSE r[k - 1]
           Is(r) == r = [k \in 0 .. n |-> Next1(r, k)]
           f == CHOOSE r : Is(r)
<1>1. AddMatches(list, d) = f[n]
  BY DEF AddMatches
<1>2. n \in Nat /\ list \in V /\ max \in Nat
  BY SizesAssumption
<1>3. \A k \in AiIndex(d) : k \in 1 .. n /\ ListOf(d)[k] \in matches
  BY <1>2 DEF AiIndex, Matches
<1>4. \A v \in V, k \in 1 .. n : NextList(v, k) \in V
  <2>1. \A v \in V, w \in matches : AddMatch(v, w) \in V
    BY DEF AddMatch
  <2> QED
    BY <1>3, <2>1
<1>5. F \in [V \X (1 .. n) -> V] /\ \A v \in V, k \in 1 .. n : F[<<v, k>>] = NextList(v, k)
  BY <1>4
<1> HIDE DEF F
<1>6. PICK r \in [0 .. n -> V] : Steps(r, n, list, F)
  <2> HIDE DEF V, n
  <2> QED
    BY <1>2, <1>5, StepsExist
<1>7. Is(r)
  <2>1. \A k \in 0 .. n : k # 0 => k \in 1 .. n /\ k - 1 \in 0 .. n
    BY <1>2
  <2>2. \A k \in 0 .. n : r[k] = Next1(r, k)
    <3> HIDE DEF V
    <3> QED
      BY <1>5, <1>6, <2>1 DEF Steps
  <2>3. r = [k \in 0 .. n |-> r[k]]
    OBVIOUS
  <2> HIDE DEF Next1
  <2> QED
    BY <2>2, <2>3
<1>8. Is(f)
  <2> HIDE DEF Is
  <2> QED
    BY <1>7
<1> DEFINE Right(k) == /\ f[k] \in V /\ IsInjective(f[k])
                       /\ Len(f[k]) <= Len(list) + Cardinality(FirstBelow(M, max, k))
                       /\ ToSet(list) \subseteq ToSet(f[k])
                       /\ \A i \in AiIndex(d) : i <= k => ListOf(d)[i] \in ToSet(f[k])
           S == { k \in Nat : k <= n => Right(k) }
<1>9. f[0] = list /\ \A k \in 1 .. n : f[k] = NextList(f[k - 1], k)
  <2>1. 0 \in 0 .. n /\ \A k \in 1 .. n : k \in 0 .. n /\ k # 0
    BY <1>2
  <2> HIDE DEF f
  <2> QED
    BY <1>8, <2>1
<1> HIDE DEF f, M
<1>a. \A k \in Nat : /\ IsFiniteSet(FirstBelow(M, max, k))
                     /\ Cardinality(FirstBelow(M, max, k)) \in Nat
                     /\ Cardinality(FirstBelow(M, max, k)) <= max
  <2> SUFFICES ASSUME NEW k \in Nat
               PROVE  /\ IsFiniteSet(FirstBelow(M, max, k))
                      /\ Cardinality(FirstBelow(M, max, k)) \in Nat
                      /\ Cardinality(FirstBelow(M, max, k)) <= max
    OBVIOUS
  <2> HIDE DEF max
  <2>1. Cardinality(Below(M, k)) \in Nat
    BY BelowFinite
  <2>2. /\ IsFiniteSet(FirstBelow(M, max, k))
        /\ Cardinality(FirstBelow(M, max, k)) =
              IF Cardinality(Below(M, k)) < max THEN Cardinality(Below(M, k)) ELSE max
    BY <1>2, HowManyFirst
  <2> QED
    BY <1>2, <2>1, <2>2
<1>10. 0 \in S
  <2>1. f[0] \in V /\ IsInjective(f[0]) /\ ToSet(list) \subseteq ToSet(f[0])
    BY <1>2, <1>9
  <2>2. \A i \in AiIndex(d) : ~(i <= 0)
    BY <1>2, <1>3
  <2>3. Len(f[0]) <= Len(list) + Cardinality(FirstBelow(M, max, 0))
    <3>1. Len(list) \in Nat /\ Cardinality(FirstBelow(M, max, 0)) \in Nat
      BY <1>2, <1>a
    <3> QED
      BY <1>9, <3>1
  <2>4. Right(0)
    BY <2>1, <2>2, <2>3
  <2> QED
    BY <2>4
<1>11. ASSUME NEW k \in 0 .. n - 1, k \in S PROVE k + 1 \in S
  <2>1. k \in Nat /\ k <= n /\ k + 1 \in 1 .. n /\ (k + 1) - 1 = k /\ k + 1 \in Nat
    BY <1>2
  <2>2. Right(k)
    BY <1>11, <2>1
  <2>3. f[k + 1] = NextList(f[k], k + 1)
    BY <1>9, <2>1
  <2>4. AiIndex(d) = FirstBelow(M, max, n)
    BY <1>2, AiIndexIs DEF M
  <2>5. \A i \in AiIndex(d) : i <= k + 1 => i <= k \/ i = k + 1
    BY <1>3, <2>1
  <2>6. CASE k + 1 \in AiIndex(d)
    <3>1. f[k + 1] = AddMatch(f[k], ListOf(d)[k + 1]) /\ ListOf(d)[k + 1] \in matches
      BY <1>3, <2>3, <2>6
    <3>2. /\ f[k + 1] \in V /\ IsInjective(f[k + 1]) /\ Len(f[k + 1]) <= Len(f[k]) + 1
          /\ ToSet(f[k + 1]) = ToSet(f[k]) \cup {ListOf(d)[k + 1]}
      <4> DEFINE g == f[k]
                 w == ListOf(d)[k + 1]
      <4>1. g \in Seq(matches) /\ IsInjective(g) /\ w \in matches
        BY <2>2, <3>1
      <4>2. f[k + 1] = AddMatch(g, w)
        BY <3>1
      <4> HIDE DEF g, w
      <4>3. /\ f[k + 1] \in V /\ IsInjective(f[k + 1]) /\ Len(f[k + 1]) <= Len(g) + 1
            /\ ToSet(f[k + 1]) = ToSet(g) \cup {w}
        BY <4>1, <4>2, MatchAdded
      <4> QED
        BY <4>3 DEF g, w
    <3>3. /\ FirstBelow(M, max, k + 1) = FirstBelow(M, max, k) \cup {k + 1}
          /\ k + 1 \notin FirstBelow(M, max, k)
      <4> DEFINE Few(i) == Cardinality(Below(M, i - 1)) < max
      <4>1. \A j \in Nat : FirstBelow(M, max, j) = { i \in Below(M, j) : Few(i) }
        BY DEF FirstBelow
      <4>2. k + 1 \in M /\ Few(k + 1)
        BY <1>2, <2>4, <2>6 DEF FirstBelow, Below
      <4> HIDE DEF Few
      <4>3. Below(M, k + 1) = Below(M, k) \cup {k + 1} /\ k + 1 \notin Below(M, k)
        BY <2>1, <4>2, BelowNext
      <4> QED
        BY <2>1, <4>1, <4>2, <4>3
    <3> DEFINE C == FirstBelow(M, max, k)
    <3>4. IsFiniteSet(C) /\ Cardinality(C) \in Nat /\ k + 1 \notin C
      BY <1>a, <2>1, <3>3
    <3> HIDE DEF C
    <3>5. Cardinality(C \cup {k + 1}) = Cardinality(C) + 1
      BY <3>4, FS_AddElement
    <3>6. Cardinality(FirstBelow(M, max, k + 1)) = Cardinality(FirstBelow(M, max, k)) + 1
      BY <3>3, <3>5 DEF C
    <3>7. Len(f[k]) \in Nat /\ Len(f[k + 1]) \in Nat /\ Len(list) \in Nat
      BY <1>2, <2>2, <3>2
    <3>8. Len(f[k + 1]) <= Len(list) + Cardinality(FirstBelow(M, max, k + 1))
      <4>1. /\ Cardinality(FirstBelow(M, max, k)) \in Nat
            /\ Len(f[k]) <= Len(list) + Cardinality(FirstBelow(M, max, k))
        BY <1>a, <2>1, <2>2
      <4> HIDE DEF Right, V, max
      <4> QED
        BY <3>2, <3>6, <3>7, <4>1
    <3>9. Right(k + 1)
      BY <2>2, <2>5, <3>2, <3>8
    <3> QED
      BY <2>1, <3>9
  <2>7. CASE k + 1 \notin AiIndex(d)
    <3>1. f[k + 1] = f[k]
      BY <2>3, <2>7
    <3>2. FirstBelow(M, max, k) \subseteq FirstBelow(M, max, k + 1)
      BY <2>1 DEF FirstBelow, Below
    <3>3. Cardinality(FirstBelow(M, max, k)) <= Cardinality(FirstBelow(M, max, k + 1))
      BY <1>a, <2>1, <3>2, FS_Subset
    <3>4. Len(f[k]) \in Nat /\ Len(list) \in Nat
      BY <1>2, <2>2
    <3>5. /\ Cardinality(FirstBelow(M, max, k)) \in Nat
          /\ Cardinality(FirstBelow(M, max, k + 1)) \in Nat
      BY <1>a, <2>1
    <3>6. Right(k + 1)
      BY <2>2, <2>5, <2>7, <3>1, <3>3, <3>4, <3>5
    <3> QED
      BY <2>1, <3>6
  <2> QED
    BY <2>6, <2>7
<1>12. n \in S
  <2> HIDE DEF S, n
  <2> QED
    BY <1>2, <1>10, <1>11, UpTo
<1>13. Right(n)
  BY <1>2, <1>12
<1>14. Cardinality(FirstBelow(M, max, n)) \in Nat /\ Cardinality(FirstBelow(M, max, n)) <= max
  BY <1>2, <1>a
<1>15. Len(f[n]) \in Nat /\ Len(list) \in Nat
  BY <1>2, <1>13
<1>16. \A k \in AiIndex(d) : k <= n
  BY <1>2, <1>3
<1> QED
  BY <1>1, <1>2, <1>13, <1>14, <1>15, <1>16
-----------------------------------------------------------------------------
(* The kind of a phrase. *)

ScanState == [res : Word, escape : BOOLEAN, regexp : BOOLEAN]
ScanBegin == [res |-> <<>>, escape |-> FALSE, regexp |-> FALSE]

\* What a character of the phrase does to what was read before it.
LEMMA CharScanned ==
    ASSUME NEW s \in ScanState, NEW c \in Chars
    PROVE  TakeChar(s, c) \in ScanState
<1>1. s.res \in Word /\ Append(s.res, c) \in Word
  BY DEF ScanState, Word
<1>2. CASE c = "\\" /\ ~s.escape
  <2>1. TakeChar(s, c) = [s EXCEPT !.escape = TRUE]
    BY <1>2 DEF TakeChar
  <2> QED
    BY <2>1 DEF ScanState
<1>3. CASE ~(c = "\\" /\ ~s.escape)
  <2> DEFINE again == s.regexp \/ (~s.escape /\ c \in {"*", "?"})
  <2>1. TakeChar(s, c) = [res |-> Append(s.res, c), escape |-> FALSE, regexp |-> again]
    BY <1>3 DEF TakeChar
  <2>2. again \in BOOLEAN
    OBVIOUS
  <2> HIDE DEF again
  <2> QED
    BY <1>1, <2>1, <2>2 DEF ScanState
<1> QED
  BY <1>2, <1>3

\* What is left of a phrase without its backslashes is a word.
LEMMA ScanIs ==
    ASSUME NEW s \in Word
    PROVE  Scan(s) \in ScanState
<1> DEFINE n == Len(s)
           F == [x \in ScanState \X (1 .. n) |-> TakeChar(x[1], s[x[2]])]
           Next1(r, k) == IF k = 0 THEN ScanBegin ELSE TakeChar(r[k - 1], s[k])
           Is(r) == r = [k \in 0 .. n |-> Next1(r, k)]
           f == CHOOSE r : Is(r)
<1>1. Scan(s) = f[n]
  BY DEF Scan, ScanBegin
<1>2. n \in Nat /\ \A k \in 1 .. n : s[k] \in Chars
  BY ElementOfSeq DEF Word
<1>3. ScanBegin \in ScanState
  <2>1. <<>> \in Word
    BY DEF Word
  <2> QED
    BY <2>1 DEF ScanBegin, ScanState
<1>4. F \in [ScanState \X (1 .. n) -> ScanState]
  BY <1>2, CharScanned
<1>5. \A v \in ScanState, k \in 1 .. n : F[<<v, k>>] = TakeChar(v, s[k])
  OBVIOUS
<1> HIDE DEF n, F
<1>6. PICK r \in [0 .. n -> ScanState] : Steps(r, n, ScanBegin, F)
  BY <1>2, <1>3, <1>4, StepsExist
<1>7. Is(r)
  <2>1. \A k \in 0 .. n : k # 0 => k \in 1 .. n /\ k - 1 \in 0 .. n
    BY <1>2
  <2>2. \A k \in 0 .. n : r[k] = Next1(r, k)
    BY <1>5, <1>6, <2>1 DEF Steps
  <2>3. r = [k \in 0 .. n |-> r[k]]
    OBVIOUS
  <2> HIDE DEF Next1
  <2> QED
    BY <2>2, <2>3
<1>8. Is(f)
  <2> HIDE DEF Is
  <2> QED
    BY <1>7
<1>9. /\ f[0] = ScanBegin /\ \A k \in 1 .. n : f[k] = TakeChar(f[k - 1], s[k])
  <2>1. 0 \in 0 .. n /\ \A k \in 1 .. n : k \in 0 .. n /\ k # 0
    BY <1>2
  <2> HIDE DEF f
  <2> QED
    BY <1>8, <2>1
<1> HIDE DEF f
<1> DEFINE S == { k \in Nat : k <= n => f[k] \in ScanState }
<1>10. 0 \in S
  BY <1>3, <1>9
<1>11. ASSUME NEW k \in 0 .. n - 1, k \in S PROVE k + 1 \in S
  <2>1. k <= n /\ k + 1 \in 1 .. n /\ (k + 1) - 1 = k /\ k + 1 \in Nat
    BY <1>2
  <2>2. f[k] \in ScanState /\ f[k + 1] = TakeChar(f[k], s[k + 1]) /\ s[k + 1] \in Chars
    BY <1>2, <1>9, <1>11, <2>1
  <2> QED
    BY <2>1, <2>2, CharScanned
<1>12. n \in S
  <2> HIDE DEF S
  <2> QED
    BY <1>2, <1>10, <1>11, UpTo
<1> QED
  BY <1>1, <1>2, <1>12

\* What analyze_query makes of a phrase that is not empty.
LEMMA AnalyzeIs ==
    ASSUME NEW s \in Word, s # <<>>
    PROVE  /\ AnalyzeQuery(s).kind \in {"fuzzy", "data", "regexp", "simple"}
           /\ AnalyzeQuery(s).query \in Word
<1>1. Scan(s).res \in Word
  BY ScanIs DEF ScanState
<1>2. Tail(s) \in Word
  BY DEF Word
<1>3. CASE Head(s) = "/"
  <2>1. AnalyzeQuery(s) = [kind |-> "fuzzy", query |-> Tail(s)]
    BY <1>3 DEF AnalyzeQuery
  <2> QED
    BY <1>2, <2>1
<1>4. CASE Head(s) # "/" /\ Head(s) = "|"
  <2>1. AnalyzeQuery(s) = [kind |-> "data", query |-> Tail(s)]
    BY <1>4 DEF AnalyzeQuery
  <2> QED
    BY <1>2, <2>1
<1>5. CASE Head(s) # "/" /\ Head(s) # "|"
  <2>1. AnalyzeQuery(s) =
          [kind |-> IF Scan(s).regexp THEN "regexp" ELSE "simple", query |-> Scan(s).res]
    BY <1>5 DEF AnalyzeQuery
  <2> QED
    BY <1>1, <2>1
<1> QED
  BY <1>3, <1>4, <1>5
-----------------------------------------------------------------------------
(* The invariant. *)

Similar == {"similar", "doubled", "ending"}

QueryTypes ==
    /\ \E l \in Libraries : dicts = l.dicts
    /\ no_fuzzy \in BOOLEAN
    /\ pc \in {"idle", "fuzzy", "data", "regexp", "lookup"} \cup Similar
    /\ plan \in Seq(Word)
    /\ matches \subseteq AllWords
    /\ pc \in {"data", "regexp", "lookup"} => lib \in 1 .. Len(dicts) + 1
    /\ pc \in Similar => plan # <<>> /\ lib \in 1 .. Len(dicts)

\* The list after n dictionaries.
Listed(n) ==
    /\ ppMatchWord \in Seq(matches) /\ IsInjective(ppMatchWord)
    /\ Len(ppMatchWord) <= MAX_MATCH_ITEM_PER_LIB * n
    /\ \A d \in 1 .. n : \A k \in AiIndex(d) : ListOf(d)[k] \in ToSet(ppMatchWord)
InPlace ==
    \A j, k \in DOMAIN ppMatchWord : j < k => Place(ppMatchWord[j]) <= Place(ppMatchWord[k])
ListInv ==
    /\ kind = "regexp" => IF pc = "regexp" THEN Listed(lib - 1) ELSE Listed(Len(dicts)) /\ InPlace
    /\ pc = "regexp" => kind = "regexp"
    /\ pc = "fuzzy" => kind = "fuzzy"

\* The words of the dictionaries are words, and have their place in the order.
LEMMA WordsOfDictionaries ==
    ASSUME \E l \in Libraries : dicts = l.dicts
    PROVE  /\ Len(dicts) \in Nat /\ DOMAIN dicts = 1 .. Len(dicts)
           /\ \A d \in DOMAIN dicts : /\ ListOf(d) \in Seq(Word)
                                      /\ ToSet(ListOf(d)) \subseteq Range(Order)
           /\ AllWords \subseteq Word /\ AllWords \subseteq Range(Order)
<1>1. PICK l \in Libraries : dicts = l.dicts
  OBVIOUS
<1>2. /\ dicts \in Seq(Range(dicts))
      /\ \A d \in DOMAIN dicts : /\ dicts[d].words \in Seq(Word)
                                 /\ ToSet(dicts[d].words) \subseteq Range(Order)
  BY <1>1, LibrariesAssumption
<1>3. Len(dicts) \in Nat /\ DOMAIN dicts = 1 .. Len(dicts)
  BY <1>2
<1>4. \A d \in DOMAIN dicts : ToSet(ListOf(d)) \subseteq Word
  <2>1. \A t \in Seq(Word) : ToSet(t) \subseteq Word
    BY DEF ToSet
  <2> QED
    BY <1>2, <2>1 DEF ListOf
<1> QED
  BY <1>2, <1>3, <1>4 DEF ListOf, AllWords

\* The types hold before the first phrase.
LEMMA QueryTypesBegin == Init => QueryTypes
<1> SUFFICES ASSUME Init PROVE QueryTypes
  OBVIOUS
<1>1. \E l \in Libraries : dicts = l.dicts
  BY DEF Init
<1>2. <<>> \in Seq(Word)
  OBVIOUS
<1> QED
  BY <1>1, <1>2 DEF Init, QueryTypes, Similar

\* They stay so.
LEMMA QueryTypesKept == QueryTypes /\ ListInv /\ [Next]_vars => QueryTypes'
<1> SUFFICES ASSUME QueryTypes, ListInv, [Next]_vars PROVE QueryTypes'
  OBVIOUS
<1>1. /\ Len(dicts) \in Nat /\ DOMAIN dicts = 1 .. Len(dicts)
      /\ \A d \in DOMAIN dicts : ListOf(d) \in Seq(Word)
      /\ AllWords \subseteq Word
  BY WordsOfDictionaries DEF QueryTypes
<1>2. UNCHANGED dicts => AllWords' = AllWords
  BY DEF AllWords, ListOf
<1>a. 1 \in 1 .. Len(dicts) + 1 /\ \A d \in 1 .. Len(dicts) : d \in 1 .. Len(dicts) + 1
                                                               /\ d + 1 \in 1 .. Len(dicts) + 1
  BY <1>1
<1>b. \A d \in 1 .. Len(dicts) + 1 : d <= Len(dicts) => d \in 1 .. Len(dicts)
  BY <1>1
<1>3. ASSUME NEW s \in Phrases, ProcessPhrase(s) PROVE QueryTypes'
  <2>1. /\ UNCHANGED <<dicts, no_fuzzy>>
        /\ kind' = IF s = NoWord THEN "none" ELSE AnalyzeQuery(s).kind
        /\ plan' = IF kind' = "simple" THEN <<AnalyzeQuery(s).query>> ELSE <<>>
        /\ pc' = CASE kind' = "none" -> "idle" [] kind' = "simple" -> "lookup"
                   [] OTHER -> kind'
        /\ IF kind' = "regexp" THEN matches' \in SUBSET AllWords ELSE matches' = {}
        /\ lib' = 1
    BY <1>3 DEF ProcessPhrase
  <2>2. s \in Word
    BY PhrasesAssumption
  <2>3. kind' \in {"none", "fuzzy", "data", "regexp", "simple"}
    BY <2>1, <2>2, AnalyzeIs DEF NoWord
  <2>4. plan' \in Seq(Word)
    <3>1. kind' = "simple" => AnalyzeQuery(s).query \in Word
      BY <2>1, <2>2, AnalyzeIs DEF NoWord
    <3> QED
      BY <2>1, <3>1
  <2>5. pc' \in {"idle", "fuzzy", "data", "regexp", "lookup"}
    BY <2>1, <2>3
  <2>6. matches' \subseteq AllWords'
    BY <2>1, <1>2
  <2> QED
    BY <2>1, <2>4, <2>5, <2>6, <1>a DEF QueryTypes, Similar
<1>4. CASE LookupWithFuzzy
  <2>1. plan' \in Seq(Word)
    <3>1. PICK n \in 0 .. MAXFUZZY : plan' \in [1 .. n -> AllWords]
      BY <1>4 DEF LookupWithFuzzy
    <3>2. n \in Nat /\ plan' \in [1 .. n -> Word]
      BY <3>1, <1>1, SizesAssumption
    <3> QED
      BY <3>2
  <2> QED
    BY <1>4, <2>1, <1>2, <1>a DEF LookupWithFuzzy, UnchangedQuery, QueryTypes, Similar
<1>5. CASE LookupData
  <2>1. CASE lib <= Len(dicts)
    <3>0. PICK n \in 0 .. Len(ListOf(lib)) : \E at \in [1 .. n -> DOMAIN ListOf(lib)] :
             plan' = plan \o [k \in 1 .. n |-> ListOf(lib)[at[k]]]
      BY <1>5, <2>1 DEF LookupData
    <3>1. PICK at \in [1 .. n -> DOMAIN ListOf(lib)] :
             plan' = plan \o [k \in 1 .. n |-> ListOf(lib)[at[k]]]
      BY <3>0
    <3>2. lib \in 1 .. Len(dicts) /\ lib \in DOMAIN dicts
      BY <1>5, <2>1, <1>1, <1>b DEF LookupData, QueryTypes
    <3>3. ListOf(lib) \in Seq(Word) /\ n \in Nat
      BY <3>2, <1>1
    <3> DEFINE more == [k \in 1 .. n |-> ListOf(lib)[at[k]]]
    <3>4. more \in Seq(Word)
      BY <3>3
    <3> HIDE DEF more
    <3>5. plan' \in Seq(Word)
      BY <3>1, <3>4 DEF QueryTypes, more
    <3> QED
      BY <1>5, <2>1, <3>2, <3>5, <1>2, <1>a DEF LookupData, UnchangedQuery, QueryTypes, Similar
  <2>2. CASE ~(lib <= Len(dicts))
    BY <1>5, <2>2, <1>2, <1>a DEF LookupData, UnchangedQuery, QueryTypes, Similar
  <2> QED
    BY <2>1, <2>2
<1>6. CASE LookupWithRule
  BY <1>6, <1>2, <1>a, <1>b DEF LookupWithRule, page, QueryTypes, Similar
<1>7. CASE SortMatches
  <2>1. ppMatchWord \in Seq(matches) /\ matches \subseteq Word
    BY <1>7, <1>1 DEF SortMatches, ListInv, Listed, QueryTypes
  <2>2. PICK p \in [DOMAIN ppMatchWord -> DOMAIN ppMatchWord] :
           plan' = [k \in DOMAIN ppMatchWord |-> ppMatchWord[p[k]]]
    BY <1>7 DEF SortMatches
  <2>3. plan' \in Seq(Word)
    <3> DEFINE n == Len(ppMatchWord)
    <3>1. n \in Nat /\ DOMAIN ppMatchWord = 1 .. n /\ \A k \in 1 .. n : ppMatchWord[k] \in Word
      BY <2>1
    <3> HIDE DEF n
    <3>2. plan' \in [1 .. n -> Word]
      BY <2>2, <3>1
    <3> QED
      BY <3>1, <3>2
  <2> QED
    BY <1>7, <2>3, <1>2, <1>a DEF SortMatches, page, QueryTypes, Similar
<1>8. CASE PlanDone
  BY <1>8, <1>2 DEF PlanDone, QueryTypes, Similar
<1>9. CASE SimpleLookupFound \/ SimpleLookupMissed
  BY <1>9, <1>2, <1>a, <1>b DEF SimpleLookupFound, SimpleLookupMissed, NextDictionary,
     UnchangedQuery, UnchangedSimilar, QueryTypes, Similar
<1>10. CASE WordDone
  <2>1. Tail(plan) \in Seq(Word)
    BY <1>10 DEF WordDone, QueryTypes
  <2> QED
    BY <1>10, <2>1, <1>2, <1>a DEF WordDone, UnchangedQuery, QueryTypes, Similar
<1>11. CASE IgnoreCase
  BY <1>11, <1>2, <1>a DEF IgnoreCase, Found, Missed, NextRule, NextDictionary, UnchangedQuery,
     QueryTypes, Similar
<1>12. CASE StartRule \/ SkipRule
  BY <1>12, <1>2 DEF StartRule, SkipRule, NextRule, UnchangedQuery, QueryTypes, Similar
<1>13. CASE TryDoubled
  BY <1>13, <1>2, <1>a DEF TryDoubled, Found, Missed, NextDictionary, UnchangedQuery,
     QueryTypes, Similar
<1>14. CASE TryEnding
  BY <1>14, <1>2, <1>a DEF TryEnding, Found, Missed, NextRule, NextDictionary, UnchangedQuery,
     QueryTypes, Similar
<1>15. CASE NothingSimilar
  BY <1>15, <1>2, <1>a DEF NothingSimilar, NextDictionary, UnchangedQuery, QueryTypes, Similar
<1>16. CASE UNCHANGED vars
  BY <1>16, <1>2 DEF vars, QueryTypes
<1> QED
  BY <1>3, <1>4, <1>5, <1>6, <1>7, <1>8, <1>9, <1>10, <1>11, <1>12, <1>13, <1>14, <1>15, <1>16
     DEF Next, Step
-----------------------------------------------------------------------------
(* The search by a rule. *)

\* So does what is said of the list, which is empty.
LEMMA ListBegins == Init => ListInv
BY DEF Init, ListInv

\* Nothing but the search itself touches the list.
LEMMA ListStays ==
    ASSUME ListInv, UNCHANGED <<dicts, matches, ppMatchWord>>,
           kind' = "regexp" => kind = "regexp" /\ pc # "regexp" /\ pc' # "regexp",
           pc' # "regexp", pc' = "fuzzy" => kind' = "fuzzy"
    PROVE  ListInv'
<1>1. Listed(Len(dicts))' <=> Listed(Len(dicts))
  BY DEF Listed, AiIndex, Matches, ListOf
<1>2. InPlace' <=> InPlace
  BY DEF InPlace
<1> QED
  BY <1>1, <1>2 DEF ListInv

\* One dictionary more.
LEMMA DictionaryListed ==
    ASSUME QueryTypes, ListInv, LookupWithRule
    PROVE  ListInv'
<1>1. /\ pc = "regexp" /\ lib <= Len(dicts) /\ lib' = lib + 1
      /\ ppMatchWord' = AddMatches(ppMatchWord, lib)
      /\ UNCHANGED <<dicts, kind, pc, matches>>
  BY DEF LookupWithRule
<1>2. Len(dicts) \in Nat /\ lib \in 1 .. Len(dicts) /\ ListOf(lib) \in Seq(Word)
  BY <1>1, WordsOfDictionaries DEF QueryTypes
<1> DEFINE list == ppMatchWord
           new == ppMatchWord'
           n == lib - 1
           max == MAX_MATCH_ITEM_PER_LIB
<1>3. Listed(n)
  BY <1>1 DEF ListInv
<1>4. list \in Seq(matches) /\ IsInjective(list)
  BY <1>3 DEF Listed
<1>5. /\ new \in Seq(matches) /\ IsInjective(new)
      /\ Len(new) <= Len(list) + max
      /\ ToSet(list) \subseteq ToSet(new)
      /\ \A k \in AiIndex(lib) : ListOf(lib)[k] \in ToSet(new)
  BY <1>1, <1>2, <1>4, MatchesAdded
<1>6. \A d : AiIndex(d)' = AiIndex(d) /\ ListOf(d)' = ListOf(d)
  BY <1>1 DEF AiIndex, Matches, ListOf
<1>7. Len(new) <= max * lib
  <2>1. Len(list) <= max * n
    BY <1>3 DEF Listed
  <2>2. Len(list) \in Nat /\ Len(new) \in Nat
    BY <1>4, <1>5
  <2>3. lib \in Nat /\ max \in Nat /\ max * n \in Int /\ max * lib \in Int
        /\ max * lib = max * n + max
    BY <1>2, SizesAssumption
  <2> HIDE DEF max, n
  <2> QED
    BY <1>5, <2>1, <2>2, <2>3
<1>8. \A d \in 1 .. lib : \A k \in AiIndex(d) : ListOf(d)[k] \in ToSet(new)
  <2>1. \A d \in 1 .. lib : d = lib \/ d \in 1 .. n
    BY <1>2
  <2> QED
    BY <1>3, <1>5, <2>1 DEF Listed
<1>9. lib' - 1 = lib
  BY <1>1, <1>2
<1>10. Listed(lib - 1)'
  <2> DEFINE Is(m) == /\ new \in Seq(matches') /\ IsInjective(new)
                      /\ Len(new) <= max * m
                      /\ \A d \in 1 .. m : \A k \in AiIndex(d)' : ListOf(d)'[k] \in ToSet(new)
  <2>1. Is(lib' - 1)
    BY <1>1, <1>5, <1>6, <1>7, <1>8, <1>9
  <2> QED
    BY <2>1 DEF Listed
<1> QED
  BY <1>1, <1>10 DEF ListInv

\* Sorting keeps the words, each once.
LEMMA ListSorted ==
    ASSUME QueryTypes, ListInv, SortMatches
    PROVE  ListInv'
<1>1. /\ pc = "regexp" /\ lib > Len(dicts) /\ pc' = "lookup"
      /\ UNCHANGED <<dicts, kind, matches>>
      /\ \A j, k \in DOMAIN ppMatchWord' :
            j < k => Place(ppMatchWord'[j]) <= Place(ppMatchWord'[k])
  BY DEF SortMatches
<1>2. Len(dicts) \in Nat /\ lib \in 1 .. Len(dicts) + 1
  BY <1>1, WordsOfDictionaries DEF QueryTypes
<1>3. Listed(Len(dicts))
  <2>1. lib - 1 = Len(dicts)
    BY <1>1, <1>2
  <2> QED
    BY <1>1, <2>1 DEF ListInv
<1> DEFINE list == ppMatchWord
           new == ppMatchWord'
           n == Len(list)
<1>4. list \in Seq(matches) /\ IsInjective(list)
  BY <1>3 DEF Listed
<1>5. n \in Nat /\ DOMAIN list = 1 .. n /\ \A k \in 1 .. n : list[k] \in matches
  BY <1>4
<1>6. PICK p \in [1 .. n -> 1 .. n] : IsInjective(p) /\ new = [k \in 1 .. n |-> list[p[k]]]
  BY <1>5 DEF SortMatches
<1>7. new \in Seq(matches) /\ Len(new) = n /\ DOMAIN new = 1 .. n
  <2>1. new \in [1 .. n -> matches]
    BY <1>5, <1>6
  <2> HIDE DEF n
  <2> QED
    BY <1>5, <2>1
<1>8. IsInjective(new)
  BY <1>4, <1>5, <1>6, <1>7 DEF IsInjective
<1>9. \A i \in 1 .. n : \E k \in 1 .. n : p[k] = i
  <2>1. IsFiniteSet(1 .. n)
    BY <1>5, FS_Interval
  <2>2. p \in Injection(1 .. n, 1 .. n)
    BY <1>6 DEF Injection, IsInjective
  <2>3. p \in Surjection(1 .. n, 1 .. n)
    BY <2>1, <2>2, FS_Injection
  <2> QED
    BY <2>3 DEF Surjection
<1>10. ToSet(new) = ToSet(list)
  BY <1>5, <1>6, <1>7, <1>9 DEF ToSet
<1>11. \A d : AiIndex(d)' = AiIndex(d) /\ ListOf(d)' = ListOf(d)
  BY <1>1 DEF AiIndex, Matches, ListOf
<1>12. Listed(Len(dicts))'
  <2> DEFINE Is(m) == /\ new \in Seq(matches') /\ IsInjective(new)
                      /\ Len(new) <= MAX_MATCH_ITEM_PER_LIB * m
                      /\ \A d \in 1 .. m : \A k \in AiIndex(d)' : ListOf(d)'[k] \in ToSet(new)
  <2>1. Is(Len(dicts)')
    BY <1>1, <1>3, <1>7, <1>8, <1>10, <1>11 DEF Listed
  <2> QED
    BY <2>1 DEF Listed
<1>13. InPlace'
  BY <1>1 DEF InPlace
<1> QED
  BY <1>1, <1>12, <1>13 DEF ListInv

\* Every step keeps what is said of the list.
LEMMA ListKept == QueryTypes /\ ListInv /\ [Next]_vars => ListInv'
<1> SUFFICES ASSUME QueryTypes, ListInv, [Next]_vars PROVE ListInv'
  OBVIOUS
<1>1. ASSUME NEW s \in Phrases, ProcessPhrase(s) PROVE ListInv'
  <2>1. /\ UNCHANGED dicts /\ ppMatchWord' = <<>> /\ lib' = 1
        /\ kind' = IF s = NoWord THEN "none" ELSE AnalyzeQuery(s).kind
        /\ pc' = CASE kind' = "none" -> "idle" [] kind' = "simple" -> "lookup"
                   [] OTHER -> kind'
    BY <1>1 DEF ProcessPhrase
  <2>2. s \in Word
    BY PhrasesAssumption
  <2>3. kind' \in {"none", "fuzzy", "data", "regexp", "simple"}
    BY <2>1, <2>2, AnalyzeIs DEF NoWord
  <2>4. (kind' = "regexp" => pc' = "regexp") /\ (pc' = "regexp" => kind' = "regexp")
        /\ (pc' = "fuzzy" => kind' = "fuzzy")
    BY <2>1, <2>3
  <2>5. Listed(lib - 1)'
    <3>1. lib' - 1 = 0 /\ \A d \in 1 .. lib' - 1 : FALSE
      BY <2>1
    <3>2. Len(<<>>) <= MAX_MATCH_ITEM_PER_LIB * 0
      BY SizesAssumption
    <3>3. <<>> \in Seq(matches') /\ IsInjective(<<>>)
      BY DEF IsInjective
    <3> QED
      BY <2>1, <3>1, <3>2, <3>3 DEF Listed
  <2> QED
    BY <2>4, <2>5 DEF ListInv
<1>2. CASE LookupWithRule
  BY <1>2, DictionaryListed
<1>3. CASE SortMatches
  BY <1>3, ListSorted
<1>4. CASE LookupWithFuzzy \/ LookupData \/ PlanDone
  BY <1>4, ListStays DEF LookupWithFuzzy, LookupData, PlanDone, UnchangedQuery
<1>5. CASE SimpleLookupFound \/ SimpleLookupMissed \/ WordDone
  BY <1>5, ListStays DEF SimpleLookupFound, SimpleLookupMissed, WordDone, NextDictionary,
     UnchangedQuery
<1>6. CASE IgnoreCase \/ StartRule \/ SkipRule \/ TryDoubled \/ TryEnding \/ NothingSimilar
  BY <1>6, ListStays DEF IgnoreCase, StartRule, SkipRule, TryDoubled, TryEnding, NothingSimilar,
     Found, Missed, NextRule, NextDictionary, UnchangedQuery
<1>7. CASE UNCHANGED vars
  <2>1. UNCHANGED <<dicts, matches, ppMatchWord, kind, pc, lib>>
    BY <1>7 DEF vars
  <2>2. \A d : AiIndex(d)' = AiIndex(d) /\ ListOf(d)' = ListOf(d)
    BY <2>1 DEF AiIndex, Matches, ListOf
  <2> QED
    BY <2>1, <2>2 DEF ListInv, Listed, InPlace
<1> QED
  BY <1>1, <1>2, <1>3, <1>4, <1>5, <1>6, <1>7 DEF Next, Step

\* Two words have two places.
LEMMA PlacesDiffer ==
    ASSUME NEW v \in Range(Order), NEW w \in Range(Order), Place(v) = Place(w)
    PROVE  v = w
<1>1. \A x \in Range(Order) : Order[Place(x)] = x
  <2> SUFFICES ASSUME NEW x \in Range(Order) PROVE Order[Place(x)] = x
    OBVIOUS
  <2>1. \E k \in DOMAIN Order : Order[k] = x
    BY DEF Range
  <2> QED
    BY <2>1 DEF Place
<1> QED
  BY <1>1

\* A rule search finds the first matches of every dictionary, each once and in order.
LEMMA RuleSearchIs == QueryTypes /\ ListInv => RuleSearch
<1> SUFFICES ASSUME QueryTypes, ListInv, kind = "regexp", pc = "lookup" PROVE RuleSearch
  BY DEF RuleSearch
<1> DEFINE list == ppMatchWord
           max == MAX_MATCH_ITEM_PER_LIB
<1>1. Listed(Len(dicts)) /\ InPlace
  BY DEF ListInv
<1>2. /\ list \in Seq(matches) /\ IsInjective(list) /\ Len(list) <= max * Len(dicts)
      /\ \A d \in 1 .. Len(dicts) : \A k \in AiIndex(d) : ListOf(d)[k] \in ToSet(list)
  BY <1>1 DEF Listed
<1>3. /\ Len(dicts) \in Nat /\ DOMAIN dicts = 1 .. Len(dicts)
      /\ \A d \in DOMAIN dicts : ListOf(d) \in Seq(Word)
      /\ matches \subseteq Range(Order)
  BY WordsOfDictionaries DEF QueryTypes
<1>4. DOMAIN list = 1 .. Len(list) /\ Len(list) \in Nat /\ ToSet(list) \subseteq matches
      /\ \A k \in DOMAIN list : list[k] \in matches
  BY <1>2 DEF ToSet
<1>5. ASSUME NEW j \in DOMAIN list, NEW k \in DOMAIN list, j < k
      PROVE  Place(list[j]) < Place(list[k])
  <2>1. Place(list[j]) <= Place(list[k])
    BY <1>1, <1>5 DEF InPlace
  <2>2. list[j] # list[k]
    <3>1. j # k
      BY <1>4, <1>5
    <3> QED
      BY <1>2, <3>1 DEF IsInjective
  <2>3. Place(list[j]) # Place(list[k])
    BY <1>3, <1>4, <2>2, PlacesDiffer
  <2>4. Place(list[j]) \in Int /\ Place(list[k]) \in Int
    <3>1. \A x \in Range(Order) : Place(x) \in DOMAIN Order
      BY DEF Range, Place
    <3> QED
      BY <1>3, <1>4, <3>1, OrderAssumption
  <2> QED
    BY <2>1, <2>3, <2>4
<1>6. ASSUME NEW d \in DOMAIN dicts, NEW k \in DOMAIN ListOf(d),
             ListOf(d)[k] \in matches \ ToSet(list)
      PROVE  Cardinality({ j \in 1 .. k - 1 : ListOf(d)[j] \in ToSet(list) }) >= max
  <2> DEFINE n == Len(ListOf(d))
             M == MatchesOf(d)
             kept == { j \in 1 .. k - 1 : ListOf(d)[j] \in ToSet(list) }
  <2>1. n \in Nat /\ k \in 1 .. n /\ k - 1 \in Nat /\ max \in Nat
    BY <1>3, SizesAssumption
  <2>2. AiIndex(d) = FirstBelow(M, max, n)
    BY <2>1, AiIndexIs
  <2>3. k \notin AiIndex(d)
    BY <1>2, <1>3, <1>6
  <2>4. k \in Below(M, n)
    BY <1>6, <2>1 DEF Below, MatchesOf
  <2>5. ~(Cardinality(Below(M, k - 1)) < max)
    BY <2>2, <2>3, <2>4 DEF FirstBelow
  <2>6. Cardinality(FirstBelow(M, max, k - 1)) = max
    BY <2>1, <2>5, HowManyFirst
  <2>7. FirstBelow(M, max, k - 1) \subseteq AiIndex(d) /\ FirstBelow(M, max, k - 1) \subseteq 1 .. k - 1
    BY <2>1, <2>2 DEF FirstBelow, Below
  <2>8. FirstBelow(M, max, k - 1) \subseteq kept
    BY <1>2, <1>3, <2>7
  <2>9. IsFiniteSet(kept)
    <3>1. IsFiniteSet(1 .. k - 1) /\ kept \subseteq 1 .. k - 1
      BY <2>1, FS_Interval
    <3> QED
      BY <3>1, FS_Subset
  <2>10. Cardinality(kept) \in Nat
    BY <2>9, FS_CardinalityType
  <2> HIDE DEF kept, M
  <2>11. max <= Cardinality(kept)
    BY <2>6, <2>8, <2>9, FS_Subset
  <2> QED
    BY <2>1, <2>10, <2>11 DEF kept
<1> QED
  BY <1>2, <1>4, <1>5, <1>6 DEF RuleSearch
-----------------------------------------------------------------------------
(* Beginnings and ends of words, and what is in a buffer. *)

\* A beginning of a word.
LEMMA PrefixIs ==
    ASSUME NEW w \in Word, NEW k \in 0 .. Len(w)
    PROVE  /\ Prefix(w, k) \in Word /\ Len(Prefix(w, k)) = k
           /\ \A j \in 1 .. k : Prefix(w, k)[j] = w[j]
BY DEF Prefix, Word

\* Words are equal when their characters are.
LEMMA SameWord ==
    ASSUME NEW v \in Word, NEW w \in Word, Len(v) = Len(w), \A j \in 1 .. Len(v) : v[j] = w[j]
    PROVE  v = w
BY DEF Word

\* A word with one character more.
LEMMA AppendIs ==
    ASSUME NEW w \in Word, NEW c \in Chars
    PROVE  /\ Append(w, c) \in Word /\ Len(Append(w, c)) = Len(w) + 1
           /\ \A j \in 1 .. Len(w) : Append(w, c)[j] = w[j]
           /\ Append(w, c)[Len(w) + 1] = c
           /\ w \o <<c>> = Append(w, c) /\ w \o <<>> = w
<1>1. /\ Append(w, c) \in Word /\ Len(Append(w, c)) = Len(w) + 1
      /\ \A j \in 1 .. Len(w) : Append(w, c)[j] = w[j]
      /\ Append(w, c)[Len(w) + 1] = c
  BY DEF Word
<1>2. w \o <<c>> = Append(w, c) /\ w \o <<>> = w
  BY DEF Word
<1> QED
  BY <1>1, <1>2

\* The buffer holds the word u.
Holds(buf, u) ==
    /\ buf \in Seq(Chars \cup {NUL}) /\ u \in Word /\ Len(u) < Len(buf)
    /\ \A j \in 1 .. Len(u) : buf[j] = u[j]
    /\ buf[Len(u) + 1] = NUL

\* What a C string is: the characters before the first NUL.
LEMMA HeldIs ==
    ASSUME NEW buf, NEW u, Holds(buf, u)
    PROVE  CString(buf) = u
<1> DEFINE n == Len(u)
<1>1. /\ buf \in Seq(Chars \cup {NUL}) /\ u \in Word /\ n \in Nat /\ Len(buf) \in Nat
      /\ n < Len(buf) /\ (\A j \in 1 .. n : buf[j] = u[j]) /\ buf[n + 1] = NUL
  BY DEF Holds, Word
<1>2. \A j \in 1 .. n : u[j] \in Chars
  BY <1>1, ElementOfSeq DEF Word
<1>3. \A j \in 1 .. n : buf[j] # NUL
  BY <1>1, <1>2, CharsAssumption
<1>4. n + 1 \in DOMAIN buf /\ buf[n + 1] = NUL /\ \A j \in 1 .. (n + 1) - 1 : buf[j] # NUL
  BY <1>1, <1>3
<1>5. ASSUME NEW k \in DOMAIN buf, buf[k] = NUL, \A j \in 1 .. k - 1 : buf[j] # NUL
      PROVE  k = n + 1
  <2>1. k \in 1 .. Len(buf) /\ k \notin 1 .. n
    BY <1>1, <1>3, <1>5
  <2>2. ~(n + 1 < k)
    BY <1>1, <1>4, <1>5, <2>1
  <2> QED
    BY <1>1, <2>1, <2>2
<1>6. (CHOOSE k \in DOMAIN buf : buf[k] = NUL /\ \A j \in 1 .. k - 1 : buf[j] # NUL) = n + 1
  <2> HIDE DEF n
  <2> QED
    BY <1>4, <1>5
<1>7. CString(buf) = Prefix(buf, (n + 1) - 1)
  BY <1>6 DEF CString
<1>8. Prefix(buf, n) = u
  <2>1. /\ Len(SubSeq(buf, 1, n)) = n /\ SubSeq(buf, 1, n) \in Seq(Chars \cup {NUL})
        /\ \A j \in 1 .. n : SubSeq(buf, 1, n)[j] = buf[j]
    BY <1>1
  <2>2. u \in Seq(Chars \cup {NUL})
    BY <1>1 DEF Word
  <2> QED
    BY <1>1, <2>1, <2>2 DEF Prefix
<1> QED
  BY <1>1, <1>7, <1>8

\* strcat().
LEMMA StrcatIs ==
    ASSUME NEW buf, NEW u, Holds(buf, u), NEW c \in Chars, Len(u) + 2 <= Len(buf)
    PROVE  Holds(Append0(buf, <<c>>), Append(u, c))
<1> DEFINE n == Len(u)
           new == [buf EXCEPT ![n + 1] = c, ![n + 2] = NUL]
<1>1. /\ buf \in Seq(Chars \cup {NUL}) /\ u \in Word /\ n \in Nat /\ Len(buf) \in Nat
      /\ \A j \in 1 .. n : buf[j] = u[j]
  BY DEF Holds, Word
<1>2. Append0(buf, <<c>>) = new
  <2>1. <<c>> # NoWord /\ Head(<<c>>) = c
    BY DEF NoWord
  <2> QED
    BY <2>1, HeldIs DEF Append0
<1>3. /\ new \in Seq(Chars \cup {NUL}) /\ Len(new) = Len(buf)
      /\ new[n + 1] = c /\ new[n + 2] = NUL /\ \A j \in 1 .. n : new[j] = buf[j]
  BY <1>1
<1>4. /\ Append(u, c) \in Word /\ Len(Append(u, c)) = n + 1 /\ Append(u, c)[n + 1] = c
      /\ \A j \in 1 .. n : Append(u, c)[j] = u[j]
  BY <1>1, AppendIs
<1> HIDE DEF n, new
<1>5. \A j \in 1 .. n + 1 : j = n + 1 \/ j \in 1 .. n
  BY <1>1
<1>6. n + 1 < Len(buf) /\ (n + 1) + 1 = n + 2
  BY <1>1 DEF n
<1> QED
  BY <1>1, <1>2, <1>3, <1>4, <1>5, <1>6 DEF Holds
-----------------------------------------------------------------------------
(* The rules, and the base words. *)

Fields(n, suffixes, longer, cut, doubled, ends) ==
    /\ Rules[n].suffixes = suffixes /\ Rules[n].longer = longer /\ Rules[n].cut = cut
    /\ Rules[n].doubled = doubled /\ Rules[n].endings = ends

\* The nine rules, one by one.
LEMMA RulesAre ==
    /\ Len(Rules) = 9 /\ DOMAIN Rules = 1 .. 9
    /\ Fields(1, {<<"s">>, <<"e", "d">>}, 1, 1, FALSE, <<NoWord>>)
    /\ Fields(2, {<<"l", "y">>}, 2, 2, TRUE, <<NoWord>>)
    /\ Fields(3, {<<"i", "n", "g">>}, 3, 3, TRUE, <<NoWord, <<"e">>>>)
    /\ Fields(4, {<<"e", "s">>}, 3, 2, FALSE, <<NoWord>>)
    /\ Fields(5, {<<"e", "d">>}, 3, 2, TRUE, <<NoWord>>)
    /\ Fields(6, {<<"i", "e", "d">>}, 3, 3, FALSE, <<<<"y">>>>)
    /\ Fields(7, {<<"i", "e", "s">>}, 3, 3, FALSE, <<<<"y">>>>)
    /\ Fields(8, {<<"e", "r">>}, 2, 2, FALSE, <<NoWord>>)
    /\ Fields(9, {<<"e", "s", "t">>}, 3, 3, FALSE, <<NoWord>>)
<1>1. Len(Rules) = 9 /\ DOMAIN Rules = 1 .. 9
  BY DEF Rules
<1>2. Fields(1, {<<"s">>, <<"e", "d">>}, 1, 1, FALSE, <<NoWord>>)
  BY DEF Rules, Fields
<1>3. Fields(2, {<<"l", "y">>}, 2, 2, TRUE, <<NoWord>>)
  BY DEF Rules, Fields
<1>4. Fields(3, {<<"i", "n", "g">>}, 3, 3, TRUE, <<NoWord, <<"e">>>>)
  BY DEF Rules, Fields
<1>5. Fields(4, {<<"e", "s">>}, 3, 2, FALSE, <<NoWord>>)
  BY DEF Rules, Fields
<1>6. Fields(5, {<<"e", "d">>}, 3, 2, TRUE, <<NoWord>>)
  BY DEF Rules, Fields
<1>7. Fields(6, {<<"i", "e", "d">>}, 3, 3, FALSE, <<<<"y">>>>)
  BY DEF Rules, Fields
<1>8. Fields(7, {<<"i", "e", "s">>}, 3, 3, FALSE, <<<<"y">>>>)
  BY DEF Rules, Fields
<1>9. Fields(8, {<<"e", "r">>}, 2, 2, FALSE, <<NoWord>>)
  BY DEF Rules, Fields
<1>10. Fields(9, {<<"e", "s", "t">>}, 3, 3, FALSE, <<NoWord>>)
  BY DEF Rules, Fields
<1> QED
  BY <1>1, <1>2, <1>3, <1>4, <1>5, <1>6, <1>7, <1>8, <1>9, <1>10

\* The lookups that rule n makes for w, and those of w itself and m rules.
StemOf(n, w) == Prefix(w, Len(w) - Rules[n].cut)
ShortOf(n, w) ==
    IF DoubledAt(Rules[n], w) THEN {Prefix(w, Len(w) - Rules[n].cut - 1)} ELSE {}
Behind(n, w) == { StemOf(n, w) \o e : e \in ToSet(Rules[n].endings) }
TriedBy(n, w) ==
    IF Applies(Rules[n], w)
    THEN ShortOf(n, w) \cup Behind(n, w) ELSE {}
Tried(w, m) == {w} \cup UNION { TriedBy(n, w) : n \in 1 .. m }

\* What ends in a suffix is longer than it.
LEMMA EndsLonger ==
    ASSUME NEW w, NEW x, EndsIn(w, x)
    PROVE  Len(w) >= Len(x)
BY DEF EndsIn

\* There is one stem, or none.
LEMMA StemIs ==
    ASSUME NEW w \in Word, NEW x, NEW c \in Nat, Len(x) = c, NEW min \in Nat
    PROVE  Stem(w, x, min) = IF EndsIn(w, x) /\ Len(w) >= min + c THEN {Prefix(w, Len(w) - c)}
                             ELSE {}
<1> DEFINE S == { k \in min .. Len(w) : EndsIn(w, x) /\ k + Len(x) = Len(w) }
<1>1. Len(w) \in Nat
  BY DEF Word
<1>2. Stem(w, x, min) = { Prefix(w, n) : n \in S }
  BY DEF Stem
<1>3. S = IF EndsIn(w, x) /\ Len(w) >= min + c THEN {Len(w) - c} ELSE {}
  BY <1>1
<1> HIDE DEF S
<1> QED
  BY <1>2, <1>3

\* One of two equal consonants, if there are two.
LEMMA SingleIs ==
    ASSUME NEW w \in Word, NEW m \in 0 .. Len(w)
    PROVE  Single(Prefix(w, m)) =
              IF m > 3 /\ w[m] = w[m - 1] /\ ~IsVowel(w[m - 1]) /\ IsVowel(w[m - 2])
              THEN {Prefix(w, m - 1)} ELSE {}
<1> DEFINE u == Prefix(w, m)
           Two(v, k) == v[k] = v[k - 1] /\ ~IsVowel(v[k]) /\ IsVowel(v[k - 2])
           S == { k \in 4 .. Len(u) : k = Len(u) /\ Two(u, k) }
<1>1. /\ u \in Word /\ Len(u) = m /\ m \in Nat /\ Len(w) \in Nat
      /\ \A j \in 1 .. m : u[j] = w[j]
  BY PrefixIs DEF Word
<1>2. Single(u) = { Prefix(u, n - 1) : n \in S }
  BY DEF Single
<1>3. m > 3 => (Two(u, m) <=> Two(w, m))
  <2>1. m > 3 => m \in 1 .. m /\ m - 1 \in 1 .. m /\ m - 2 \in 1 .. m
    BY <1>1
  <2> HIDE DEF u
  <2> QED
    BY <1>1, <2>1
<1>4. S = IF m > 3 /\ Two(w, m) THEN {m} ELSE {}
  <2> HIDE DEF u, Two
  <2> QED
    BY <1>1, <1>3
<1>5. m > 3 => Prefix(u, m - 1) = Prefix(w, m - 1)
  <2> SUFFICES ASSUME m > 3 PROVE Prefix(u, m - 1) = Prefix(w, m - 1)
    OBVIOUS
  <2>1. m - 1 \in 0 .. Len(u) /\ m - 1 \in 0 .. Len(w)
    BY <1>1
  <2>2. \A j \in 1 .. m - 1 : j \in 1 .. m
    BY <1>1
  <2> HIDE DEF u
  <2>3. /\ Prefix(u, m - 1) \in Word /\ Len(Prefix(u, m - 1)) = m - 1
        /\ \A j \in 1 .. m - 1 : Prefix(u, m - 1)[j] = u[j]
    BY <1>1, <2>1, PrefixIs
  <2>4. /\ Prefix(w, m - 1) \in Word /\ Len(Prefix(w, m - 1)) = m - 1
        /\ \A j \in 1 .. m - 1 : Prefix(w, m - 1)[j] = w[j]
    BY <2>1, PrefixIs
  <2> QED
    BY <1>1, <2>2, <2>3, <2>4, SameWord
<1>6. Single(u) = IF m > 3 /\ Two(w, m) THEN {Prefix(w, m - 1)} ELSE {}
  <2> HIDE DEF S, u, Two
  <2> QED
    BY <1>2, <1>4, <1>5
<1> QED
  BY <1>6

\* The rule has one suffix, which it cuts off when at least min characters are left.
OneSuffix(n, x, min) ==
    /\ Rules[n].suffixes = {x} /\ x # <<"e", "s">>
    /\ Rules[n].cut \in Nat /\ Len(x) = Rules[n].cut
    /\ Rules[n].longer = min + Rules[n].cut - 1

\* When such a rule applies.
LEMMA RuleApplies ==
    ASSUME NEW w \in Word, NEW n, NEW x, NEW min \in Nat, OneSuffix(n, x, min)
    PROVE  /\ Applies(Rules[n], w) <=> EndsIn(w, x) /\ Len(w) >= min + Rules[n].cut
           /\ Stem(w, x, min) = IF Applies(Rules[n], w) THEN {StemOf(n, w)} ELSE {}
<1> DEFINE c == Rules[n].cut
<1>1. /\ Len(w) \in Nat /\ c \in Nat /\ Len(x) = c /\ Rules[n].suffixes = {x}
      /\ Rules[n].longer = min + c - 1
  BY DEF Word, OneSuffix
<1>2. {x} # {<<"e", "s">>}
  BY DEF OneSuffix
<1> HIDE DEF c
<1>3. Len(w) > min + c - 1 <=> Len(w) >= min + c
  BY <1>1
<1>4. Applies(Rules[n], w) <=> EndsIn(w, x) /\ Len(w) >= min + c
  BY <1>1, <1>2, <1>3 DEF Applies
<1>5. Stem(w, x, min) = IF EndsIn(w, x) /\ Len(w) >= min + c THEN {Prefix(w, Len(w) - c)} ELSE {}
  BY <1>1, StemIs
<1> QED
  BY <1>4, <1>5 DEF StemOf, c

\* A rule for doubled consonants looks up the stem with and without the second one.
LEMMA RuleDoubles ==
    ASSUME NEW w \in Word, NEW n, NEW x, NEW min \in Nat, OneSuffix(n, x, min),
           Rules[n].doubled
    PROVE  WithSingle(Stem(w, x, min)) =
              IF Applies(Rules[n], w) THEN ShortOf(n, w) \cup {StemOf(n, w)} ELSE {}
<1> DEFINE c == Rules[n].cut
<1>0. c \in Nat
  BY DEF OneSuffix
<1>1. /\ Applies(Rules[n], w) <=> EndsIn(w, x) /\ Len(w) >= min + c
      /\ Stem(w, x, min) = IF Applies(Rules[n], w) THEN {StemOf(n, w)} ELSE {}
  BY RuleApplies
<1>2. CASE Applies(Rules[n], w)
  <2> DEFINE m == Len(w) - c
  <2>1. Len(w) \in Nat /\ m \in 0 .. Len(w)
    <3> HIDE DEF c
    <3> QED
      BY <1>0, <1>1, <1>2 DEF Word
  <2>2. Single(Prefix(w, m)) =
           IF m > 3 /\ w[m] = w[m - 1] /\ ~IsVowel(w[m - 1]) /\ IsVowel(w[m - 2])
           THEN {Prefix(w, m - 1)} ELSE {}
    <3> HIDE DEF m
    <3> QED
      BY <2>1, SingleIs
  <2>3. Single(StemOf(n, w)) = ShortOf(n, w)
    BY <2>2 DEF StemOf, ShortOf, DoubledAt
  <2> QED
    BY <1>1, <1>2, <2>3 DEF WithSingle
<1>3. CASE ~Applies(Rules[n], w)
  BY <1>1, <1>3 DEF WithSingle
<1> QED
  BY <1>2, <1>3

\* The lookups of a rule, by what it puts behind the stem.
LEMMA PutBehind ==
    ASSUME NEW n, NEW w, StemOf(n, w) \in Word
    PROVE  /\ Rules[n].endings = <<NoWord>> => Behind(n, w) = {StemOf(n, w)}
           /\ \A c \in Chars :
                Rules[n].endings = <<<<c>>>> => Behind(n, w) = {Append(StemOf(n, w), c)}
           /\ \A c \in Chars :
                Rules[n].endings = <<NoWord, <<c>>>>
                   => Behind(n, w) = {StemOf(n, w), Append(StemOf(n, w), c)}
<1> DEFINE u == StemOf(n, w)
<1>1. \A c \in Chars : u \o <<c>> = Append(u, c) /\ u \o <<>> = u
  <2> HIDE DEF u
  <2>1. u \in Word
    BY DEF u
  <2> QED
    BY <2>1, AppendIs
<1>a. u \o <<>> = u
  BY <1>1, CharsAssumption
<1>2. /\ ToSet(<<NoWord>>) = {NoWord}
      /\ \A c : ToSet(<<<<c>>>>) = {<<c>>} /\ ToSet(<<NoWord, <<c>>>>) = {NoWord, <<c>>}
  <2>1. \A x : ToSet(<<x>>) = {x}
    BY DEF ToSet
  <2>2. \A x, y : ToSet(<<x, y>>) = {x, y}
    <3> SUFFICES ASSUME NEW x, NEW y PROVE ToSet(<<x, y>>) = {x, y}
      OBVIOUS
    <3>1. DOMAIN <<x, y>> = {1, 2} /\ <<x, y>>[1] = x /\ <<x, y>>[2] = y
      OBVIOUS
    <3> QED
      BY <3>1 DEF ToSet
  <2> QED
    BY <2>1, <2>2
<1> HIDE DEF u
<1>3. ASSUME Rules[n].endings = <<NoWord>>
      PROVE  { u \o e : e \in ToSet(Rules[n].endings) } = {u}
  <2>1. ToSet(Rules[n].endings) = {NoWord}
    BY <1>2, <1>3
  <2>2. u \o NoWord = u
    BY <1>a DEF NoWord
  <2> DEFINE x == NoWord
             E == ToSet(Rules[n].endings)
  <2> HIDE DEF x, E
  <2>3. E = {x} => { u \o e : e \in E } = {u \o x}
    OBVIOUS
  <2> QED
    BY <2>1, <2>2, <2>3 DEF x, E
<1>4. ASSUME NEW c \in Chars, Rules[n].endings = <<<<c>>>>
      PROVE  { u \o e : e \in ToSet(Rules[n].endings) } = {Append(u, c)}
  <2>1. ToSet(Rules[n].endings) = {<<c>>}
    BY <1>2, <1>4
  <2>2. u \o <<c>> = Append(u, c)
    BY <1>1
  <2> DEFINE x == <<c>>
             E == ToSet(Rules[n].endings)
  <2> HIDE DEF x, E
  <2>3. E = {x} => { u \o e : e \in E } = {u \o x}
    OBVIOUS
  <2> QED
    BY <2>1, <2>2, <2>3 DEF x, E
<1>5. ASSUME NEW c \in Chars, Rules[n].endings = <<NoWord, <<c>>>>
      PROVE  { u \o e : e \in ToSet(Rules[n].endings) } = {u, Append(u, c)}
  <2>1. ToSet(Rules[n].endings) = {NoWord, <<c>>}
    BY <1>2, <1>5
  <2>2. u \o <<c>> = Append(u, c) /\ u \o NoWord = u
    BY <1>1 DEF NoWord
  <2> DEFINE x == <<c>>
             y == NoWord
             E == ToSet(Rules[n].endings)
  <2> HIDE DEF x, y, E
  <2>3. E = {y, x} => { u \o e : e \in E } = {u \o y, u \o x}
    OBVIOUS
  <2> QED
    BY <2>1, <2>2, <2>3 DEF x, y, E
<1> QED
  BY <1>3, <1>4, <1>5 DEF u, Behind

\* A rule applies to a word that is longer than what it cuts off.
LEMMA StemIsWord ==
    ASSUME NEW w \in Word, NEW n \in 1 .. 9, Applies(Rules[n], w)
    PROVE  /\ StemOf(n, w) \in Word /\ Len(StemOf(n, w)) = Len(w) - Rules[n].cut
           /\ \A j \in 1 .. Len(w) - Rules[n].cut : StemOf(n, w)[j] = w[j]
           /\ Rules[n].cut \in 1 .. 3 /\ Len(w) - Rules[n].cut \in 0 .. Len(w)
<1>1. Len(w) \in Nat /\ Len(w) > Rules[n].longer
  BY DEF Word, Applies
<1>2. Rules[n].cut \in 1 .. 3 /\ Rules[n].longer \in Nat /\ Rules[n].cut <= Rules[n].longer
  <2>1. n = 1 \/ n = 2 \/ n = 3 \/ n = 4 \/ n = 5 \/ n = 6 \/ n = 7 \/ n = 8 \/ n = 9
    OBVIOUS
  <2> QED
    BY <2>1, RulesAre DEF Fields
<1>3. Len(w) - Rules[n].cut \in 0 .. Len(w)
  BY <1>1, <1>2
<1> QED
  BY <1>2, <1>3, PrefixIs DEF StemOf

\* What the first rule looks up: the word without its last letter.
LEMMA CutsLast ==
    ASSUME NEW w \in Word
    PROVE  TriedBy(1, w) = Stem(w, <<"s">>, 1)
                           \cup { Append(v, w[Len(v) + 1]) : v \in Stem(w, <<"e", "d">>, 0) }
<1> DEFINE a == <<"s">>
           b == <<"e", "d">>
           l == Len(w)
<1>1. l \in Nat
  BY DEF Word
<1>2. Fields(1, {a, b}, 1, 1, FALSE, <<NoWord>>)
  BY RulesAre
<1>3. Len(a) = 1 /\ Len(b) = 2 /\ a # <<"e", "s">> /\ b # <<"e", "s">>
  OBVIOUS
<1>4. {a, b} # {<<"e", "s">>}
  BY <1>3
<1>5. Applies(Rules[1], w) <=> l > 1 /\ (EndsIn(w, a) \/ EndsIn(w, b))
  BY <1>2, <1>4 DEF Applies, Fields
<1>6. Stem(w, a, 1) = IF EndsIn(w, a) /\ l >= 1 + 1 THEN {Prefix(w, l - 1)} ELSE {}
  <2> HIDE DEF a
  <2> QED
    BY <1>3, StemIs
<1>7. Stem(w, b, 0) = IF EndsIn(w, b) /\ l >= 0 + 2 THEN {Prefix(w, l - 2)} ELSE {}
  <2> HIDE DEF b
  <2> QED
    BY <1>3, StemIs
<1>8. l > 1 => Append(Prefix(w, l - 2), w[Len(Prefix(w, l - 2)) + 1]) = Prefix(w, l - 1)
  <2> SUFFICES ASSUME l > 1
               PROVE  Append(Prefix(w, l - 2), w[Len(Prefix(w, l - 2)) + 1]) = Prefix(w, l - 1)
    OBVIOUS
  <2> DEFINE u == Prefix(w, l - 2)
             v == Prefix(w, l - 1)
             c == w[l - 1]
  <2>1. l - 2 \in 0 .. Len(w) /\ l - 1 \in 0 .. Len(w) /\ l - 1 \in 1 .. Len(w)
    BY <1>1
  <2>2. /\ u \in Word /\ Len(u) = l - 2 /\ \A j \in 1 .. l - 2 : u[j] = w[j]
        /\ v \in Word /\ Len(v) = l - 1 /\ \A j \in 1 .. l - 1 : v[j] = w[j]
    BY <2>1, PrefixIs
  <2>3. c \in Chars
    BY <2>1, ElementOfSeq DEF Word
  <2> HIDE DEF u, v, c
  <2>4. /\ Append(u, c) \in Word /\ Len(Append(u, c)) = Len(u) + 1
        /\ \A j \in 1 .. Len(u) : Append(u, c)[j] = u[j]
        /\ Append(u, c)[Len(u) + 1] = c
    BY <2>2, <2>3, AppendIs
  <2>5. Len(u) + 1 = l - 1 /\ \A j \in 1 .. l - 1 : j = l - 1 \/ j \in 1 .. l - 2
    BY <1>1, <2>2
  <2>6. \A j \in 1 .. l - 1 : Append(u, c)[j] = v[j]
    BY <2>2, <2>4, <2>5 DEF c
  <2>7. Append(u, c) = v
    BY <2>2, <2>4, <2>5, <2>6, SameWord
  <2>8. w[Len(u) + 1] = c
    BY <2>5 DEF c
  <2> QED
    BY <2>7, <2>8 DEF u, v
<1>9. ShortOf(1, w) = {}
  BY <1>2 DEF ShortOf, DoubledAt, Fields
<1>10. Applies(Rules[1], w) => StemOf(1, w) \in Word
  BY StemIsWord
<1>11. TriedBy(1, w) = IF Applies(Rules[1], w) THEN {Prefix(w, l - 1)} ELSE {}
  <2>1. Rules[1].endings = <<NoWord>> /\ StemOf(1, w) = Prefix(w, l - 1)
    BY <1>2 DEF StemOf, Fields
  <2> QED
    BY <1>9, <1>10, <2>1, PutBehind DEF TriedBy
<1> DEFINE back == { Append(v, w[Len(v) + 1]) : v \in Stem(w, b, 0) }
<1>12. back = IF EndsIn(w, b) /\ l > 1 THEN {Prefix(w, l - 1)} ELSE {}
  <2>1. l >= 0 + 2 <=> l > 1
    BY <1>1
  <2>2. CASE EndsIn(w, b) /\ l > 1
    <3> DEFINE p == Prefix(w, l - 2)
    <3>1. Stem(w, b, 0) = {p} /\ Append(p, w[Len(p) + 1]) = Prefix(w, l - 1)
      BY <1>7, <1>8, <2>1, <2>2
    <3> HIDE DEF p
    <3>2. back = {Append(p, w[Len(p) + 1])}
      BY <3>1
    <3> QED
      BY <2>2, <3>1, <3>2
  <2>3. CASE ~(EndsIn(w, b) /\ l > 1)
    BY <1>7, <2>1, <2>3
  <2> QED
    BY <2>2, <2>3
<1>13. l >= 1 + 1 <=> l > 1
  BY <1>1
<1> HIDE DEF back, a, b, l
<1>14. TriedBy(1, w) = Stem(w, a, 1) \cup back
  BY <1>5, <1>6, <1>11, <1>12, <1>13
<1> QED
  BY <1>14 DEF back, a, b

\* What the rule for "es" looks up.
LEMMA CutsEs ==
    ASSUME NEW w \in Word
    PROVE  TriedBy(4, w) = { v \in Stem(w, <<"e", "s">>, 2) : TakesEs(v) }
<1> DEFINE x == <<"e", "s">>
           l == Len(w)
           m == l - 2
           u == Prefix(w, m)
<1>1. l \in Nat
  BY DEF Word
<1>2. Fields(4, {x}, 3, 2, FALSE, <<NoWord>>) /\ Len(x) = 2
  BY RulesAre
<1>3. Applies(Rules[4], w) <=> l > 3 /\ EndsIn(w, x) /\ EsCondition(w)
  BY <1>2 DEF Applies, Fields
<1>4. Stem(w, x, 2) = IF EndsIn(w, x) /\ l >= 2 + 2 THEN {u} ELSE {}
  <2> HIDE DEF x
  <2> QED
    BY <1>2, StemIs
<1>5. ASSUME l > 3 PROVE EsCondition(w) <=> TakesEs(u)
  <2>1. m \in 0 .. Len(w) /\ m \in Nat /\ m >= 2
    BY <1>1, <1>5
  <2>2. /\ u \in Word /\ Len(u) = m /\ \A j \in 1 .. m : u[j] = w[j]
    BY <2>1, PrefixIs
  <2> HIDE DEF u, m
  <2>3. \A e \in {"s", "x", "o"} : EndsIn(u, <<e>>) <=> LowerChar(w[m]) = e
    <3> SUFFICES ASSUME NEW e PROVE EndsIn(u, <<e>>) <=> LowerChar(w[m]) = e
      OBVIOUS
    <3>1. Suffix(u, 1) = <<w[m]>>
      <4> DEFINE t == SubSeq(u, m, m)
      <4>1. t \in Seq(Chars) /\ Len(t) = 1 /\ t[1] = u[m]
        BY <2>1, <2>2 DEF Word
      <4>2. Suffix(u, 1) = t
        BY <2>1, <2>2 DEF Suffix
      <4>3. u[m] = w[m]
        BY <2>1, <2>2
      <4> HIDE DEF t
      <4> QED
        BY <4>1, <4>2, <4>3
    <3>2. Lower(<<w[m]>>) = <<LowerChar(w[m])>>
      BY DEF Lower
    <3> QED
      BY <2>1, <2>2, <3>1, <3>2 DEF EndsIn
  <2>4. \A c \in {"c", "s"} : EndsIn(u, <<c, "h">>)
                               <=> LowerChar(w[m]) = "h" /\ LowerChar(w[m - 1]) = c
    <3> SUFFICES ASSUME NEW c
                 PROVE  EndsIn(u, <<c, "h">>) <=> LowerChar(w[m]) = "h" /\ LowerChar(w[m - 1]) = c
      OBVIOUS
    <3>1. Suffix(u, 2) = <<w[m - 1], w[m]>>
      <4> DEFINE t == SubSeq(u, m - 1, m)
      <4>1. t \in Seq(Chars) /\ Len(t) = 2 /\ t[1] = u[m - 1] /\ t[2] = u[m]
        BY <2>1, <2>2 DEF Word
      <4>2. Suffix(u, 2) = t
        <5>1. m - 2 + 1 = m - 1
          BY <2>1
        <5> QED
          BY <2>1, <2>2, <5>1 DEF Suffix
      <4>3. u[m - 1] = w[m - 1] /\ u[m] = w[m]
        BY <2>1, <2>2
      <4> HIDE DEF t
      <4> QED
        BY <4>1, <4>2, <4>3
    <3>2. Lower(<<w[m - 1], w[m]>>) = <<LowerChar(w[m - 1]), LowerChar(w[m])>>
      BY DEF Lower
    <3> QED
      BY <2>1, <2>2, <3>1, <3>2 DEF EndsIn
  <2>5. Len(u) > 2 <=> Len(w) > 4
    BY <1>1, <2>2 DEF m
  <2> QED
    BY <2>3, <2>4, <2>5 DEF EsCondition, TakesEs, m
<1>6. ShortOf(4, w) = {}
  BY <1>2 DEF ShortOf, DoubledAt, Fields
<1>7. Applies(Rules[4], w) => StemOf(4, w) \in Word
  BY StemIsWord
<1>8. TriedBy(4, w) = IF Applies(Rules[4], w) THEN {u} ELSE {}
  <2>1. Rules[4].endings = <<NoWord>> /\ StemOf(4, w) = u
    BY <1>2 DEF StemOf, Fields
  <2> QED
    BY <1>6, <1>7, <2>1, PutBehind DEF TriedBy
<1>9. l >= 2 + 2 <=> l > 3
  BY <1>1
<1> HIDE DEF x, u, l, m
<1>10. TriedBy(4, w) = { v \in Stem(w, x, 2) : TakesEs(v) }
  BY <1>3, <1>4, <1>5, <1>8, <1>9
<1> QED
  BY <1>10 DEF x

\* A rule that cuts off one suffix and puts a letter there.
LEMMA PutsLetter ==
    ASSUME NEW w \in Word, NEW n \in {6, 7}, NEW x, Fields(n, {x}, 3, 3, FALSE, <<<<"y">>>>),
           Len(x) = 3, x # <<"e", "s">>
    PROVE  TriedBy(n, w) = { Append(v, "y") : v \in Stem(w, x, 1) }
<1>1. Stem(w, x, 1) = IF Applies(Rules[n], w) THEN {StemOf(n, w)} ELSE {}
  <2>1. OneSuffix(n, x, 1)
    BY DEF OneSuffix, Fields
  <2> QED
    BY <2>1, RuleApplies
<1>2. ShortOf(n, w) = {}
  BY DEF ShortOf, DoubledAt, Fields
<1>3. Applies(Rules[n], w) => StemOf(n, w) \in Word
  BY StemIsWord
<1>4. "y" \in Chars /\ Rules[n].endings = <<<<"y">>>>
  BY CharsAssumption DEF Fields
<1>5. TriedBy(n, w) = IF Applies(Rules[n], w) THEN {Append(StemOf(n, w), "y")} ELSE {}
  <2>1. CASE Applies(Rules[n], w)
    <3>1. Behind(n, w) = {Append(StemOf(n, w), "y")}
      BY <1>3, <1>4, <2>1, PutBehind
    <3>2. TriedBy(n, w) = ShortOf(n, w) \cup Behind(n, w)
      BY <2>1 DEF TriedBy
    <3> QED
      BY <1>2, <2>1, <3>1, <3>2
  <2>2. CASE ~Applies(Rules[n], w)
    BY <2>2 DEF TriedBy
  <2> QED
    BY <2>1, <2>2
<1> QED
  BY <1>1, <1>5

\* A rule that only cuts off one suffix.
LEMMA Cuts ==
    ASSUME NEW w \in Word, NEW n \in 1 .. 9, NEW x, NEW min \in Nat, OneSuffix(n, x, min),
           Rules[n].endings = <<NoWord>>
    PROVE  TriedBy(n, w) = IF Rules[n].doubled THEN WithSingle(Stem(w, x, min))
                           ELSE Stem(w, x, min)
<1>2. Stem(w, x, min) = IF Applies(Rules[n], w) THEN {StemOf(n, w)} ELSE {}
  BY RuleApplies
<1>3. Rules[n].doubled => WithSingle(Stem(w, x, min)) =
                    IF Applies(Rules[n], w) THEN ShortOf(n, w) \cup {StemOf(n, w)} ELSE {}
  BY RuleDoubles
<1>4. ~Rules[n].doubled => ShortOf(n, w) = {}
  BY DEF ShortOf, DoubledAt
<1>5. Applies(Rules[n], w) => StemOf(n, w) \in Word
  BY StemIsWord
<1>6. TriedBy(n, w) = IF Applies(Rules[n], w) THEN ShortOf(n, w) \cup {StemOf(n, w)} ELSE {}
  BY <1>5, PutBehind DEF TriedBy
<1> QED
  BY <1>2, <1>3, <1>4, <1>6

\* What the rule for "ing" looks up.
LEMMA CutsIng ==
    ASSUME NEW w \in Word
    PROVE  TriedBy(3, w) = WithSingle(Stem(w, <<"i", "n", "g">>, 1))
                           \cup { Append(v, "e") : v \in Stem(w, <<"i", "n", "g">>, 1) }
<1> DEFINE x == <<"i", "n", "g">>
<1>1. /\ Rules[3].suffixes = {x} /\ Rules[3].cut = 3 /\ Rules[3].longer = 1 + 3 - 1
      /\ Rules[3].doubled /\ Rules[3].endings = <<NoWord, <<"e">>>>
  BY RulesAre DEF Fields
<1>2. Len(x) = 3 /\ x # <<"e", "s">>
  OBVIOUS
<1>a. OneSuffix(3, x, 1)
  BY <1>1, <1>2 DEF OneSuffix
<1> HIDE DEF x
<1>3. Stem(w, x, 1) = IF Applies(Rules[3], w) THEN {StemOf(3, w)} ELSE {}
  BY <1>a, RuleApplies
<1>4. WithSingle(Stem(w, x, 1)) =
         IF Applies(Rules[3], w) THEN ShortOf(3, w) \cup {StemOf(3, w)} ELSE {}
  BY <1>1, <1>a, RuleDoubles
<1>5. Applies(Rules[3], w) => StemOf(3, w) \in Word
  BY StemIsWord
<1>6. TriedBy(3, w) = IF Applies(Rules[3], w)
                      THEN ShortOf(3, w) \cup {StemOf(3, w), Append(StemOf(3, w), "e")} ELSE {}
  <2>1. Applies(Rules[3], w) => Behind(3, w) = {StemOf(3, w), Append(StemOf(3, w), "e")}
    BY <1>1, <1>5, PutBehind, CharsAssumption
  <2> QED
    BY <2>1 DEF TriedBy
<1>7. { Append(v, "e") : v \in Stem(w, x, 1) } =
         IF Applies(Rules[3], w) THEN {Append(StemOf(3, w), "e")} ELSE {}
  BY <1>3
<1>8. TriedBy(3, w) = WithSingle(Stem(w, x, 1)) \cup { Append(v, "e") : v \in Stem(w, x, 1) }
  BY <1>4, <1>6, <1>7
<1> QED
  BY <1>8 DEF x

\* The lookups of the nine rules are the base words, and the word itself.
LEMMA BasesAre ==
    ASSUME NEW w \in Word, IsPureEnglish(w)
    PROVE  BaseWords(w) = Tried(w, 9)
<1> DEFINE ly == Stem(w, <<"l", "y">>, 1)
           ing == Stem(w, <<"i", "n", "g">>, 1)
           ed == Stem(w, <<"e", "d">>, 2)
           t1 == Stem(w, <<"s">>, 1) \cup { Append(v, w[Len(v) + 1]) : v \in Stem(w, <<"e", "d">>, 0) }
           inge == { Append(v, "e") : v \in ing }
           t4 == { v \in Stem(w, <<"e", "s">>, 2) : TakesEs(v) }
           ied == Stem(w, <<"i", "e", "d">>, 1)
           ies == Stem(w, <<"i", "e", "s">>, 1)
           y6 == { Append(v, "y") : v \in ied }
           y67 == { Append(v, "y") : v \in ied \cup ies }
           y7 == { Append(v, "y") : v \in ies }
           er == Stem(w, <<"e", "r">>, 1)
           est == Stem(w, <<"e", "s", "t">>, 1)
<1>1. TriedBy(1, w) = t1
  BY CutsLast
<1>2. TriedBy(2, w) = WithSingle(ly)
  <2> DEFINE x == <<"l", "y">>
  <2>1. Fields(2, {x}, 2, 2, TRUE, <<NoWord>>)
    BY RulesAre
  <2>2. Len(x) = 2 /\ x # <<"e", "s">>
    OBVIOUS
  <2> HIDE DEF x
  <2>3. OneSuffix(2, x, 1) /\ Rules[2].endings = <<NoWord>> /\ Rules[2].doubled = TRUE
    BY <2>1, <2>2 DEF OneSuffix, Fields
  <2>4. TriedBy(2, w) = WithSingle(Stem(w, x, 1))
    BY <2>3, Cuts
  <2> QED
    BY <2>4 DEF x
<1>3. TriedBy(3, w) = WithSingle(ing) \cup inge
  BY CutsIng
<1>4. TriedBy(4, w) = t4
  BY CutsEs
<1>5. TriedBy(5, w) = WithSingle(ed)
  <2> DEFINE x == <<"e", "d">>
  <2>1. Fields(5, {x}, 3, 2, TRUE, <<NoWord>>)
    BY RulesAre
  <2>2. Len(x) = 2 /\ x # <<"e", "s">>
    OBVIOUS
  <2> HIDE DEF x
  <2>3. OneSuffix(5, x, 2) /\ Rules[5].endings = <<NoWord>> /\ Rules[5].doubled = TRUE
    BY <2>1, <2>2 DEF OneSuffix, Fields
  <2>4. TriedBy(5, w) = WithSingle(Stem(w, x, 2))
    BY <2>3, Cuts
  <2> QED
    BY <2>4 DEF x
<1>6. TriedBy(6, w) = y6
  <2>1. Fields(6, {<<"i", "e", "d">>}, 3, 3, FALSE, <<<<"y">>>>)
    BY RulesAre
  <2>2. Len(<<"i", "e", "d">>) = 3 /\ <<"i", "e", "d">> # <<"e", "s">>
    OBVIOUS
  <2> QED
    BY <2>1, <2>2, PutsLetter
<1>7. TriedBy(7, w) = y7
  <2>1. Fields(7, {<<"i", "e", "s">>}, 3, 3, FALSE, <<<<"y">>>>)
    BY RulesAre
  <2>2. Len(<<"i", "e", "s">>) = 3 /\ <<"i", "e", "s">> # <<"e", "s">>
    OBVIOUS
  <2> QED
    BY <2>1, <2>2, PutsLetter
<1>8. TriedBy(8, w) = er
  <2> DEFINE x == <<"e", "r">>
  <2>1. Fields(8, {x}, 2, 2, FALSE, <<NoWord>>)
    BY RulesAre
  <2>2. Len(x) = 2 /\ x # <<"e", "s">>
    OBVIOUS
  <2> HIDE DEF x
  <2>3. OneSuffix(8, x, 1) /\ Rules[8].endings = <<NoWord>> /\ Rules[8].doubled = FALSE
    BY <2>1, <2>2 DEF OneSuffix, Fields
  <2>4. TriedBy(8, w) = Stem(w, x, 1)
    BY <2>3, Cuts
  <2> QED
    BY <2>4 DEF x
<1>9. TriedBy(9, w) = est
  <2> DEFINE x == <<"e", "s", "t">>
  <2>1. Fields(9, {x}, 3, 3, FALSE, <<NoWord>>)
    BY RulesAre
  <2>2. Len(x) = 3 /\ x # <<"e", "s">>
    OBVIOUS
  <2> HIDE DEF x
  <2>3. OneSuffix(9, x, 1) /\ Rules[9].endings = <<NoWord>> /\ Rules[9].doubled = FALSE
    BY <2>1, <2>2 DEF OneSuffix, Fields
  <2>4. TriedBy(9, w) = Stem(w, x, 1)
    BY <2>3, Cuts
  <2> QED
    BY <2>4 DEF x
<1>10. BaseWords(w) = {w} \cup t1 \cup WithSingle(ly \cup ing \cup ed) \cup inge \cup t4
                      \cup y67 \cup er \cup est
  BY DEF BaseWords
<1>11. Tried(w, 9) = {w} \cup TriedBy(1, w) \cup TriedBy(2, w) \cup TriedBy(3, w)
                     \cup TriedBy(4, w) \cup TriedBy(5, w) \cup TriedBy(6, w)
                     \cup TriedBy(7, w) \cup TriedBy(8, w) \cup TriedBy(9, w)
  <2>1. 1 .. 9 = {1, 2, 3, 4, 5, 6, 7, 8, 9}
    OBVIOUS
  <2> QED
    BY <2>1 DEF Tried
<1> HIDE DEF ly, ing, ed, t1, t4, ied, ies, er, est, inge
<1>12. WithSingle(ly \cup ing \cup ed) = WithSingle(ly) \cup WithSingle(ing) \cup WithSingle(ed)
  BY DEF WithSingle
<1>13. y67 = y6 \cup y7
  OBVIOUS
<1> DEFINE s2 == WithSingle(ly)
           s3 == WithSingle(ing)
           s5 == WithSingle(ed)
           all == WithSingle(ly \cup ing \cup ed)
<1> HIDE DEF y6, y7, y67, s2, s3, s5, all
<1>14. BaseWords(w) = {w} \cup t1 \cup all \cup inge \cup t4 \cup y67 \cup er \cup est
  BY <1>10 DEF all
<1>15. Tried(w, 9) = {w} \cup t1 \cup s2 \cup (s3 \cup inge) \cup t4 \cup s5 \cup y6 \cup y7
                     \cup er \cup est
  BY <1>1, <1>2, <1>3, <1>4, <1>5, <1>6, <1>7, <1>8, <1>9, <1>11 DEF s2, s3, s5
<1>16. all = s2 \cup s3 \cup s5
  BY <1>12 DEF s2, s3, s5, all
<1> QED
  BY <1>13, <1>14, <1>15, <1>16
-----------------------------------------------------------------------------
(* What LookupSimilarWord has looked up.                                    *)

\* The rule is at work on the word.
InRule == rule \in 1 .. 9 /\ IsPureEnglish(word) /\ Applies(Rules[rule], word)

\* The buffer has a cell more than the word.
Buffered(u) == Holds(sNewWord, u) /\ Len(sNewWord) = Len(word) + 1

SimilarInv ==
    /\ tried \in Seq(Word)
    /\ pc \notin Similar => rule = 0 /\ tried = <<>>
    /\ pc \in Similar => Hits(lib, word, FALSE) = {} /\ ~no_fuzzy
    /\ pc = "similar" =>
          /\ rule \in 0 .. 10
          /\ rule = 0 => tried = <<>>
          /\ rule > 0 => IF IsPureEnglish(word) THEN ToSet(tried) = Tried(word, rule - 1)
                         ELSE rule = 10 /\ ToSet(tried) = {word}
    /\ pc = "doubled" =>
          /\ InRule /\ DoubledAt(Rules[rule], word)
          /\ Buffered(Prefix(word, Len(word) - Rules[rule].cut - 1))
          /\ sNewWord[Len(word) - Rules[rule].cut + 1] = NUL
          /\ endings = Rules[rule].endings
          /\ ToSet(tried) = Tried(word, rule - 1)
    /\ pc = "ending" =>
          /\ InRule /\ Buffered(StemOf(rule, word))
          /\ \/ /\ endings = Rules[rule].endings
                /\ ToSet(tried) = Tried(word, rule - 1) \cup ShortOf(rule, word)
             \/ /\ rule = 3 /\ endings = <<<<"e">>>>
                /\ ToSet(tried) = Tried(word, 2) \cup ShortOf(3, word) \cup {StemOf(3, word)}

Result == [asked : Word, lib : Nat, ind : Int]
IsAsked(r) ==
    IF Hits(r.lib, r.asked, FALSE) # {} THEN r.ind \in Hits(r.lib, r.asked, FALSE)
    ELSE ~no_fuzzy /\ \E b \in BaseWords(r.asked) : r.ind \in Hits(r.lib, b, TRUE)
ResultsInv == res_list \in Seq(Result) /\ \A n \in DOMAIN res_list : IsAsked(res_list[n])

\* One rule more.
LEMMA TriedNext ==
    ASSUME NEW w
    PROVE  /\ Tried(w, 0) = {w}
           /\ \A m \in 1 .. 9 : /\ Tried(w, m) = Tried(w, m - 1) \cup TriedBy(m, w)
                                /\ TriedBy(m, w) \subseteq Tried(w, 9)
<1>1. Tried(w, 0) = {w}
  BY DEF Tried
<1>2. ASSUME NEW m \in 1 .. 9
      PROVE  Tried(w, m) = Tried(w, m - 1) \cup TriedBy(m, w) /\ TriedBy(m, w) \subseteq Tried(w, 9)
  <2>1. 1 .. m = (1 .. m - 1) \cup {m}
    OBVIOUS
  <2> QED
    BY <2>1 DEF Tried
<1> QED
  BY <1>1, <1>2

\* What a rule looks up is a base word, and so is the word.
LEMMA LooksUpBases ==
    ASSUME NEW w \in Word
    PROVE  /\ w \in BaseWords(w)
           /\ IsPureEnglish(w) => \A n \in 1 .. 9 : TriedBy(n, w) \subseteq BaseWords(w)
<1>1. CASE IsPureEnglish(w)
  <2>1. BaseWords(w) = Tried(w, 9)
    BY <1>1, BasesAre
  <2>2. w \in Tried(w, 9)
    BY DEF Tried
  <2> QED
    BY <2>1, <2>2, TriedNext
<1>2. CASE ~IsPureEnglish(w)
  BY <1>2 DEF BaseWords
<1> QED
  BY <1>1, <1>2

\* A result that is asked for is added.
LEMMA ResultAdded ==
    ASSUME ResultsInv, UNCHANGED <<dicts, no_fuzzy>>, NEW r \in Result, IsAsked(r),
           res_list' = Append(res_list, r)
    PROVE  ResultsInv'
<1>1. \A x : IsAsked(x)' <=> IsAsked(x)
  BY DEF IsAsked, Hits, Equal, SynOf, ListOf
<1>2. /\ res_list' \in Seq(Result) /\ DOMAIN res_list' = DOMAIN res_list \cup {Len(res_list) + 1}
      /\ res_list'[Len(res_list) + 1] = r
      /\ \A k \in DOMAIN res_list : res_list'[k] = res_list[k]
  <2>1. 1 .. Len(res_list) + 1 = 1 .. Len(res_list) \cup {Len(res_list) + 1}
    BY OneMore DEF ResultsInv
  <2> QED
    BY <2>1, OneMore DEF ResultsInv
<1>3. \A n \in DOMAIN res_list' : IsAsked(res_list'[n])
  BY <1>2 DEF ResultsInv
<1> QED
  BY <1>1, <1>2, <1>3 DEF ResultsInv

\* A step that adds no result leaves the results right.
LEMMA ResultsStay ==
    ASSUME ResultsInv, UNCHANGED <<dicts, no_fuzzy, res_list>>
    PROVE  ResultsInv'
<1>1. \A x : IsAsked(x)' <=> IsAsked(x)
  BY DEF IsAsked, Hits, Equal, SynOf, ListOf
<1> QED
  BY <1>1 DEF ResultsInv

\* Where the word being looked up is, and what it may be found at.
LEMMA WordAtHand ==
    ASSUME QueryTypes, plan # <<>>, lib \in 1 .. Len(dicts)
    PROVE  /\ word \in Word /\ lib \in Nat
           /\ \A w, c : Hits(lib, w, c) \subseteq Int
<1>1. word \in Word
  BY DEF QueryTypes, word
<1>2. PICK l \in Libraries : dicts = l.dicts
  BY DEF QueryTypes
<1>3. Len(dicts) \in Nat /\ DOMAIN dicts = 1 .. Len(dicts)
  BY <1>2, WordsOfDictionaries
<1>4. dicts[lib].words \in Seq(Word) /\ Range(dicts[lib].syn) \subseteq Int /\ lib \in Nat
  BY <1>2, <1>3, LibrariesAssumption
<1>5. DOMAIN ListOf(lib) \subseteq Int
  BY <1>4 DEF ListOf
<1>6. \A w \in DOMAIN SynOf(lib) : SynOf(lib)[w] \in Int
  BY <1>4 DEF SynOf, Range
<1> QED
  BY <1>1, <1>4, <1>5, <1>6 DEF Hits, Equal

\* LookupSimilarWord has found a base word, and is done.
LEMMA FoundIsAsked ==
    ASSUME QueryTypes, SimilarInv, ResultsInv, pc \in Similar, NEW b \in BaseWords(word),
           Found(b), UnchangedQuery
    PROVE  ResultsInv' /\ SimilarInv'
<1>1. plan # <<>> /\ lib \in 1 .. Len(dicts)
  BY DEF QueryTypes
<1>2. word \in Word /\ lib \in Nat /\ Hits(lib, b, TRUE) \subseteq Int
  BY <1>1, WordAtHand
<1>3. /\ ind' \in Hits(lib, b, TRUE)
      /\ res_list' = Append(res_list, [asked |-> word, lib |-> lib, ind |-> ind'])
      /\ pc' = "lookup" /\ rule' = 0 /\ tried' = <<>>
      /\ UNCHANGED <<dicts, no_fuzzy>>
  BY DEF Found, AddResult, NextDictionary, Clear, UnchangedQuery
<1> DEFINE r == [asked |-> word, lib |-> lib, ind |-> ind']
<1>4. r \in Result /\ r.lib = lib /\ r.asked = word /\ r.ind = ind'
  BY <1>2, <1>3 DEF Result
<1>5. IsAsked(r)
  <2>1. Hits(lib, word, FALSE) = {} /\ ~no_fuzzy
    BY DEF SimilarInv
  <2> HIDE DEF r
  <2> QED
    BY <1>3, <1>4, <2>1 DEF IsAsked
<1>6. ResultsInv'
  <2> HIDE DEF r
  <2>1. res_list' = Append(res_list, r)
    BY <1>3 DEF r
  <2> QED
    BY <1>3, <1>4, <1>5, <2>1, ResultAdded
<1>7. SimilarInv'
  <2>1. <<>> \in Seq(Word)
    OBVIOUS
  <2> QED
    BY <1>3, <2>1 DEF SimilarInv, Similar
<1> QED
  BY <1>6, <1>7

\* LookupSimilarWord is not at work.
LEMMA NotSimilar ==
    ASSUME pc' \notin Similar, rule' = 0, tried' = <<>>
    PROVE  SimilarInv'
<1>1. <<>> \in Seq(Word)
  OBVIOUS
<1> QED
  BY <1>1 DEF SimilarInv, Similar

\* It takes up a dictionary that has not the word.
LEMMA SimilarStarts ==
    ASSUME QueryTypes, SimilarInv, ResultsInv, SimpleLookupFound \/ SimpleLookupMissed
    PROVE  SimilarInv' /\ ResultsInv'
<1>1. /\ pc = "lookup" /\ plan # <<>> /\ lib <= Len(dicts) /\ UNCHANGED <<dicts, no_fuzzy>>
      /\ rule = 0 /\ tried = <<>>
  BY DEF SimpleLookupFound, SimpleLookupMissed, UnchangedQuery, SimilarInv, Similar
<1>2. lib \in 1 .. Len(dicts)
  BY <1>1, WordsOfDictionaries DEF QueryTypes
<1>3. word \in Word /\ lib \in Nat /\ Hits(lib, word, FALSE) \subseteq Int
  BY <1>1, <1>2, WordAtHand
<1>4. CASE SimpleLookupFound
  <2> DEFINE r == [asked |-> word, lib |-> lib, ind |-> ind']
  <2>1. /\ ind' \in Hits(lib, word, FALSE) /\ res_list' = Append(res_list, r)
        /\ pc' = "lookup" /\ rule' = 0 /\ tried' = <<>>
    BY <1>4 DEF SimpleLookupFound, AddResult, NextDictionary, Clear
  <2>2. r \in Result /\ r.lib = lib /\ r.asked = word /\ r.ind = ind'
    BY <1>3, <2>1 DEF Result
  <2> HIDE DEF r
  <2>3. IsAsked(r)
    BY <2>1, <2>2 DEF IsAsked
  <2>4. ResultsInv'
    BY <1>1, <2>1, <2>2, <2>3, ResultAdded
  <2> QED
    BY <2>1, <2>4, NotSimilar DEF Similar
<1>5. CASE SimpleLookupMissed
  <2>1. ResultsInv'
    BY <1>1, <1>5, ResultsStay DEF SimpleLookupMissed
  <2>2. CASE no_fuzzy
    BY <1>5, <2>1, <2>2, NotSimilar DEF SimpleLookupMissed, NextDictionary, Clear, Similar
  <2>3. CASE ~no_fuzzy
    <3>1. /\ pc' = "similar" /\ UNCHANGED <<rule, tried, plan, lib, dicts, no_fuzzy>>
          /\ Hits(lib, word, FALSE) = {}
      BY <1>1, <1>5, <2>3 DEF SimpleLookupMissed, UnchangedSimilar
    <3>2. Hits(lib, word, FALSE)' = Hits(lib, word, FALSE)
      BY <3>1 DEF Hits, Equal, SynOf, ListOf, word
    <3>3. <<>> \in Seq(Word)
      OBVIOUS
    <3>4. Hits(lib, word, FALSE)' = {}
      BY <3>1, <3>2
    <3>5. ~no_fuzzy' /\ rule' = 0 /\ tried' = <<>>
      BY <1>1, <2>3, <3>1
    <3>6. tried' \in Seq(Word) /\ rule' \in 0 .. 10 /\ ~(rule' > 0)
      BY <3>3, <3>5
    <3>7. SimilarInv'
      BY <3>1, <3>4, <3>5, <3>6 DEF SimilarInv, Similar
    <3> QED
      BY <2>1, <3>7
  <2> QED
    BY <2>2, <2>3
<1> QED
  BY <1>4, <1>5

\* What a step of LookupSimilarWord that finds nothing leaves alone.
LEMMA SameAtHand ==
    ASSUME QueryTypes, SimilarInv, ResultsInv, pc \in Similar,
           UNCHANGED <<dicts, no_fuzzy, plan, lib, res_list>>
    PROVE  /\ word' = word /\ word \in Word /\ ResultsInv'
           /\ Hits(lib, word, FALSE)' = {} /\ ~no_fuzzy'
<1>1. word' = word
  BY DEF word
<1>2. word \in Word
  BY WordAtHand DEF QueryTypes
<1>3. Hits(lib, word, FALSE)' = Hits(lib, word, FALSE)
  BY <1>1 DEF Hits, Equal, SynOf, ListOf
<1> QED
  BY <1>1, <1>2, <1>3, ResultsStay DEF SimilarInv

\* The next rule is at hand, or all rules are done.
LEMMA RuleIsDone ==
    ASSUME pc' = "similar", rule' \in 1 .. 10, tried' \in Seq(Word),
           Hits(lib, word, FALSE)' = {}, ~no_fuzzy', word' = word,
           IF IsPureEnglish(word) THEN ToSet(tried') = Tried(word, rule' - 1)
           ELSE rule' = 10 /\ ToSet(tried') = {word}
    PROVE  SimilarInv'
<1>1. rule' # 0 /\ rule' \in 0 .. 10
  OBVIOUS
<1> QED
  BY <1>1 DEF SimilarInv, Similar

\* The word itself, in any case.
LEMMA CaseIgnored ==
    ASSUME QueryTypes, SimilarInv, ResultsInv, IgnoreCase
    PROVE  SimilarInv' /\ ResultsInv'
<1>1. pc = "similar" /\ rule = 0 /\ UnchangedQuery /\ tried = <<>>
  BY DEF IgnoreCase, SimilarInv
<1>2. word \in Word
  BY <1>1, WordAtHand DEF QueryTypes, Similar
<1>3. CASE Found(word)
  <2>1. word \in BaseWords(word)
    BY <1>2, LooksUpBases
  <2> QED
    BY <1>1, <1>3, <2>1, FoundIsAsked DEF Similar
<1>4. CASE Missed(word) /\ IF ~IsPureEnglish(word) THEN pc' = pc /\ rule' = Len(Rules) + 1
                           ELSE NextRule
  <2>1. UNCHANGED <<dicts, no_fuzzy, plan, lib, res_list>> /\ tried' = Append(tried, word)
    BY <1>1, <1>4 DEF Missed, UnchangedQuery
  <2>2. /\ word' = word /\ ResultsInv' /\ Hits(lib, word, FALSE)' = {} /\ ~no_fuzzy'
    BY <1>1, <2>1, SameAtHand DEF Similar
  <2>3. tried' \in Seq(Word) /\ ToSet(tried') = {word}
    <3>1. ToSet(tried) = {} /\ tried \in Seq(Word)
      BY <1>1 DEF ToSet
    <3> QED
      BY <1>2, <2>1, <3>1, OneMore
  <2>4. /\ pc' = "similar" /\ rule' = IF IsPureEnglish(word) THEN 1 ELSE 10
    BY <1>1, <1>4, RulesAre DEF NextRule
  <2>5. Tried(word, 1 - 1) = {word}
    BY TriedNext
  <2>6. rule' \in 1 .. 10
    BY <2>4
  <2> QED
    BY <2>2, <2>3, <2>4, <2>5, <2>6, RuleIsDone
<1> QED
  BY <1>3, <1>4 DEF IgnoreCase

\* A rule that does not apply looks nothing up.
LEMMA RuleSkipped ==
    ASSUME QueryTypes, SimilarInv, ResultsInv, SkipRule
    PROVE  SimilarInv' /\ ResultsInv'
<1>1. /\ pc = "similar" /\ rule \in 1 .. 9 /\ pc' = "similar" /\ rule' = rule + 1
      /\ ~Applies(Rules[rule], word) /\ UNCHANGED <<dicts, no_fuzzy, plan, lib, res_list, tried>>
  BY RulesAre DEF SkipRule, NextRule, UnchangedQuery
<1>2. /\ word' = word /\ ResultsInv' /\ Hits(lib, word, FALSE)' = {} /\ ~no_fuzzy'
  BY <1>1, SameAtHand DEF Similar
<1>3. IsPureEnglish(word) /\ ToSet(tried) = Tried(word, rule - 1) /\ tried \in Seq(Word)
  BY <1>1 DEF SimilarInv
<1>4. TriedBy(rule, word) = {}
  BY <1>1 DEF TriedBy
<1>5. Tried(word, rule) = Tried(word, rule - 1)
  <2>1. Tried(word, rule) = Tried(word, rule - 1) \cup TriedBy(rule, word)
    BY <1>1, TriedNext
  <2> QED
    BY <1>4, <2>1
<1>6. rule' - 1 = rule /\ rule' \in 1 .. 10
  BY <1>1
<1> QED
  BY <1>1, <1>2, <1>3, <1>5, <1>6, RuleIsDone

\* The word is copied and cut.
LEMMA WordCut ==
    ASSUME NEW w \in Word, NEW k \in 1 .. Len(w)
    PROVE  LET buf == [Append(w, NUL) EXCEPT ![k] = NUL] IN
           /\ Holds(buf, Prefix(w, k - 1)) /\ Len(buf) = Len(w) + 1
           /\ \A j \in 1 .. Len(w) : j # k => buf[j] = w[j]
<1> DEFINE a == Append(w, NUL)
           buf == [a EXCEPT ![k] = NUL]
           u == Prefix(w, k - 1)
<1>1. /\ w \in Seq(Chars \cup {NUL}) /\ Len(w) \in Nat /\ k \in Nat /\ k >= 1 /\ k <= Len(w)
  BY DEF Word
<1>2. /\ a \in Seq(Chars \cup {NUL}) /\ Len(a) = Len(w) + 1
      /\ \A j \in 1 .. Len(w) : a[j] = w[j]
  BY <1>1
<1> HIDE DEF a
<1>3. /\ buf \in Seq(Chars \cup {NUL}) /\ Len(buf) = Len(a) /\ buf[k] = NUL
      /\ \A j \in 1 .. Len(w) : j # k => buf[j] = a[j]
  BY <1>1, <1>2
<1>4. k - 1 \in 0 .. Len(w) /\ \A j \in 1 .. k - 1 : j \in 1 .. Len(w) /\ j # k
  BY <1>1
<1>5. u \in Word /\ Len(u) = k - 1 /\ \A j \in 1 .. k - 1 : u[j] = w[j]
  BY <1>4, PrefixIs
<1> HIDE DEF buf, u
<1>6. Len(u) < Len(buf) /\ Len(u) + 1 = k
  BY <1>1, <1>2, <1>3, <1>5
<1>7. \A j \in 1 .. Len(u) : buf[j] = u[j]
  BY <1>2, <1>3, <1>4, <1>5
<1>8. Holds(buf, u)
  BY <1>3, <1>5, <1>6, <1>7 DEF Holds
<1> QED
  BY <1>2, <1>3, <1>8 DEF buf, u, a

\* What is in the buffer is cut again.
LEMMA CutShorter ==
    ASSUME NEW buf, NEW w \in Word, NEW m \in 0 .. Len(w), NEW k \in 1 .. m,
           Holds(buf, Prefix(w, m))
    PROVE  LET new == [buf EXCEPT ![k] = NUL] IN
           /\ Holds(new, Prefix(w, k - 1)) /\ Len(new) = Len(buf)
           /\ \A j \in 1 .. Len(buf) : j # k => new[j] = buf[j]
<1> DEFINE new == [buf EXCEPT ![k] = NUL]
           u == Prefix(w, m)
           v == Prefix(w, k - 1)
<1>1. /\ Len(w) \in Nat /\ m \in Nat /\ k \in Nat /\ k >= 1 /\ k <= m /\ m <= Len(w)
      /\ k - 1 \in 0 .. Len(w)
  BY DEF Word
<1>2. Len(u) = m /\ \A j \in 1 .. m : u[j] = w[j]
  BY PrefixIs
<1>3. v \in Word /\ Len(v) = k - 1 /\ \A j \in 1 .. k - 1 : v[j] = w[j]
  BY <1>1, PrefixIs
<1> HIDE DEF u, v
<1>4. /\ buf \in Seq(Chars \cup {NUL}) /\ Len(buf) \in Nat /\ m < Len(buf)
      /\ \A j \in 1 .. m : buf[j] = u[j]
  BY <1>2 DEF Holds, u
<1>5. /\ new \in Seq(Chars \cup {NUL}) /\ Len(new) = Len(buf) /\ new[k] = NUL
      /\ \A j \in 1 .. Len(buf) : j # k => new[j] = buf[j]
  BY <1>1, <1>4
<1>6. \A j \in 1 .. k - 1 : j \in 1 .. m /\ j \in 1 .. Len(buf) /\ j # k
  BY <1>1, <1>4
<1> HIDE DEF new
<1>7. \A j \in 1 .. Len(v) : new[j] = v[j]
  BY <1>2, <1>3, <1>4, <1>5, <1>6
<1>8. Len(v) < Len(new) /\ Len(v) + 1 = k
  BY <1>1, <1>3, <1>4, <1>5
<1>9. Holds(new, v)
  BY <1>3, <1>5, <1>7, <1>8 DEF Holds
<1> QED
  BY <1>5, <1>9 DEF new, v

\* A rule takes the word and cuts it.
LEMMA RuleStarts ==
    ASSUME QueryTypes, SimilarInv, ResultsInv, StartRule
    PROVE  SimilarInv' /\ ResultsInv'
<1> DEFINE c == Rules[rule].cut
           m == Len(word) - c
           k == m + 1
           stem == [Append(word, NUL) EXCEPT ![Len(word) - Rules[rule].cut + 1] = NUL]
<1>1. /\ pc = "similar" /\ rule \in 1 .. 9 /\ Applies(Rules[rule], word)
      /\ endings' = Rules[rule].endings
      /\ IF DoubledAt(Rules[rule], word)
         THEN pc' = "doubled" /\ sNewWord' = [stem EXCEPT ![m] = NUL]
         ELSE pc' = "ending" /\ sNewWord' = stem
      /\ UNCHANGED <<dicts, no_fuzzy, plan, lib, rule, tried, res_list>>
  BY RulesAre DEF StartRule, UnchangedQuery
<1>2. /\ word' = word /\ word \in Word /\ ResultsInv' /\ Hits(lib, word, FALSE)' = {} /\ ~no_fuzzy'
  BY <1>1, SameAtHand DEF Similar
<1>3. IsPureEnglish(word) /\ ToSet(tried) = Tried(word, rule - 1) /\ tried \in Seq(Word)
  BY <1>1 DEF SimilarInv
<1>4. InRule /\ InRule'
  BY <1>1, <1>2, <1>3 DEF InRule
<1>5. Len(word) \in Nat /\ c \in 1 .. 3 /\ m \in 0 .. Len(word)
  BY <1>1, <1>2, StemIsWord DEF Word
<1>6. k \in 1 .. Len(word) /\ k - 1 = m
  <2> HIDE DEF c
  <2> QED
    BY <1>5
<1>7. /\ Holds(stem, Prefix(word, m)) /\ Len(stem) = Len(word) + 1
      /\ stem[k] = NUL
  <2>1. stem = [Append(word, NUL) EXCEPT ![k] = NUL]
    OBVIOUS
  <2> HIDE DEF k, m, stem
  <2>2. Holds(stem, Prefix(word, k - 1)) /\ Len(stem) = Len(word) + 1
    BY <1>2, <1>6, <2>1, WordCut
  <2>3. Len(Prefix(word, m)) = m
    BY <1>2, <1>5, PrefixIs
  <2>4. Holds(stem, Prefix(word, m))
    BY <1>6, <2>2
  <2>5. m + 1 = k
    BY DEF k
  <2> QED
    BY <2>2, <2>3, <2>4, <2>5 DEF Holds
<1>8. CASE DoubledAt(Rules[rule], word)
  <2> DEFINE new == [stem EXCEPT ![m] = NUL]
  <2>1. m > 3
    BY <1>8 DEF DoubledAt
  <2>2. m \in 1 .. m /\ k \in 1 .. Len(word) + 1 /\ k # m
    <3> HIDE DEF c
    <3> QED
      BY <1>5, <2>1
  <2>3. /\ Holds(new, Prefix(word, m - 1)) /\ Len(new) = Len(word) + 1 /\ new[k] = NUL
    <3>1. m \in 1 .. m /\ word \in Word /\ m \in 0 .. Len(word) /\ Holds(stem, Prefix(word, m))
      BY <1>2, <1>5, <1>7, <2>2
    <3> HIDE DEF m, k, stem
    <3>2. /\ Holds([stem EXCEPT ![m] = NUL], Prefix(word, m - 1))
          /\ Len([stem EXCEPT ![m] = NUL]) = Len(stem)
          /\ \A j \in 1 .. Len(stem) : j # m => [stem EXCEPT ![m] = NUL][j] = stem[j]
      BY <3>1, CutShorter
    <3> QED
      BY <1>7, <2>2, <3>2
  <2>4. pc' = "doubled" /\ sNewWord' = new
    BY <1>1, <1>8
  <2> HIDE DEF new, stem
  <2>5. /\ Buffered(Prefix(word, Len(word) - Rules[rule].cut - 1))'
        /\ sNewWord'[Len(word) - Rules[rule].cut + 1] = NUL
    BY <1>1, <1>2, <2>3, <2>4 DEF Buffered
  <2>6. SimilarInv'
    BY <1>1, <1>2, <1>3, <1>4, <1>8, <2>4, <2>5 DEF SimilarInv, Similar
  <2> QED
    BY <1>2, <2>6
<1>9. CASE ~DoubledAt(Rules[rule], word)
  <2>1. pc' = "ending" /\ sNewWord' = stem
    BY <1>1, <1>9
  <2> HIDE DEF stem
  <2>2. Buffered(StemOf(rule, word))'
    BY <1>1, <1>2, <1>7, <2>1 DEF Buffered, StemOf
  <2>3. ShortOf(rule, word) = {}
    BY <1>9 DEF ShortOf
  <2>4. ToSet(tried') = Tried(word, rule - 1) \cup ShortOf(rule, word)
    BY <1>1, <1>3, <2>3
  <2>5. SimilarInv'
    BY <1>1, <1>2, <1>3, <1>4, <2>1, <2>2, <2>4 DEF SimilarInv, Similar
  <2> QED
    BY <1>2, <2>5
<1> QED
  BY <1>8, <1>9

\* The stem without the second of two equal consonants.
LEMMA DoubledTried ==
    ASSUME QueryTypes, SimilarInv, ResultsInv, TryDoubled
    PROVE  SimilarInv' /\ ResultsInv'
<1> DEFINE m == Len(word) - Rules[rule].cut
           u == Prefix(word, m - 1)
<1>1. /\ pc = "doubled" /\ UnchangedQuery /\ InRule /\ DoubledAt(Rules[rule], word)
      /\ Holds(sNewWord, u) /\ Len(sNewWord) = Len(word) + 1 /\ sNewWord[m + 1] = NUL
      /\ endings = Rules[rule].endings
      /\ ToSet(tried) = Tried(word, rule - 1) /\ tried \in Seq(Word)
  BY DEF TryDoubled, SimilarInv, Buffered
<1>2. /\ word \in Word /\ rule \in 1 .. 9 /\ IsPureEnglish(word) /\ Applies(Rules[rule], word)
  BY <1>1, WordAtHand DEF QueryTypes, Similar, InRule
<1>3. CString(sNewWord) = u /\ u \in Word
  BY <1>1, HeldIs DEF Holds
<1>4. ShortOf(rule, word) = {u}
  BY <1>1 DEF ShortOf
<1>5. CASE Found(CString(sNewWord))
  <2>1. u \in TriedBy(rule, word)
    BY <1>2, <1>4 DEF TriedBy
  <2>2. u \in BaseWords(word)
    BY <1>2, <2>1, LooksUpBases
  <2> HIDE DEF u
  <2> QED
    BY <1>1, <1>3, <1>5, <2>2, FoundIsAsked DEF Similar
<1>6. CASE Missed(CString(sNewWord)) /\ sNewWord' = Restored /\ pc' = "ending"
           /\ UNCHANGED <<rule, endings>>
  <2>1. UNCHANGED <<dicts, no_fuzzy, plan, lib, res_list>> /\ tried' = Append(tried, u)
    BY <1>1, <1>3, <1>6 DEF Missed, UnchangedQuery
  <2>2. /\ word' = word /\ ResultsInv' /\ Hits(lib, word, FALSE)' = {} /\ ~no_fuzzy'
    BY <1>1, <2>1, SameAtHand DEF Similar
  <2>3. /\ tried' \in Seq(Word)
        /\ ToSet(tried') = Tried(word, rule - 1) \cup ShortOf(rule, word)
    <3> HIDE DEF u
    <3> QED
      BY <1>1, <1>3, <1>4, <2>1, OneMore
  <2>4. Buffered(StemOf(rule, word))'
    <3>1. /\ Len(word) \in Nat /\ m \in 0 .. Len(word) /\ m > 3
          /\ word[m] = word[m - 1]
      BY <1>1, <1>2, StemIsWord DEF DoubledAt, Word
    <3>2. /\ StemOf(rule, word) \in Word /\ Len(StemOf(rule, word)) = m
          /\ \A j \in 1 .. m : StemOf(rule, word)[j] = word[j]
      BY <1>2, StemIsWord
    <3>3. sNewWord' = [sNewWord EXCEPT ![m] = sNewWord[m - 1]]
      BY <1>6 DEF Restored
    <3> HIDE DEF m
    <3>4. m - 1 \in 0 .. Len(word) /\ m - 1 \in 1 .. m - 1 /\ m \in 1 .. Len(word) + 1
      BY <3>1
    <3>5. Len(u) = m - 1 /\ \A j \in 1 .. m - 1 : u[j] = word[j]
      BY <1>2, <3>4, PrefixIs DEF u
    <3>6. \A j \in 1 .. m - 1 : sNewWord[j] = word[j]
      BY <1>1, <3>5 DEF Holds
    <3>7. sNewWord \in Seq(Chars \cup {NUL})
      BY <1>1 DEF Holds
    <3>8. sNewWord[m - 1] = word[m] /\ word[m] \in Chars
      <4>1. m \in 1 .. Len(word)
        BY <3>1
      <4>2. word[m] \in Chars
        BY <1>2, <4>1, ElementOfSeq DEF Word
      <4> QED
        BY <3>1, <3>4, <3>6, <4>2
    <3>9. /\ sNewWord' \in Seq(Chars \cup {NUL}) /\ Len(sNewWord') = Len(word) + 1
          /\ sNewWord'[m] = word[m] /\ sNewWord'[m + 1] = NUL
          /\ \A j \in 1 .. m - 1 : sNewWord'[j] = word[j]
      BY <1>1, <3>1, <3>3, <3>4, <3>6, <3>7, <3>8
    <3>10. \A j \in 1 .. m : sNewWord'[j] = word[j]
      <4>1. \A j \in 1 .. m : j = m \/ j \in 1 .. m - 1
        BY <3>1
      <4> QED
        BY <3>9, <4>1
    <3>11. m < Len(word) + 1
      BY <3>1
    <3>12. Holds(sNewWord', StemOf(rule, word))
      BY <3>2, <3>9, <3>10, <3>11 DEF Holds
    <3> QED
      BY <1>6, <2>2, <3>9, <3>12 DEF Buffered
  <2>5. InRule'
    BY <1>2, <1>6, <2>2 DEF InRule
  <2>6. SimilarInv'
    BY <1>1, <1>6, <2>1, <2>2, <2>3, <2>4, <2>5 DEF SimilarInv, Similar
  <2> QED
    BY <2>2, <2>6
<1> QED
  BY <1>5, <1>6 DEF TryDoubled

\* What a rule puts behind the stem.
LEMMA EndingPut ==
    ASSUME NEW u, Buffered(u), Len(u) < Len(word)
    PROVE  /\ Append0(sNewWord, NoWord) = sNewWord /\ CString(sNewWord) = u
           /\ \A c \in Chars : CString(Append0(sNewWord, <<c>>)) = Append(u, c)
<1>1. Holds(sNewWord, u) /\ Len(sNewWord) = Len(word) + 1 /\ Len(u) \in Nat
  BY DEF Buffered, Holds, Word
<1>2. Len(u) + 2 <= Len(sNewWord)
  <2>1. Len(sNewWord) \in Nat
    BY <1>1 DEF Holds
  <2> QED
    BY <1>1, <2>1
<1>3. ASSUME NEW c \in Chars PROVE CString(Append0(sNewWord, <<c>>)) = Append(u, c)
  <2>1. Holds(Append0(sNewWord, <<c>>), Append(u, c))
    BY <1>1, <1>2, StrcatIs
  <2> QED
    BY <2>1, HeldIs
<1> QED
  BY <1>1, <1>3, HeldIs DEF Append0

\* The lookups of an ending: what is left of the rule afterwards.
LEMMA EndingIs ==
    ASSUME QueryTypes, SimilarInv, pc = "ending"
    PROVE  LET buf == Append0(sNewWord, Head(endings))
               b == CString(buf)
           IN  /\ b \in Word /\ b \in Behind(rule, word)
               /\ \/ Tail(endings) = <<>> /\ ToSet(tried) \cup {b} = Tried(word, rule)
                  \/ /\ rule = 3 /\ buf = sNewWord /\ Tail(endings) = <<<<"e">>>>
                     /\ ToSet(tried) \cup {b} =
                           Tried(word, 2) \cup ShortOf(3, word) \cup {StemOf(3, word)}
<1> DEFINE u == StemOf(rule, word)
           buf == Append0(sNewWord, Head(endings))
           b == CString(buf)
           short == ShortOf(rule, word)
           before == Tried(word, rule - 1)
<1>1. /\ InRule /\ Buffered(u)
      /\ \/ endings = Rules[rule].endings /\ ToSet(tried) = before \cup short
         \/ rule = 3 /\ endings = <<<<"e">>>> /\ ToSet(tried) = Tried(word, 2) \cup ShortOf(3, word)
                                                                   \cup {StemOf(3, word)}
  BY DEF SimilarInv
<1>2. /\ word \in Word /\ rule \in 1 .. 9 /\ Applies(Rules[rule], word)
  BY <1>1, WordAtHand DEF QueryTypes, Similar, InRule
<1>3. u \in Word /\ Len(u) < Len(word)
  <2>1. /\ u \in Word /\ Len(u) = Len(word) - Rules[rule].cut /\ Rules[rule].cut \in 1 .. 3
        /\ Len(word) \in Nat
    BY <1>2, StemIsWord DEF Word
  <2> HIDE DEF u
  <2> QED
    BY <2>1
<1>4. /\ Append0(sNewWord, NoWord) = sNewWord /\ CString(sNewWord) = u
      /\ \A c \in Chars : CString(Append0(sNewWord, <<c>>)) = Append(u, c)
  <2> HIDE DEF u
  <2> QED
    BY <1>1, <1>3, EndingPut
<1>5. Tried(word, rule) = before \cup (short \cup Behind(rule, word))
  <2>1. Tried(word, rule) = Tried(word, rule - 1) \cup TriedBy(rule, word)
    BY <1>2, TriedNext
  <2> QED
    BY <1>2, <2>1 DEF TriedBy
<1>6. "e" \in Chars /\ "y" \in Chars
  BY CharsAssumption
<1> DEFINE Is == /\ b \in Word /\ b \in Behind(rule, word)
                 /\ \/ Tail(endings) = <<>> /\ ToSet(tried) \cup {b} = Tried(word, rule)
                    \/ /\ rule = 3 /\ buf = sNewWord /\ Tail(endings) = <<<<"e">>>>
                       /\ ToSet(tried) \cup {b} =
                            Tried(word, 2) \cup ShortOf(3, word) \cup {StemOf(3, word)}
<1>7. ASSUME endings = <<NoWord>>, endings = Rules[rule].endings,
             ToSet(tried) = before \cup short
      PROVE  Is
  <2>1. Head(endings) = NoWord /\ Tail(endings) = <<>>
    BY <1>7
  <2>2. b = u
    BY <1>4, <2>1
  <2>3. Behind(rule, word) = {u}
    BY <1>3, <1>7, PutBehind
  <2> HIDE DEF u, b, before, short
  <2>4. ToSet(tried) \cup {b} = Tried(word, rule)
    BY <1>5, <1>7, <2>2, <2>3
  <2> QED
    BY <1>3, <2>1, <2>2, <2>3, <2>4
<1>8. ASSUME endings = <<<<"y">>>>, endings = Rules[rule].endings,
             ToSet(tried) = before \cup short
      PROVE  Is
  <2>1. Head(endings) = <<"y">> /\ Tail(endings) = <<>>
    BY <1>8
  <2>2. b = Append(u, "y")
    BY <1>4, <1>6, <2>1
  <2>3. Behind(rule, word) = {Append(u, "y")}
    BY <1>3, <1>6, <1>8, PutBehind
  <2>4. Append(u, "y") \in Word
    BY <1>3, <1>6, AppendIs
  <2> HIDE DEF u, b, before, short
  <2>5. ToSet(tried) \cup {b} = Tried(word, rule)
    BY <1>5, <1>8, <2>2, <2>3
  <2> QED
    BY <2>1, <2>2, <2>3, <2>4, <2>5
<1>9. ASSUME rule = 3, endings = <<NoWord, <<"e">>>>, endings = Rules[rule].endings,
             ToSet(tried) = before \cup short
      PROVE  Is
  <2>1. Head(endings) = NoWord /\ Tail(endings) = <<<<"e">>>>
    BY <1>9
  <2>2. buf = sNewWord /\ b = u
    BY <1>4, <2>1
  <2>3. Behind(rule, word) = {u, Append(u, "e")}
    BY <1>3, <1>6, <1>9, PutBehind
  <2>4. before = Tried(word, 2) /\ short = ShortOf(3, word) /\ u = StemOf(3, word)
    <3>1. rule - 1 = 2
      BY <1>9
    <3> QED
      BY <1>9, <3>1
  <2> HIDE DEF u, b, before, short, buf
  <2> QED
    BY <1>3, <1>9, <2>1, <2>2, <2>3, <2>4
<1>10. ASSUME rule = 3, endings = <<<<"e">>>>, Rules[rule].endings = <<NoWord, <<"e">>>>,
              ToSet(tried) = Tried(word, 2) \cup ShortOf(3, word) \cup {StemOf(3, word)}
       PROVE  Is
  <2>1. Head(endings) = <<"e">> /\ Tail(endings) = <<>>
    BY <1>10
  <2>2. b = Append(u, "e")
    BY <1>4, <1>6, <2>1
  <2>3. Behind(rule, word) = {u, Append(u, "e")}
    BY <1>3, <1>6, <1>10, PutBehind
  <2>4. Append(u, "e") \in Word
    BY <1>3, <1>6, AppendIs
  <2>5. before = Tried(word, 2) /\ short = ShortOf(3, word) /\ u = StemOf(3, word)
    <3>1. rule - 1 = 2
      BY <1>10
    <3> QED
      BY <1>10, <3>1
  <2> HIDE DEF u, b, before, short
  <2>6. ToSet(tried) \cup {b} = Tried(word, rule)
    BY <1>5, <1>10, <2>2, <2>3, <2>5
  <2> QED
    BY <2>1, <2>2, <2>3, <2>4, <2>6
<1>11. \/ Rules[rule].endings = <<NoWord>> \/ Rules[rule].endings = <<<<"y">>>>
       \/ rule = 3 /\ Rules[rule].endings = <<NoWord, <<"e">>>>
  <2>1. \/ rule = 1 \/ rule = 2 \/ rule = 3 \/ rule = 4 \/ rule = 5 \/ rule = 6 \/ rule = 7
        \/ rule = 8 \/ rule = 9
    BY <1>2
  <2> QED
    BY <2>1, RulesAre DEF Fields
<1>12. rule = 3 => Rules[rule].endings = <<NoWord, <<"e">>>>
  BY RulesAre DEF Fields
<1>13. Is
  <2> HIDE DEF Is, before, short, u
  <2> QED
    BY <1>1, <1>7, <1>8, <1>9, <1>10, <1>11, <1>12
<1> QED
  BY <1>13

\* The stem, with each of the endings of the rule.
LEMMA EndingTried ==
    ASSUME QueryTypes, SimilarInv, ResultsInv, TryEnding
    PROVE  SimilarInv' /\ ResultsInv'
<1> DEFINE buf == Append0(sNewWord, Head(endings))
           b == CString(buf)
<1>1. /\ pc = "ending" /\ UnchangedQuery /\ InRule /\ tried \in Seq(Word)
      /\ Buffered(StemOf(rule, word))
  BY DEF TryEnding, SimilarInv
<1>2. /\ word \in Word /\ rule \in 1 .. 9 /\ IsPureEnglish(word) /\ Applies(Rules[rule], word)
  BY <1>1, WordAtHand DEF QueryTypes, Similar, InRule
<1>3. /\ b \in Word /\ b \in Behind(rule, word)
      /\ \/ Tail(endings) = <<>> /\ ToSet(tried) \cup {b} = Tried(word, rule)
         \/ /\ rule = 3 /\ buf = sNewWord /\ Tail(endings) = <<<<"e">>>>
            /\ ToSet(tried) \cup {b} =
                  Tried(word, 2) \cup ShortOf(3, word) \cup {StemOf(3, word)}
  BY <1>1, EndingIs
<1>4. CASE Found(b)
  <2>1. b \in TriedBy(rule, word)
    BY <1>2, <1>3 DEF TriedBy
  <2>2. b \in BaseWords(word)
    BY <1>2, <2>1, LooksUpBases
  <2> HIDE DEF b
  <2> QED
    BY <1>1, <1>4, <2>2, FoundIsAsked DEF Similar
<1>5. CASE /\ Missed(b) /\ sNewWord' = buf /\ endings' = Tail(endings)
           /\ IF Tail(endings) = <<>> THEN NextRule ELSE UNCHANGED <<pc, rule>>
  <2>1. UNCHANGED <<dicts, no_fuzzy, plan, lib, res_list>> /\ tried' = Append(tried, b)
    BY <1>1, <1>5 DEF Missed, UnchangedQuery
  <2>2. /\ word' = word /\ ResultsInv' /\ Hits(lib, word, FALSE)' = {} /\ ~no_fuzzy'
    BY <1>1, <2>1, SameAtHand DEF Similar
  <2>3. tried' \in Seq(Word) /\ ToSet(tried') = ToSet(tried) \cup {b}
    <3> HIDE DEF b
    <3> QED
      BY <1>1, <1>3, <2>1, OneMore
  <2>4. CASE Tail(endings) = <<>> /\ ToSet(tried) \cup {b} = Tried(word, rule)
    <3>1. pc' = "similar" /\ rule' = rule + 1
      BY <1>5, <2>4 DEF NextRule
    <3>2. rule' \in 1 .. 10 /\ rule' - 1 = rule
      BY <1>2, <3>1
    <3>3. ToSet(tried') = Tried(word, rule' - 1)
      BY <2>3, <2>4, <3>2
    <3> QED
      BY <1>2, <2>2, <2>3, <3>1, <3>2, <3>3, RuleIsDone
  <2>5. CASE /\ rule = 3 /\ buf = sNewWord /\ Tail(endings) = <<<<"e">>>>
             /\ ToSet(tried) \cup {b} =
                   Tried(word, 2) \cup ShortOf(3, word) \cup {StemOf(3, word)}
    <3>1. Tail(endings) # <<>>
      BY <2>5
    <3>2. /\ pc' = "ending" /\ rule' = rule /\ sNewWord' = sNewWord /\ endings' = <<<<"e">>>>
          /\ rule' = 3
      BY <1>1, <1>5, <2>5, <3>1
    <3>3. InRule' /\ Buffered(StemOf(rule, word))'
      BY <1>1, <2>2, <3>2 DEF InRule, Buffered
    <3>4. ToSet(tried') = Tried(word, 2) \cup ShortOf(3, word) \cup {StemOf(3, word)}
      BY <2>3, <2>5
    <3> HIDE DEF b, buf
    <3>5. SimilarInv'
      BY <2>2, <2>3, <3>2, <3>3, <3>4 DEF SimilarInv, Similar
    <3> QED
      BY <2>2, <3>5
  <2> QED
    BY <1>3, <2>4, <2>5
<1> QED
  BY <1>4, <1>5 DEF TryEnding

\* Outside LookupSimilarWord nothing is looked up by a rule.
LEMMA NotAtWork ==
    ASSUME SimilarInv, ResultsInv, pc \notin Similar, pc' \notin Similar,
           UNCHANGED <<dicts, no_fuzzy, res_list, rule, tried>>
    PROVE  SimilarInv' /\ ResultsInv'
<1>1. rule' = 0 /\ tried' = <<>>
  BY DEF SimilarInv
<1> QED
  BY <1>1, NotSimilar, ResultsStay

\* Nothing was looked up yet, and there are no results.
LEMMA SimilarBegins == Init => SimilarInv /\ ResultsInv
<1> SUFFICES ASSUME Init PROVE SimilarInv /\ ResultsInv
  OBVIOUS
<1>1. <<>> \in Seq(Word) /\ <<>> \in Seq(Result) /\ DOMAIN <<>> = {}
  OBVIOUS
<1>2. pc = "idle" /\ rule = 0 /\ tried = <<>> /\ res_list = <<>>
  BY DEF Init
<1>3. SimilarInv
  BY <1>1, <1>2 DEF SimilarInv, Similar
<1>4. ResultsInv
  BY <1>1, <1>2 DEF ResultsInv
<1> QED
  BY <1>3, <1>4

\* Every step keeps what is said of the lookups and of the results.
LEMMA SimilarKept ==
    QueryTypes /\ SimilarInv /\ ResultsInv /\ [Next]_vars => SimilarInv' /\ ResultsInv'
<1> SUFFICES ASSUME QueryTypes, SimilarInv, ResultsInv, [Next]_vars
             PROVE  SimilarInv' /\ ResultsInv'
  OBVIOUS
<1>1. ASSUME NEW s \in Phrases, ProcessPhrase(s) PROVE SimilarInv' /\ ResultsInv'
  <2>1. /\ res_list' = <<>> /\ rule' = 0 /\ tried' = <<>>
        /\ kind' = IF s = NoWord THEN "none" ELSE AnalyzeQuery(s).kind
        /\ pc' = CASE kind' = "none" -> "idle" [] kind' = "simple" -> "lookup"
                   [] OTHER -> kind'
    BY <1>1 DEF ProcessPhrase, Clear
  <2>2. s \in Word
    BY PhrasesAssumption
  <2>3. kind' \in {"none", "fuzzy", "data", "regexp", "simple"}
    BY <2>1, <2>2, AnalyzeIs DEF NoWord
  <2>4. pc' \notin Similar
    BY <2>1, <2>3 DEF Similar
  <2>5. <<>> \in Seq(Result) /\ DOMAIN <<>> = {}
    OBVIOUS
  <2>6. ResultsInv'
    BY <2>1, <2>5 DEF ResultsInv
  <2> QED
    BY <2>1, <2>4, <2>6, NotSimilar
<1>2. CASE LookupWithFuzzy \/ LookupData \/ LookupWithRule \/ SortMatches
  BY <1>2, NotAtWork DEF LookupWithFuzzy, LookupData, LookupWithRule, SortMatches,
     UnchangedQuery, UnchangedSimilar, Similar
<1>3. CASE PlanDone \/ WordDone
  BY <1>3, NotAtWork DEF PlanDone, WordDone, UnchangedQuery, UnchangedSimilar, Similar
<1>4. CASE SimpleLookupFound \/ SimpleLookupMissed
  BY <1>4, SimilarStarts
<1>5. CASE IgnoreCase
  BY <1>5, CaseIgnored
<1>6. CASE StartRule
  BY <1>6, RuleStarts
<1>7. CASE SkipRule
  BY <1>7, RuleSkipped
<1>8. CASE TryDoubled
  BY <1>8, DoubledTried
<1>9. CASE TryEnding
  BY <1>9, EndingTried
<1>10. CASE NothingSimilar
  <2>1. /\ pc' = "lookup" /\ rule' = 0 /\ tried' = <<>>
        /\ UNCHANGED <<dicts, no_fuzzy, res_list>>
    BY <1>10 DEF NothingSimilar, NextDictionary, Clear, UnchangedQuery
  <2> QED
    BY <2>1, NotSimilar, ResultsStay DEF Similar
<1>11. CASE UNCHANGED vars
  <2>1. UNCHANGED <<dicts, no_fuzzy, plan, lib, pc, rule, sNewWord, endings, tried, res_list>>
    BY <1>11 DEF vars
  <2>2. word' = word /\ Hits(lib, word, FALSE)' = Hits(lib, word, FALSE)
    BY <2>1 DEF word, Hits, Equal, SynOf, ListOf
  <2>3. ResultsInv'
    BY <2>1, ResultsStay
  <2>4. InRule' = InRule /\ \A u : Buffered(u)' = Buffered(u)
    BY <2>1, <2>2 DEF InRule, Buffered
  <2>5. SimilarInv'
    BY <2>1, <2>2, <2>4 DEF SimilarInv
  <2> QED
    BY <2>3, <2>5
<1> QED
  BY <1>1, <1>2, <1>3, <1>4, <1>5, <1>6, <1>7, <1>8, <1>9, <1>10, <1>11 DEF Next, Step

\* At the end the rules have looked up all base words.
LEMMA BasesTriedIs == QueryTypes /\ SimilarInv => AllBasesTried
<1> SUFFICES ASSUME QueryTypes, SimilarInv, pc = "similar", rule > Len(Rules)
             PROVE  ToSet(tried) = BaseWords(word)
  BY DEF AllBasesTried
<1>1. rule \in 0 .. 10 /\ rule > 9
  BY RulesAre DEF SimilarInv
<1>2. rule = 10 /\ rule > 0 /\ rule - 1 = 9
  BY <1>1
<1>3. IF IsPureEnglish(word) THEN ToSet(tried) = Tried(word, 9) ELSE ToSet(tried) = {word}
  BY <1>2 DEF SimilarInv
<1>4. word \in Word
  BY WordAtHand DEF QueryTypes, Similar
<1> QED
  BY <1>3, <1>4, BasesAre DEF BaseWords

\* The results are as ResultsAreAsked says.
LEMMA ResultsAskedIs == ResultsInv => ResultsAreAsked
BY DEF ResultsInv, ResultsAreAsked, IsAsked
-----------------------------------------------------------------------------
(* The page: what is taken from some places of a sequence.                  *)

\* How many numbers up to n are in M, the one of them at which this becomes i, and
\* what H has at them.
HowMany(M, n) == Cardinality(Below(M, n))
Nth(M, i) == CHOOSE p \in Nat : p \in M /\ p # 0 /\ HowMany(M, p) = i
Picked(M, n, H) == [i \in 1 .. HowMany(M, n) |-> H[Nth(M, i)]]

\* Counting up to one number more.
LEMMA CountNext ==
    ASSUME NEW M, NEW n \in Nat
    PROVE  /\ HowMany(M, n) \in Nat /\ HowMany(M, 0) = 0
           /\ HowMany(M, n + 1) = IF n + 1 \in M THEN HowMany(M, n) + 1 ELSE HowMany(M, n)
<1> DEFINE B == Below(M, n)
<1>1. IsFiniteSet(B) /\ Cardinality(B) \in Nat
  BY BelowFinite
<1>2. Below(M, n + 1) = IF n + 1 \in M THEN B \cup {n + 1} ELSE B
  BY BelowNext
<1>3. n + 1 \notin B
  BY BelowNext
<1>4. Below(M, 0) = {}
  BY DEF Below
<1>5. HowMany(M, n) = Cardinality(B)
  BY DEF HowMany
<1> HIDE DEF B
<1>6. Cardinality(B \cup {n + 1}) = Cardinality(B) + 1
  BY <1>1, <1>3, FS_AddElement
<1>7. HowMany(M, 0) = 0
  BY <1>4, FS_EmptySet DEF HowMany
<1> QED
  BY <1>1, <1>2, <1>5, <1>6, <1>7 DEF HowMany

\* A longer way has no less of them.
LEMMA CountGrows ==
    ASSUME NEW M, NEW m \in Nat, NEW n \in Nat, m <= n
    PROVE  /\ HowMany(M, m) <= HowMany(M, n)
           /\ n \in M /\ m < n => HowMany(M, m) < HowMany(M, n)
           /\ (\A k \in m + 1 .. n : k \notin M) => HowMany(M, m) = HowMany(M, n)
<1>1. ASSUME NEW k \in Nat, m <= k PROVE HowMany(M, m) <= HowMany(M, k)
  <2>1. Below(M, m) \subseteq Below(M, k)
    BY <1>1 DEF Below
  <2>2. IsFiniteSet(Below(M, k))
    BY BelowFinite
  <2> QED
    BY <2>1, <2>2, FS_Subset DEF HowMany
<1>2. ASSUME n \in M, m < n PROVE HowMany(M, m) < HowMany(M, n)
  <2>1. n - 1 \in Nat /\ m <= n - 1 /\ (n - 1) + 1 = n
    BY <1>2
  <2>2. HowMany(M, m) <= HowMany(M, n - 1) /\ HowMany(M, m) \in Nat /\ HowMany(M, n - 1) \in Nat
    BY <1>1, <2>1, CountNext
  <2>3. HowMany(M, n) = HowMany(M, n - 1) + 1
    BY <1>2, <2>1, CountNext
  <2> QED
    BY <2>2, <2>3
<1>3. ASSUME \A k \in m + 1 .. n : k \notin M PROVE HowMany(M, m) = HowMany(M, n)
  <2>1. Below(M, m) = Below(M, n)
    BY <1>3 DEF Below
  <2> QED
    BY <2>1 DEF HowMany
<1> QED
  BY <1>1, <1>2, <1>3

\* The number at which the count becomes what it is at p.
LEMMA NthIs ==
    ASSUME NEW M, NEW p \in Nat \ {0}, p \in M
    PROVE  Nth(M, HowMany(M, p)) = p
<1>1. ASSUME NEW q \in Nat, q \in M, HowMany(M, q) = HowMany(M, p) PROVE q = p
  <2>1. HowMany(M, p) \in Nat
    BY CountNext
  <2>2. ~(q < p) /\ ~(p < q)
    BY <1>1, <2>1, CountGrows
  <2> QED
    BY <2>2
<1> QED
  BY <1>1 DEF Nth

\* There is one for every count.
LEMMA NthThere ==
    ASSUME NEW M, NEW n \in Nat, NEW i \in 1 .. HowMany(M, n)
    PROVE  Nth(M, i) \in 1 .. n /\ Nth(M, i) \in M /\ HowMany(M, Nth(M, i)) = i
<1> DEFINE S == { k \in Nat : i <= HowMany(M, k) =>
                      \E p \in 1 .. k : p \in M /\ HowMany(M, p) = i }
<1>1. 0 \in S
  <2>1. HowMany(M, 0) = 0 /\ HowMany(M, n) \in Nat
    BY CountNext
  <2> QED
    BY <2>1
<1>2. ASSUME NEW k \in 0 .. n - 1, k \in S PROVE k + 1 \in S
  <2>1. /\ HowMany(M, k) \in Nat /\ HowMany(M, n) \in Nat
        /\ HowMany(M, k + 1) = IF k + 1 \in M THEN HowMany(M, k) + 1 ELSE HowMany(M, k)
    BY CountNext
  <2>2. k + 1 \in 1 .. k + 1 /\ k + 1 \in Nat /\ \A p \in 1 .. k : p \in 1 .. k + 1
    OBVIOUS
  <2>3. CASE i <= HowMany(M, k)
    BY <1>2, <2>2, <2>3
  <2>4. CASE ~(i <= HowMany(M, k))
    <3>1. i <= HowMany(M, k + 1) => k + 1 \in M /\ HowMany(M, k + 1) = i
      BY <2>1, <2>4
    <3> QED
      BY <2>2, <3>1
  <2> QED
    BY <2>3, <2>4
<1> HIDE DEF S
<1>3. n \in S
  BY <1>1, <1>2, UpTo
<1>4. i <= HowMany(M, n)
  BY CountNext
<1>5. PICK p \in 1 .. n : p \in M /\ HowMany(M, p) = i
  BY <1>3, <1>4 DEF S
<1>6. Nth(M, i) = p
  BY <1>5, NthIs
<1> QED
  BY <1>5, <1>6

\* One place more.
LEMMA PickedNext ==
    ASSUME NEW M, NEW n \in Nat, NEW H
    PROVE  /\ Len(Picked(M, n, H)) = HowMany(M, n)
           /\ Picked(M, 0, H) = <<>>
           /\ n + 1 \in M => Picked(M, n + 1, H) = Append(Picked(M, n, H), H[n + 1])
           /\ n + 1 \notin M => Picked(M, n + 1, H) = Picked(M, n, H)
<1> DEFINE c == HowMany(M, n)
           s == Picked(M, n, H)
           T == { H[Nth(M, i)] : i \in 1 .. c + 1 }
<1>1. /\ c \in Nat /\ HowMany(M, 0) = 0
      /\ HowMany(M, n + 1) = IF n + 1 \in M THEN c + 1 ELSE c
  BY CountNext
<1>2. Picked(M, 0, H) = <<>>
  BY <1>1 DEF Picked
<1>3. s = [i \in 1 .. c |-> H[Nth(M, i)]]
  BY DEF Picked
<1>4. s \in Seq(T) /\ Len(s) = c
  <2> HIDE DEF c, s
  <2> QED
    BY <1>1, <1>3
<1>5. ASSUME n + 1 \in M PROVE Picked(M, n + 1, H) = Append(s, H[n + 1])
  <2>1. Nth(M, c + 1) = n + 1
    BY <1>1, <1>5, NthIs
  <2>2. Picked(M, n + 1, H) = [i \in 1 .. c + 1 |-> H[Nth(M, i)]]
    BY <1>1, <1>5 DEF Picked
  <2>3. H[n + 1] \in T
    BY <1>1, <2>1
  <2> DEFINE x == H[n + 1]
             a == Append(s, x)
             b == Picked(M, n + 1, H)
  <2>4. a \in Seq(T) /\ Len(a) = c + 1 /\ a[c + 1] = x /\ \A i \in 1 .. c : a[i] = s[i]
    <3> HIDE DEF s, T, x, c
    <3> QED
      BY <1>1, <1>4, <2>3 DEF x
  <2>5. b \in Seq(T) /\ Len(b) = c + 1 /\ b[c + 1] = x /\ \A i \in 1 .. c : b[i] = s[i]
    <3>1. \A i \in 1 .. c + 1 : b[i] = H[Nth(M, i)] /\ H[Nth(M, i)] \in T
      BY <2>2
    <3>2. \A i \in 1 .. c : s[i] = H[Nth(M, i)] /\ i \in 1 .. c + 1
      BY <1>1, <1>3
    <3>3. c + 1 \in 1 .. c + 1
      BY <1>1
    <3>4. b = [i \in 1 .. c + 1 |-> b[i]]
      BY <2>2
    <3> HIDE DEF b, s, T, c
    <3>5. b \in Seq(T) /\ Len(b) = c + 1
      BY <1>1, <3>1, <3>4
    <3> QED
      BY <2>1, <3>1, <3>2, <3>3, <3>5 DEF c
  <2>6. \A i \in 1 .. c + 1 : i = c + 1 \/ i \in 1 .. c
    BY <1>1
  <2> HIDE DEF a, b, s, c, T, x
  <2>7. a = b
    BY <2>4, <2>5, <2>6, SeqEqual
  <2> QED
    BY <2>7 DEF a, b, x
<1>6. ASSUME n + 1 \notin M PROVE Picked(M, n + 1, H) = s
  BY <1>1, <1>3, <1>6 DEF Picked
<1> QED
  BY <1>2, <1>4, <1>5, <1>6

\* r[k] is the first k of the sequences s, put together.
Joins(S, r, n, s) ==
    r \in [0 .. n -> Seq(S)] /\ r[0] = <<>> /\ \A k \in 1 .. n : r[k] = r[k - 1] \o s[k]

\* FlattenSeq puts sequences together one after the other.
LEMMA FlattenIs ==
    ASSUME NEW S, NEW n \in Nat, NEW s \in [1 .. n -> Seq(S)], NEW r, Joins(S, r, n, s)
    PROVE  FlattenSeq(s) = r[n]
<1>0. Len(s) = n
  OBVIOUS
<1>3. r \in [0 .. n -> Seq(S)] /\ r[0] = <<>> /\ \A k \in 1 .. n : r[k] = r[k - 1] \o s[k]
  BY DEF Joins
<1>1. CASE n = 0
  <2>1. s = <<>>
    BY <1>1
  <2> QED
    BY <1>0, <1>1, <1>3, <2>1 DEF FlattenSeq
<1>2. CASE n # 0
  <2> DEFINE Next1(h, k) == IF k = 1 THEN s[k] ELSE h[k - 1] \o s[k]
             Is(h) == h = [k \in 1 .. n |-> Next1(h, k)]
             f == CHOOSE h : Is(h)
             g == [k \in 1 .. n |-> r[k]]
  <2>1. FlattenSeq(s) = f[n]
    BY <1>0, <1>2 DEF FlattenSeq
  <2>2. 1 \in 1 .. n /\ 1 - 1 = 0 /\ 0 + 1 = 1
        /\ \A k \in 1 .. n : k \in 0 .. n /\ k - 1 \in 0 .. n
                                         /\ (k # 1 => k - 1 \in 1 .. n)
    BY <1>2
  <2>3. r[1] = s[1]
    <3>1. r[1] = <<>> \o s[1] /\ s[1] \in Seq(S)
      BY <1>3, <2>2
    <3> QED
      BY <3>1
  <2>4. Is(g)
    <3>1. \A k \in 1 .. n : g[k] = r[k]
      OBVIOUS
    <3>2. \A k \in 1 .. n : g[k] = Next1(g, k)
      <4> HIDE DEF g
      <4> QED
        BY <1>3, <2>2, <2>3, <3>1
    <3>3. g = [k \in 1 .. n |-> g[k]]
      OBVIOUS
    <3> HIDE DEF g, Next1
    <3> QED
      BY <3>2, <3>3
  <2>5. Is(f)
    <3> HIDE DEF Is
    <3> QED
      BY <2>4
  <2>6. \A k \in 1 .. n : f[k] = Next1(f, k)
    <3> HIDE DEF f, Next1
    <3> QED
      BY <2>5
  <2> HIDE DEF f
  <2> DEFINE T == { k \in Nat : k < n => f[k + 1] = r[k + 1] }
  <2>7. 0 \in T
    <3>1. f[0 + 1] = r[0 + 1]
      BY <2>2, <2>3, <2>6
    <3> HIDE DEF Next1
    <3> QED
      BY <3>1
  <2>8. ASSUME NEW k \in 0 .. (n - 1) - 1, k \in T PROVE k + 1 \in T
    <3>1. k + 2 \in 1 .. n /\ k + 2 # 1 /\ (k + 2) - 1 = k + 1 /\ k < n /\ (k + 1) + 1 = k + 2
      OBVIOUS
    <3>2. f[k + 2] = f[k + 1] \o s[k + 2] /\ r[k + 2] = r[k + 1] \o s[k + 2]
      BY <1>3, <2>6, <3>1
    <3>3. f[k + 1] = r[k + 1]
      BY <2>8, <3>1
    <3>4. f[k + 2] = r[k + 2] /\ k + 1 \in Nat
      BY <3>2, <3>3
    <3> HIDE DEF Next1
    <3> QED
      BY <3>1, <3>4
  <2>9. n - 1 \in Nat /\ n - 1 < n /\ (n - 1) + 1 = n
    BY <1>2
  <2> HIDE DEF T
  <2>10. n - 1 \in T
    BY <2>7, <2>8, <2>9, UpTo
  <2>11. f[n] = r[n]
    BY <2>9, <2>10 DEF T
  <2> QED
    BY <2>1, <2>11
<1> QED
  BY <1>1, <1>2

\* There is what it puts together.
LEMMA FlattenExists ==
    ASSUME NEW S, NEW n \in Nat, NEW s \in [1 .. n -> Seq(S)]
    PROVE  \E r : Joins(S, r, n, s)
<1> DEFINE V == Seq(S)
           F == [x \in V \X (1 .. n) |-> x[1] \o s[x[2]]]
<1>1. <<>> \in V
  OBVIOUS
<1>2. \A v \in V, k \in 1 .. n : v \o s[k] \in V
  BY Concatenation
<1>3. F \in [V \X (1 .. n) -> V] /\ \A v \in V, k \in 1 .. n : F[<<v, k>>] = v \o s[k]
  <2> HIDE DEF V
  <2> QED
    BY <1>2
<1> HIDE DEF F
<1>4. PICK r \in [0 .. n -> V] : Steps(r, n, <<>>, F)
  <2> HIDE DEF V
  <2> QED
    BY <1>1, <1>3, StepsExist
<1>5. \A k \in 1 .. n : k - 1 \in 0 .. n
  OBVIOUS
<1> HIDE DEF V
<1>6. r[0] = <<>> /\ \A k \in 1 .. n : r[k] = r[k - 1] \o s[k]
  BY <1>3, <1>4, <1>5 DEF Steps
<1> QED
  BY <1>6 DEF V, Joins

\* Where nothing is, nothing is put: only the places in M count.
LEMMA FlattenPicked ==
    ASSUME NEW S, NEW M, NEW n \in Nat, NEW G, \A k \in 1 .. n : k \in M => G[k] \in Seq(S)
    PROVE  /\ FlattenSeq([k \in 1 .. n |-> IF k \in M THEN G[k] ELSE <<>>])
                = FlattenSeq(Picked(M, n, G))
           /\ FlattenSeq(Picked(M, n, G)) \in Seq(S)
<1> DEFINE s == [k \in 1 .. n |-> IF k \in M THEN G[k] ELSE <<>>]
           c == HowMany(M, n)
           t == Picked(M, n, G)
<1>1. c \in Nat /\ HowMany(M, 0) = 0
  BY CountNext
<1>2. <<>> \in Seq(S) /\ \A x \in Seq(S) : x \o <<>> = x
  OBVIOUS
<1>3. s \in [1 .. n -> Seq(S)]
  BY <1>2
<1>4. t \in [1 .. c -> Seq(S)] /\ \A i \in 1 .. c : t[i] = G[Nth(M, i)]
  <2>1. \A i \in 1 .. c : G[Nth(M, i)] \in Seq(S)
    BY NthThere
  <2> QED
    BY <2>1 DEF Picked
<1>5. \A k \in 1 .. n : s[k] = IF k \in M THEN G[k] ELSE <<>>
  OBVIOUS
<1> HIDE DEF s, t
<1>j. PICK r : Joins(S, r, c, t)
  <2>1. c \in Nat /\ t \in [1 .. c -> Seq(S)]
    BY <1>1, <1>4
  <2> HIDE DEF c
  <2> QED
    BY ONLY <2>1, FlattenExists
<1>6. r \in [0 .. c -> Seq(S)] /\ r[0] = <<>> /\ \A i \in 1 .. c : r[i] = r[i - 1] \o t[i]
  BY <1>j DEF Joins
<1>7. FlattenSeq(t) = r[c]
  <2> HIDE DEF c
  <2> QED
    BY <1>1, <1>4, <1>j, FlattenIs
<1> DEFINE u == [k \in 0 .. n |-> r[HowMany(M, k)]]
<1>8. ASSUME NEW k \in 0 .. n PROVE HowMany(M, k) \in 0 .. c
  <2>0. k \in Nat /\ k <= n
    OBVIOUS
  <2>1. HowMany(M, k) \in Nat /\ HowMany(M, k) <= HowMany(M, n)
    BY <2>0, CountNext, CountGrows
  <2> HIDE DEF c
  <2> QED
    BY <1>1, <2>1 DEF c
<1>9. u \in [0 .. n -> Seq(S)] /\ \A k \in 0 .. n : u[k] = r[HowMany(M, k)]
  <2> HIDE DEF c
  <2> QED
    BY <1>6, <1>8
<1> HIDE DEF u
<1>10. u[0] = <<>>
  BY <1>1, <1>6, <1>9
<1>11. ASSUME NEW k \in 1 .. n PROVE u[k] = u[k - 1] \o s[k]
  <2> DEFINE a == HowMany(M, k - 1)
  <2>1. k - 1 \in 0 .. n /\ k \in 0 .. n /\ k - 1 \in Nat /\ (k - 1) + 1 = k /\ k \in Nat \ {0}
    OBVIOUS
  <2>2. a \in 0 .. c /\ HowMany(M, k) \in 0 .. c
        /\ HowMany(M, k) = IF k \in M THEN a + 1 ELSE a
    <3>1. HowMany(M, (k - 1) + 1) = IF (k - 1) + 1 \in M THEN a + 1 ELSE a
      BY <2>1, CountNext
    <3>2. HowMany(M, k - 1) \in 0 .. c /\ HowMany(M, k) \in 0 .. c
      BY <1>8, <2>1
    <3> QED
      BY <2>1, <3>1, <3>2
  <2>3. u[k - 1] = r[a] /\ u[k] = r[HowMany(M, k)] /\ r[a] \in Seq(S)
    BY <1>6, <1>9, <2>1, <2>2
  <2>4. CASE k \in M
    <3>1. a + 1 \in 1 .. c /\ (a + 1) - 1 = a /\ HowMany(M, k) = a + 1
      <4> HIDE DEF a, c
      <4> QED
        BY <1>1, <2>2, <2>4
    <3>2. Nth(M, a + 1) = k
      BY <2>1, <2>4, <3>1, NthIs
    <3> HIDE DEF a, c
    <3>3. r[a + 1] = r[a] \o t[a + 1] /\ t[a + 1] = G[k] /\ s[k] = G[k]
      BY <1>4, <1>5, <1>6, <2>4, <3>1, <3>2
    <3> QED
      BY <2>3, <3>1, <3>3
  <2>5. CASE k \notin M
    BY <1>2, <1>5, <2>2, <2>3, <2>5
  <2> QED
    BY <2>4, <2>5
<1>12. FlattenSeq(s) = u[n]
  <2>1. Joins(S, u, n, s)
    BY <1>9, <1>10, <1>11 DEF Joins
  <2> QED
    BY <1>3, <2>1, FlattenIs
<1>13. u[n] = r[c] /\ r[c] \in Seq(S)
  BY <1>1, <1>6, <1>9
<1> QED
  BY <1>7, <1>12, <1>13 DEF s, t

\* The same, from the place before.
LEMMA PickedAt ==
    ASSUME NEW M, NEW n \in Nat \ {0}, NEW H
    PROVE  /\ n \in M => Picked(M, n, H) = Append(Picked(M, n - 1, H), H[n])
           /\ n \notin M => Picked(M, n, H) = Picked(M, n - 1, H)
<1>1. n - 1 \in Nat /\ (n - 1) + 1 = n
  OBVIOUS
<1>2. /\ (n - 1) + 1 \in M
           => Picked(M, (n - 1) + 1, H) = Append(Picked(M, n - 1, H), H[(n - 1) + 1])
      /\ (n - 1) + 1 \notin M => Picked(M, (n - 1) + 1, H) = Picked(M, n - 1, H)
  BY <1>1, PickedNext
<1> QED
  BY <1>1, <1>2
-----------------------------------------------------------------------------
(* The page: what the constructor of ResponseOut has after k tokens.        *)

TemplateIs ==
    /\ template \in Seq(Range(template))
    /\ \A k \in DOMAIN template : template[k].t \in Tokens

\* The places of the template that have an element, and those in the loop at f; the
\* marker after a place, and the elements after k tokens.
Outside ==
    { k \in DOMAIN template : template[k].t \in {"for", "marker"} \/ PutsOut(k, {}) }
Inside(f) == { k \in DOMAIN template : PutsOut(k, {f}) }
MarkerAt(k) == IF MarkersBefore(k) = {} THEN "none" ELSE SectionOf(k)
TextAt == [k \in DOMAIN template |-> TextHolder(template[k], MarkerAt(k))]
HolderAt(k) ==
    [p \in DOMAIN template |->
        CASE template[p].t = "marker" -> MarkerHolder(template[p].flag)
          [] template[p].t = "for" ->
                 [holderType |-> "F", innerHolder |-> Picked(Inside(p), k, TextAt)]
          [] OTHER -> TextAt[p]]
ReadTo(k) ==
    [elements |-> Picked(Outside, k, HolderAt(k)),
     stateflag |-> IF LoopOf(k + 1) = {} THEN 0 ELSE 1,
     marker |-> MarkerAt(k)]

\* The places of the template.
LEMMA PlacesAre ==
    ASSUME TemplateIs
    PROVE  Len(template) \in Nat /\ DOMAIN template = 1 .. Len(template)
BY DEF TemplateIs

\* A place is in no more than one loop.
LEMMA OneLoop ==
    ASSUME TemplateIs, Documented, NEW k \in 1 .. Len(template) + 1,
           NEW f \in LoopOf(k), NEW g \in LoopOf(k)
    PROVE  f = g
<1>1. ASSUME NEW a \in LoopOf(k), NEW b \in LoopOf(k), a < b PROVE FALSE
  <2>1. a \in 1 .. k - 1 /\ b \in 1 .. k - 1 /\ template[a].t = "for" /\ template[b].t = "for"
        /\ \A j \in a .. k - 1 : template[j].t # "endfor"
    BY DEF LoopOf
  <2>2. a \in 1 .. b - 1 /\ \A j \in a .. b - 1 : j \in a .. k - 1
    BY <1>1, <2>1
  <2>3. a \in LoopOf(b)
    BY <2>1, <2>2 DEF LoopOf
  <2>4. b \in DOMAIN template
    BY <2>1, PlacesAre
  <2>5. LoopOf(b) = {}
    BY <2>1, <2>4 DEF Documented
  <2> QED
    BY <2>3, <2>5
<1>2. f \in Int /\ g \in Int
  BY DEF LoopOf
<1>3. ~(f < g) /\ ~(g < f)
  BY <1>1
<1> QED
  BY <1>2, <1>3

\* The loop that a place is in, from the place before it.
LEMMA LoopNext ==
    ASSUME TemplateIs, NEW k \in 1 .. Len(template)
    PROVE  LoopOf(k + 1) = CASE template[k].t = "for" -> LoopOf(k) \cup {k}
                             [] template[k].t = "endfor" -> {}
                             [] OTHER -> LoopOf(k)
<1>0. Len(template) \in Nat
  BY PlacesAre
<1>1. \A f : f \in LoopOf(k + 1) <=> /\ f \in 1 .. k /\ template[f].t = "for"
                                     /\ \A j \in f .. k : template[j].t # "endfor"
  <2>1. (k + 1) - 1 = k
    BY <1>0
  <2> QED
    BY <2>1 DEF LoopOf
<1>2. \A f : f \in LoopOf(k) <=> /\ f \in 1 .. k - 1 /\ template[f].t = "for"
                                 /\ \A j \in f .. k - 1 : template[j].t # "endfor"
  BY DEF LoopOf
<1>3. \A f \in 1 .. k : k \in f .. k /\ (f = k \/ f \in 1 .. k - 1)
                        /\ \A j \in f .. k : j = k \/ j \in f .. k - 1
  BY <1>0
<1>4. \A f \in 1 .. k - 1 : f \in 1 .. k /\ f # k /\ \A j \in f .. k - 1 : j \in f .. k
  BY <1>0
<1>5. CASE template[k].t = "for"
  <2>1. \A f : f \in LoopOf(k + 1) <=> f \in LoopOf(k) \cup {k}
    <3>1. k \in LoopOf(k + 1)
      <4>1. k \in 1 .. k /\ \A j \in k .. k : j = k
        BY <1>0
      <4> QED
        BY <1>1, <1>5, <4>1
    <3>2. ASSUME NEW f \in LoopOf(k + 1), f # k PROVE f \in LoopOf(k)
      BY <1>1, <1>2, <1>3, <1>4, <3>2
    <3>3. ASSUME NEW f \in LoopOf(k) PROVE f \in LoopOf(k + 1)
      BY <1>1, <1>2, <1>3, <1>4, <1>5, <3>3
    <3> QED
      BY <3>1, <3>2, <3>3
  <2> QED
    BY <1>5, <2>1
<1>6. CASE template[k].t = "endfor"
  BY <1>1, <1>3, <1>6
<1>7. CASE template[k].t \notin {"for", "endfor"}
  <2>1. ASSUME NEW f \in LoopOf(k + 1) PROVE f \in LoopOf(k)
    BY <1>1, <1>2, <1>3, <1>4, <1>7, <2>1
  <2>2. ASSUME NEW f \in LoopOf(k) PROVE f \in LoopOf(k + 1)
    BY <1>1, <1>2, <1>3, <1>4, <1>7, <2>2
  <2>3. LoopOf(k + 1) = LoopOf(k)
    BY <2>1, <2>2
  <2> QED
    BY <1>7, <2>3
<1> QED
  BY <1>5, <1>6, <1>7

\* The marker after a place, from the one before it.
LEMMA MarkerNext ==
    ASSUME TemplateIs, NEW k \in 1 .. Len(template)
    PROVE  MarkerAt(k) = IF template[k].t = "marker" THEN template[k].flag ELSE MarkerAt(k - 1)
<1>0. Len(template) \in Nat
  BY PlacesAre
<1>1. CASE template[k].t = "marker"
  <2>1. k \in MarkersBefore(k) /\ \A i \in MarkersBefore(k) : i \in Int /\ i <= k
    BY <1>0, <1>1 DEF MarkersBefore
  <2>2. \A j \in MarkersBefore(k) : (\A i \in MarkersBefore(k) : i <= j) => j = k
    BY <2>1
  <2> DEFINE last == CHOOSE j \in MarkersBefore(k) : \A i \in MarkersBefore(k) : i <= j
  <2>3. last = k
    BY <2>1, <2>2
  <2>4. SectionOf(k) = template[last].flag
    BY DEF SectionOf
  <2> HIDE DEF last
  <2> QED
    BY <1>1, <2>1, <2>3, <2>4 DEF MarkerAt
<1>2. CASE template[k].t # "marker"
  <2>1. MarkersBefore(k) = MarkersBefore(k - 1)
    <3>1. \A j : j \in 1 .. k <=> j = k \/ j \in 1 .. k - 1
      BY <1>0
    <3> QED
      BY <1>2, <3>1 DEF MarkersBefore
  <2> QED
    BY <1>2, <2>1 DEF MarkerAt, SectionOf
<1> QED
  BY <1>1, <1>2

\* At first nothing was read.
LEMMA ReadBegins ==
    ASSUME TemplateIs
    PROVE  ReadTo(0) = Begun
<1>1. Picked(Outside, 0, HolderAt(0)) = <<>>
  BY PickedNext
<1>2. LoopOf(0 + 1) = {} /\ MarkersBefore(0) = {}
  BY DEF LoopOf, MarkersBefore
<1> QED
  BY <1>1, <1>2 DEF ReadTo, Begun, MarkerAt

\* A token outside the loop at p leaves the element of p as it is.
LEMMA HolderStays ==
    ASSUME TemplateIs, NEW k \in 1 .. Len(template), NEW p \in DOMAIN template, k \notin Inside(p)
    PROVE  HolderAt(k)[p] = HolderAt(k - 1)[p]
<1>1. k \in Nat \ {0}
  BY PlacesAre
<1>2. Picked(Inside(p), k, TextAt) = Picked(Inside(p), k - 1, TextAt)
  BY <1>1, PickedAt
<1> QED
  BY <1>2 DEF HolderAt

\* So one that is in no loop leaves all that was read, and adds its own element.
LEMMA ElementAdded ==
    ASSUME TemplateIs, NEW k \in 1 .. Len(template), LoopOf(k) = {} \/ template[k].t = "endfor"
    PROVE  ReadTo(k).elements = IF k \in Outside
                                THEN Append(ReadTo(k - 1).elements, HolderAt(k)[k])
                                ELSE ReadTo(k - 1).elements
<1>1. k \in Nat \ {0}
  BY PlacesAre
<1>2. \A p : k \notin Inside(p)
  BY DEF Inside, PutsOut
<1>3. \A p \in DOMAIN template : HolderAt(k)[p] = HolderAt(k - 1)[p]
  BY <1>2, HolderStays
<1>4. HolderAt(k) = HolderAt(k - 1)
  BY <1>3 DEF HolderAt
<1>5. /\ k \in Outside => Picked(Outside, k, HolderAt(k))
                             = Append(Picked(Outside, k - 1, HolderAt(k)), HolderAt(k)[k])
      /\ k \notin Outside => Picked(Outside, k, HolderAt(k))
                                = Picked(Outside, k - 1, HolderAt(k))
  BY <1>1, PickedAt
<1> QED
  BY <1>4, <1>5 DEF ReadTo

\* A loop with other contents.
LEMMA HolderWith ==
    ASSUME NEW a, NEW y
    PROVE  [[holderType |-> "F", innerHolder |-> a] EXCEPT !.innerHolder = y]
               = [holderType |-> "F", innerHolder |-> y]
OBVIOUS

\* A text in a loop is put to the last element, which is the loop's.
LEMMA InnerAdded ==
    ASSUME TemplateIs, Documented, NEW k \in 1 .. Len(template),
           template[k].t \in {"text", "var"}, NEW f \in LoopOf(k)
    PROVE  LET s == ReadTo(k - 1).elements IN
           ReadTo(k).elements = [s EXCEPT ![Len(s)].innerHolder = Append(@, TextAt[k])]
<1> DEFINE s == ReadTo(k - 1).elements
           c == HowMany(Outside, k - 1)
           e == [s EXCEPT ![Len(s)].innerHolder = Append(@, TextAt[k])]
<1>1. /\ k - 1 \in Nat /\ (k - 1) + 1 = k /\ Len(template) \in Nat /\ k \in DOMAIN template
      /\ k \in 1 .. Len(template) + 1
      /\ k \in Nat \ {0}
  BY PlacesAre
<1>2. LoopOf(k) = {f}
  BY <1>1, OneLoop
<1>3. /\ f \in 1 .. k - 1 /\ template[f].t = "for" /\ \A j \in f .. k - 1 : template[j].t # "endfor"
  BY DEF LoopOf
<1>4. f \in DOMAIN template /\ f \in Nat \ {0} /\ f <= k - 1 /\ f \in Outside
  BY <1>1, <1>3, PlacesAre DEF Outside
<1>5. ASSUME NEW j \in f + 1 .. k PROVE j \notin Outside
  <2>1. j \in DOMAIN template /\ f \in 1 .. j - 1 /\ \A i \in f .. j - 1 : i \in f .. k - 1
    BY <1>1, <1>3, <1>4, PlacesAre
  <2>2. f \in LoopOf(j)
    BY <1>3, <2>1 DEF LoopOf
  <2> QED
    BY <2>1, <2>2 DEF Outside, Documented, PutsOut
<1>6. k \notin Outside
  <2>1. k \in f + 1 .. k
    BY <1>1, <1>3, <1>4
  <2> QED
    BY <1>5, <2>1
<1>7. HowMany(Outside, f) = c /\ c \in Nat /\ Nth(Outside, c) = f
  <2>1. \A j \in f + 1 .. k - 1 : j \in f + 1 .. k
    BY <1>1
  <2>2. HowMany(Outside, f) = c
    BY <1>1, <1>4, <1>5, <2>1, CountGrows
  <2> QED
    BY <1>1, <1>4, <2>2, CountNext, NthIs
<1>8. c # 0
  <2>1. 0 <= f /\ 0 < f /\ 0 \in Nat
    BY <1>4
  <2>2. HowMany(Outside, 0) < HowMany(Outside, f) /\ HowMany(Outside, 0) = 0
    BY <1>4, <2>1, CountGrows, CountNext
  <2> QED
    BY <1>7, <2>2
<1>9. s = [i \in 1 .. c |-> HolderAt(k - 1)[Nth(Outside, i)]] /\ Len(s) = c
  <2>1. s = Picked(Outside, k - 1, HolderAt(k - 1))
    BY DEF ReadTo
  <2>2. Len(s) = c
    BY <1>1, <2>1, PickedNext
  <2> QED
    BY <2>1, <2>2 DEF Picked
<1>10. ReadTo(k).elements = [i \in 1 .. c |-> HolderAt(k)[Nth(Outside, i)]]
  <2>1. HowMany(Outside, k) = c
    BY <1>1, <1>6, CountNext
  <2> QED
    BY <2>1 DEF ReadTo, Picked
<1>11. HolderAt(k)[f] = [HolderAt(k - 1)[f] EXCEPT !.innerHolder = Append(@, TextAt[k])]
  <2>1. k \in Inside(f)
    BY <1>1, <1>2 DEF Inside, PutsOut
  <2>2. Picked(Inside(f), k, TextAt) = Append(Picked(Inside(f), k - 1, TextAt), TextAt[k])
    BY <1>1, <2>1, PickedAt
  <2>3. \A m : HolderAt(m)[f] = [holderType |-> "F", innerHolder |-> Picked(Inside(f), m, TextAt)]
    BY <1>3, <1>4 DEF HolderAt
  <2> DEFINE a == Picked(Inside(f), k - 1, TextAt)
             b == Picked(Inside(f), k, TextAt)
             x == TextAt[k]
  <2>4. b = Append(a, x)
    BY <2>2
  <2>5. HolderAt(k)[f] = [holderType |-> "F", innerHolder |-> b]
        /\ HolderAt(k - 1)[f] = [holderType |-> "F", innerHolder |-> a]
    BY <2>3
  <2> HIDE DEF a, b, x
  <2>6. HolderAt(k)[f] = [HolderAt(k - 1)[f] EXCEPT !.innerHolder = Append(@, x)]
    <3> DEFINE h == [holderType |-> "F", innerHolder |-> a]
               y == Append(a, x)
    <3>1. [h EXCEPT !.innerHolder = y] = [holderType |-> "F", innerHolder |-> y]
      BY HolderWith
    <3>2. h.innerHolder = a
      OBVIOUS
    <3> HIDE DEF h
    <3>3. HolderAt(k - 1)[f] = h
      BY <2>5 DEF h
    <3> QED
      BY <2>4, <2>5, <3>1, <3>2, <3>3
  <2> QED
    BY <2>6 DEF x
<1>12. ASSUME NEW i \in 1 .. c, i # c PROVE HolderAt(k)[Nth(Outside, i)] = HolderAt(k - 1)[Nth(Outside, i)]
  <2> DEFINE p == Nth(Outside, i)
  <2>1. p \in Outside /\ HowMany(Outside, p) = i
    BY <1>1, NthThere
  <2>2. p \in DOMAIN template /\ p # f
    BY <1>7, <1>12, <2>1 DEF Outside
  <2>3. k \notin Inside(p)
    BY <1>2, <2>2 DEF Inside, PutsOut
  <2> QED
    BY <2>2, <2>3, HolderStays
<1>13. e = [i \in 1 .. c |-> IF i = c THEN [s[c] EXCEPT !.innerHolder = Append(@, TextAt[k])] ELSE s[i]]
  <2>1. DOMAIN s = 1 .. c /\ Len(s) = c
    BY <1>9
  <2> HIDE DEF s, c
  <2> QED
    BY <2>1
<1> HIDE DEF e
<1>14. \A i \in 1 .. c : HolderAt(k)[Nth(Outside, i)]
              = IF i = c THEN [s[c] EXCEPT !.innerHolder = Append(@, TextAt[k])] ELSE s[i]
  <2>1. \A i \in 1 .. c : s[i] = HolderAt(k - 1)[Nth(Outside, i)]
    BY <1>9
  <2>2. c \in 1 .. c
    BY <1>7, <1>8
  <2> HIDE DEF s, c
  <2>3. s[c] = HolderAt(k - 1)[f]
    BY <1>7, <2>1, <2>2
  <2> QED
    BY <1>7, <1>11, <1>12, <2>1, <2>3
<1> HIDE DEF s, c
<1>15. ReadTo(k).elements = e
  BY <1>10, <1>13, <1>14
<1> QED
  BY <1>15 DEF e, s

\* What the constructor keeps while it reads.
Reading(a, b, c) == [elements |-> a, stateflag |-> b, marker |-> c]

\* Where pusher puts an element.
LEMMA PushIs ==
    ASSUME NEW a, NEW c, NEW th
    PROVE  /\ Push(Reading(a, 0, c), th) = Reading(Append(a, th), 0, c)
           /\ Push(Reading(a, 1, c), th)
                = Reading([a EXCEPT ![Len(a)].innerHolder = Append(@, th)], 1, c)
<1>1. ASSUME NEW b, NEW x PROVE [Reading(a, b, c) EXCEPT !.elements = x] = Reading(x, b, c)
  BY DEF Reading
<1>2. \A b : Reading(a, b, c).elements = a /\ Reading(a, b, c).stateflag = b
  BY DEF Reading
<1>3. Push(Reading(a, 0, c), th) = Reading(Append(a, th), 0, c)
  <2> DEFINE s == Reading(a, 0, c)
             x == Append(a, th)
  <2>1. s.elements = a /\ s.stateflag = 0
    BY <1>2
  <2>2. [s EXCEPT !.elements = x] = Reading(x, 0, c)
    BY <1>1
  <2> HIDE DEF s
  <2>3. Push(s, th) = [s EXCEPT !.elements = x]
    BY <2>1 DEF Push
  <2> QED
    BY <2>2, <2>3 DEF s
<1>4. Push(Reading(a, 1, c), th)
        = Reading([a EXCEPT ![Len(a)].innerHolder = Append(@, th)], 1, c)
  <2> DEFINE s == Reading(a, 1, c)
             x == [a EXCEPT ![Len(a)].innerHolder = Append(@, th)]
  <2>1. s.elements = a /\ s.stateflag = 1
    BY <1>2
  <2>2. [s EXCEPT !.elements = x] = Reading(x, 1, c)
    BY <1>1
  <2> HIDE DEF s
  <2>3. Push(s, th) = [s EXCEPT !.elements[Len(s.elements)].innerHolder = Append(@, th)]
    BY <2>1 DEF Push
  <2>4. [s EXCEPT !.elements[Len(s.elements)].innerHolder = Append(@, th)]
          = [s EXCEPT !.elements = x]
    BY <2>1
  <2> QED
    BY <2>2, <2>3, <2>4 DEF s
<1> QED
  BY <1>3, <1>4

\* A token more was read.
LEMMA TokenRead ==
    ASSUME TemplateIs, Documented, NEW k \in 1 .. Len(template)
    PROVE  ParseToken(ReadTo(k - 1), template[k]) = ReadTo(k)
<1> DEFINE a == ReadTo(k - 1).elements
           m == MarkerAt(k - 1)
           token == template[k]
<1>1. k \in DOMAIN template /\ (k - 1) + 1 = k
  BY PlacesAre
<1>2. ReadTo(k - 1) = Reading(a, IF LoopOf(k) = {} THEN 0 ELSE 1, m)
  BY <1>1 DEF ReadTo, Reading
<1>3. ReadTo(k) = Reading(ReadTo(k).elements, IF LoopOf(k + 1) = {} THEN 0 ELSE 1, MarkerAt(k))
  BY DEF ReadTo, Reading
<1>4. token.t \in Tokens
  BY <1>1 DEF TemplateIs
<1>5. LoopOf(k + 1) = CASE token.t = "for" -> LoopOf(k) \cup {k}
                        [] token.t = "endfor" -> {}
                        [] OTHER -> LoopOf(k)
  BY LoopNext
<1>6. MarkerAt(k) = IF token.t = "marker" THEN token.flag ELSE m
  BY MarkerNext
<1>7. token.t \in {"for", "marker"} => LoopOf(k) = {}
  BY <1>1 DEF Documented
<1>8. token.t = "endfor" => LoopOf(k) # {}
  BY <1>1 DEF Documented
<1>9. k \in Outside <=> token.t \in {"for", "marker"} \/ (token.t \in {"text", "var"} /\ LoopOf(k) = {})
  BY <1>1 DEF Outside, PutsOut
<1>10. LoopOf(k) = {} \/ token.t = "endfor" =>
          ReadTo(k).elements = IF k \in Outside THEN Append(a, HolderAt(k)[k]) ELSE a
  BY ElementAdded
<1>11. /\ token.t = "marker" => HolderAt(k)[k] = MarkerHolder(token.flag)
       /\ token.t \in {"text", "var"} => HolderAt(k)[k] = TextAt[k]
  BY <1>1 DEF HolderAt
<1>12. token.t \in {"text", "var"} => TextAt[k] = TextHolder(token, m)
  BY <1>1, <1>6 DEF TextAt
<1>13. CASE token.t \in {"text", "var"}
  <2>1. \A s : ParseToken(s, token) = Push(s, TextHolder(token, s.marker))
    BY <1>13 DEF ParseToken
  <2>2. \A b : ParseToken(Reading(a, b, m), token) = Push(Reading(a, b, m), TextAt[k])
    <3>1. \A b : Reading(a, b, m).marker = m
      BY DEF Reading
    <3> QED
      BY <1>12, <1>13, <2>1, <3>1
  <2>3. LoopOf(k + 1) = LoopOf(k) /\ MarkerAt(k) = m
    BY <1>5, <1>6, <1>13
  <2>4. CASE LoopOf(k) = {}
    <3>1. ReadTo(k).elements = Append(a, TextAt[k])
      BY <1>9, <1>10, <1>11, <1>13, <2>4
    <3>2. ReadTo(k) = Reading(Append(a, TextAt[k]), 0, m) /\ ReadTo(k - 1) = Reading(a, 0, m)
      BY <1>2, <1>3, <2>3, <2>4, <3>1
    <3> HIDE DEF a, m, token
    <3>3. Push(Reading(a, 0, m), TextAt[k]) = Reading(Append(a, TextAt[k]), 0, m)
      BY PushIs
    <3> QED
      BY <2>2, <3>2, <3>3 DEF token
  <2>5. CASE LoopOf(k) # {}
    <3> DEFINE e == [a EXCEPT ![Len(a)].innerHolder = Append(@, TextAt[k])]
    <3>1. ReadTo(k).elements = e
      <4>1. PICK f : f \in LoopOf(k)
        BY <2>5
      <4> QED
        BY <1>13, <4>1, InnerAdded
    <3>2. ReadTo(k) = Reading(e, 1, m) /\ ReadTo(k - 1) = Reading(a, 1, m)
      BY <1>2, <1>3, <2>3, <2>5, <3>1
    <3> HIDE DEF a, m, token
    <3>3. Push(Reading(a, 1, m), TextAt[k]) = Reading(e, 1, m)
      BY PushIs
    <3> QED
      BY <2>2, <3>2, <3>3 DEF token
  <2> QED
    BY <2>4, <2>5
<1>14. CASE token.t = "marker"
  <2> DEFINE h == MarkerHolder(token.flag)
             c == token.flag
  <2>1. LoopOf(k) = {} /\ LoopOf(k + 1) = {} /\ MarkerAt(k) = c
    BY <1>5, <1>6, <1>7, <1>14
  <2>2. ReadTo(k).elements = Append(a, h)
    BY <1>9, <1>10, <1>11, <1>14, <2>1
  <2>3. ReadTo(k) = Reading(Append(a, h), 0, c) /\ ReadTo(k - 1) = Reading(a, 0, m)
    BY <1>2, <1>3, <2>1, <2>2
  <2>4. \A s : ParseToken(s, token) = Push([s EXCEPT !.marker = c], h)
    BY <1>14 DEF ParseToken
  <2>5. [Reading(a, 0, m) EXCEPT !.marker = c] = Reading(a, 0, c)
    BY DEF Reading
  <2> HIDE DEF a, m, token, h, c
  <2>6. ParseToken(ReadTo(k - 1), token) = Push(Reading(a, 0, c), h)
    BY <2>3, <2>4, <2>5
  <2>7. Push(Reading(a, 0, c), h) = Reading(Append(a, h), 0, c)
    BY PushIs
  <2> QED
    BY <2>3, <2>6, <2>7 DEF token
<1>15. CASE token.t = "for"
  <2> DEFINE h == ForHolder
  <2>1. LoopOf(k) = {} /\ LoopOf(k + 1) = {k} /\ MarkerAt(k) = m
    BY <1>5, <1>6, <1>7, <1>15
  <2>2. HolderAt(k)[k] = h
    <3>1. ASSUME NEW j \in 1 .. k PROVE j \notin Inside(k)
      <4>1. k \notin LoopOf(j)
        BY <1>1, PlacesAre DEF LoopOf
      <4> QED
        BY <4>1 DEF Inside, PutsOut
    <3>2. k \in Nat /\ 0 \in Nat /\ 0 <= k /\ \A j \in 0 + 1 .. k : j \in 1 .. k
      BY PlacesAre
    <3>3. HowMany(Inside(k), k) = 0
      <4>1. \A j \in 0 + 1 .. k : j \notin Inside(k)
        BY <3>1, <3>2
      <4>2. HowMany(Inside(k), 0) = 0
        BY <3>2, CountNext
      <4> QED
        BY <3>2, <4>1, <4>2, CountGrows
    <3>4. Picked(Inside(k), k, TextAt) = <<>>
      BY <3>3 DEF Picked
    <3> QED
      BY <1>1, <1>15, <3>4 DEF HolderAt, ForHolder
  <2>3. ReadTo(k).elements = Append(a, h)
    BY <1>9, <1>10, <1>15, <2>1, <2>2
  <2>4. ReadTo(k) = Reading(Append(a, h), 1, m) /\ ReadTo(k - 1) = Reading(a, 0, m)
    BY <1>2, <1>3, <2>1, <2>3
  <2>5. \A s : ParseToken(s, token) = [Push(s, h) EXCEPT !.stateflag = @ + 1]
    BY <1>15 DEF ParseToken
  <2> HIDE DEF a, m, token, h
  <2>6. ParseToken(ReadTo(k - 1), token) = [Push(Reading(a, 0, m), h) EXCEPT !.stateflag = @ + 1]
    BY <2>4, <2>5
  <2>7. Push(Reading(a, 0, m), h) = Reading(Append(a, h), 0, m)
    BY PushIs
  <2>8. [Reading(Append(a, h), 0, m) EXCEPT !.stateflag = @ + 1] = Reading(Append(a, h), 1, m)
    <3> DEFINE x == Append(a, h)
    <3> HIDE DEF x
    <3>1. [Reading(x, 0, m) EXCEPT !.stateflag = @ + 1] = Reading(x, 1, m)
      BY DEF Reading
    <3> QED
      BY <3>1 DEF x
  <2> QED
    BY <2>4, <2>6, <2>7, <2>8 DEF token
<1>16. CASE token.t = "endfor"
  <2>1. LoopOf(k) # {} /\ LoopOf(k + 1) = {} /\ MarkerAt(k) = m
    BY <1>5, <1>6, <1>8, <1>16
  <2>2. ReadTo(k).elements = a
    BY <1>9, <1>10, <1>16
  <2>3. ReadTo(k) = Reading(a, 0, m) /\ ReadTo(k - 1) = Reading(a, 1, m)
    BY <1>2, <1>3, <2>1, <2>2
  <2>4. \A s : ParseToken(s, token) = [s EXCEPT !.stateflag = @ - 1]
    BY <1>16 DEF ParseToken, EndFor
  <2> HIDE DEF a, m, token
  <2>5. [Reading(a, 1, m) EXCEPT !.stateflag = @ - 1] = Reading(a, 0, m)
    BY DEF Reading
  <2> QED
    BY <2>3, <2>4, <2>5 DEF token
<1> QED
  BY <1>4, <1>13, <1>14, <1>15, <1>16 DEF Tokens

\* The elements of a template.
LEMMA ElementsAre ==
    ASSUME TemplateIs, Documented
    PROVE  Elements(template) = Picked(Outside, Len(template), HolderAt(Len(template)))
<1> DEFINE n == Len(template)
           Next1(h, k) == IF k = 0 THEN Begun ELSE ParseToken(h[k - 1], template[k])
           Is(h) == h = [k \in 0 .. n |-> Next1(h, k)]
           f == CHOOSE h : Is(h)
           g == [k \in 0 .. n |-> ReadTo(k)]
<1>0. n \in Nat
  BY PlacesAre
<1>1. Elements(template) = f[n].elements
  BY DEF Elements
<1>2. Is(g)
  <2>1. \A k \in 0 .. n : k # 0 => k \in 1 .. n /\ k - 1 \in 0 .. n
    BY <1>0
  <2>2. \A k \in 0 .. n : g[k] = ReadTo(k)
    OBVIOUS
  <2>3. \A k \in 0 .. n : g[k] = Next1(g, k)
    <3> HIDE DEF g
    <3> QED
      BY <2>1, <2>2, ReadBegins, TokenRead
  <2>4. g = [k \in 0 .. n |-> g[k]]
    OBVIOUS
  <2> HIDE DEF g, Next1
  <2> QED
    BY <2>3, <2>4
<1>3. Is(f)
  <2> HIDE DEF Is
  <2> QED
    BY <1>2
<1>4. \A k \in 0 .. n : f[k] = Next1(f, k)
  <2> HIDE DEF f, Next1
  <2> QED
    BY <1>3
<1> HIDE DEF f
<1> DEFINE S == { k \in Nat : k <= n => f[k] = ReadTo(k) }
<1>5. 0 \in S
  <2>1. 0 \in 0 .. n
    BY <1>0
  <2> QED
    BY <1>4, <2>1, ReadBegins
<1>6. ASSUME NEW k \in 0 .. n - 1, k \in S PROVE k + 1 \in S
  <2>1. k <= n /\ k + 1 \in 1 .. n /\ k + 1 \in 0 .. n /\ k + 1 # 0 /\ (k + 1) - 1 = k /\ k + 1 \in Nat
    BY <1>0
  <2>2. f[k] = ReadTo(k) /\ f[k + 1] = ParseToken(f[k], template[k + 1])
    BY <1>4, <1>6, <2>1
  <2>3. ParseToken(ReadTo((k + 1) - 1), template[k + 1]) = ReadTo(k + 1)
    BY <2>1, TokenRead
  <2>4. f[k + 1] = ReadTo(k + 1)
    BY <2>1, <2>2, <2>3
  <2> QED
    BY <2>1, <2>4
<1> HIDE DEF S
<1>7. n \in S
  BY <1>0, <1>5, <1>6, UpTo
<1>8. f[n] = ReadTo(n)
  BY <1>0, <1>7 DEF S
<1> QED
  BY <1>1, <1>8 DEF ReadTo
-----------------------------------------------------------------------------
(* The page: what make_content puts out.                                    *)

\* Some of the numbers up to n have a largest one.
LEMMA Largest ==
    ASSUME NEW n \in Nat, NEW T, T \subseteq 1 .. n, T # {}
    PROVE  \E x \in T : \A y \in T : y <= x
<1> DEFINE U == { n - x : x \in T }
<1>1. U \subseteq Nat /\ U # {}
  <2>1. \A x \in T : x \in 1 .. n /\ n - x \in Nat
    OBVIOUS
  <2> QED
    BY <2>1
<1>2. PICK u \in U : \A v \in U : u <= v
  <2> HIDE DEF U
  <2> QED
    BY <1>1, Smallest
<1>3. PICK x \in T : u = n - x
  BY <1>2
<1>4. ASSUME NEW y \in T PROVE y <= x
  <2>1. n - x <= n - y
    BY <1>2, <1>3
  <2>2. x \in 1 .. n /\ y \in 1 .. n
    BY <1>3
  <2> HIDE DEF U
  <2> QED
    BY <2>1, <2>2
<1> QED
  BY <1>4

\* The letter that forFunc looks at.
Letters == {"s", "t", "r", "i", "d", "x", "w", "o", "e", "f", "n", "b", "k", "a", "m"}
LEMMA LettersAre ==
    /\ FirstLetter(STR) = <<"s">> /\ FirstLetter(IDX) = <<"i">>
    /\ FirstLetter(WORD) = <<"w">> /\ FirstLetter(DEFINITION) = <<"d">>
    /\ FirstLetter(BOOKNAME) = <<"b">>
<1>1. ASSUME NEW s \in Seq(Letters), Len(s) >= 1 PROVE FirstLetter(s) = <<s[1]>>
  <2> DEFINE a == SubSeq(s, 1, 1)
             b == <<s[1]>>
  <2>1. a \in Seq(Letters) /\ Len(a) = 1 /\ a[1] = s[1]
    BY <1>1
  <2>2. b \in Seq(Letters) /\ Len(b) = 1 /\ b[1] = s[1]
    BY <1>1
  <2> HIDE DEF a, b
  <2>3. a = b
    BY <2>1, <2>2, SeqEqual
  <2> QED
    BY <2>3 DEF a, b, FirstLetter
<1>2. /\ STR \in Seq(Letters) /\ Len(STR) >= 1 /\ STR[1] = "s"
      /\ IDX \in Seq(Letters) /\ Len(IDX) >= 1 /\ IDX[1] = "i"
      /\ WORD \in Seq(Letters) /\ Len(WORD) >= 1 /\ WORD[1] = "w"
  BY DEF STR, IDX, WORD, Letters
<1>3. /\ DEFINITION \in Seq(Letters) /\ Len(DEFINITION) >= 1 /\ DEFINITION[1] = "d"
      /\ BOOKNAME \in Seq(Letters) /\ Len(BOOKNAME) >= 1 /\ BOOKNAME[1] = "b"
  BY DEF DEFINITION, BOOKNAME, Letters
<1> QED
  BY <1>1, <1>2, <1>3

\* So it gives the variable asked for.
LEMMA VariableIs ==
    ASSUME NEW key \in {STR, IDX, WORD, DEFINITION, BOOKNAME}, NEW n
    PROVE  ForFunc(res_list, n, str, key) = ValueOf(key, n)
<1>1. <<"s">> # <<"i">> /\ <<"s">> # <<"w">> /\ <<"s">> # <<"d">> /\ <<"s">> # <<"b">>
      /\ <<"i">> # <<"w">> /\ <<"i">> # <<"d">> /\ <<"i">> # <<"b">>
      /\ <<"w">> # <<"d">> /\ <<"w">> # <<"b">> /\ <<"d">> # <<"b">>
  OBVIOUS
<1>2. STR # IDX /\ STR # WORD /\ STR # DEFINITION /\ STR # BOOKNAME /\ IDX # WORD
      /\ IDX # DEFINITION /\ IDX # BOOKNAME /\ WORD # DEFINITION /\ WORD # BOOKNAME
      /\ DEFINITION # BOOKNAME
  BY <1>1, LettersAre
<1> QED
  BY <1>1, <1>2, LettersAre DEF ForFunc, ValueOf, WrapGetter

\* A text or a variable, put out with what is the value of it.
LEMMA TextPutOut ==
    ASSUME TemplateIs, NEW k \in DOMAIN template, template[k].t \in {"text", "var"},
           NEW n, NEW value, template[k].t = "var" => value = ValueOf(template[k].text, n)
    PROVE  Put1(TextAt[k], value) = PutOut(k, n)
<1> DEFINE th == TextAt[k]
<1>1. /\ th.text = template[k].text /\ th.flag = MarkerAt(k)
      /\ th.var <=> template[k].t = "var"
  BY DEF TextAt, TextHolder
<1>2. CASE template[k].t = "text"
  BY <1>1, <1>2 DEF Put1, PutOut
<1>3. CASE template[k].t = "var"
  <2> DEFINE a == th.flag = "j"
             b == MarkersBefore(k) # {} /\ SectionOf(k) = "j"
             v == ValueOf(template[k].text, n)
  <2>1. a <=> b
    <3>1. "none" # "j"
      OBVIOUS
    <3> QED
      BY <1>1, <3>1 DEF MarkerAt
  <2>2. Put1(th, value) = Value(v, a)
    BY <1>1, <1>3 DEF Put1
  <2>3. PutOut(k, n) = Value(v, b)
    BY <1>3 DEF PutOut
  <2>4. a = b
    BY <2>1
  <2> HIDE DEF a, b, v, th
  <2>5. Value(v, a) = Value(v, b)
    BY <2>4
  <2> QED
    BY <2>2, <2>3, <2>5 DEF th
<1> QED
  BY <1>2, <1>3

\* Outside the loops, and in a turn of one.
LEMMA TextOutside ==
    ASSUME TemplateIs, Documented, NEW k \in DOMAIN template, PutsOut(k, {})
    PROVE  Put1(TextAt[k], WrapGetter(str, TextAt[k].text)) = PutOut(k, 0)
<1>1. TextAt[k].text = template[k].text
  BY DEF TextAt, TextHolder
<1>2. template[k].t = "var" => template[k].text = STR
  BY DEF Documented, PutsOut
<1>3. WrapGetter(str, STR) = ValueOf(STR, 0)
  BY VariableIs, LettersAre DEF ValueOf, WrapGetter
<1> QED
  BY <1>1, <1>2, <1>3, TextPutOut DEF PutsOut
LEMMA TextInside ==
    ASSUME TemplateIs, Documented, NEW k \in DOMAIN template, NEW f, PutsOut(k, {f}), NEW n
    PROVE  Put1(TextAt[k], ForFunc(res_list, n, str, TextAt[k].text)) = PutOut(k, n)
<1>1. TextAt[k].text = template[k].text
  BY DEF TextAt, TextHolder
<1>2. template[k].t = "var" => template[k].text \in {STR, IDX, WORD, DEFINITION, BOOKNAME}
  BY DEF Documented, PutsOut
<1>3. template[k].t = "var" =>
        ForFunc(res_list, n, str, TextAt[k].text) = ValueOf(template[k].text, n)
  BY <1>1, <1>2, VariableIs
<1> QED
  BY <1>3, TextPutOut DEF PutsOut

\* A turn of a loop.
LEMMA TurnIs ==
    ASSUME TemplateIs, Documented, NEW f \in DOMAIN template, template[f].t = "for", NEW n
    PROVE  /\ LoopTurn(HolderAt(Len(template))[f], res_list, n, str) = TurnOf(f, n)
           /\ TurnOf(f, n) \in Seq({ PutOut(k, n) : k \in DOMAIN template })
<1> DEFINE all == Len(template)
           M == Inside(f)
           inner == Picked(M, all, TextAt)
           X == { PutOut(k, n) : k \in DOMAIN template }
           G == [k \in DOMAIN template |-> <<PutOut(k, n)>>]
           Out(th) == IF th.holderType = "T"
                      THEN <<Put1(th, ForFunc(res_list, n, str, th.text))>> ELSE <<>>
<1>1. all \in Nat /\ DOMAIN template = 1 .. all
  BY PlacesAre
<1>2. HolderAt(all)[f].innerHolder = inner
  BY DEF HolderAt
<1>3. LoopTurn(HolderAt(all)[f], res_list, n, str) = FlattenSeq([i \in DOMAIN inner |-> Out(inner[i])])
  BY <1>2 DEF LoopTurn
<1>4. /\ DOMAIN inner = 1 .. HowMany(M, all)
      /\ \A i \in 1 .. HowMany(M, all) : inner[i] = TextAt[Nth(M, i)]
  BY DEF Picked
<1>5. ASSUME NEW k \in M PROVE k \in DOMAIN template /\ Out(TextAt[k]) = G[k]
  <2>1. k \in DOMAIN template /\ PutsOut(k, {f})
    BY DEF Inside
  <2>2. TextAt[k].holderType = "T"
    BY <2>1 DEF TextAt, TextHolder
  <2>3. Put1(TextAt[k], ForFunc(res_list, n, str, TextAt[k].text)) = PutOut(k, n)
    BY <2>1, TextInside
  <2> QED
    BY <2>1, <2>2, <2>3
<1>6. [i \in DOMAIN inner |-> Out(inner[i])] = Picked(M, all, G)
  <2>1. \A i \in 1 .. HowMany(M, all) : Out(inner[i]) = G[Nth(M, i)]
    BY <1>1, <1>4, <1>5, NthThere
  <2> HIDE DEF inner, Out, G
  <2> QED
    BY <1>4, <2>1 DEF Picked
<1>7. \A k \in 1 .. all : G[k] \in Seq(X)
  BY <1>1
<1>8. TurnOf(f, n) = FlattenSeq([k \in 1 .. all |-> IF k \in M THEN G[k] ELSE <<>>])
  <2>1. \A k \in 1 .. all : (k \in M <=> PutsOut(k, {f})) /\ G[k] = <<PutOut(k, n)>>
    BY <1>1 DEF Inside
  <2>2. [k \in DOMAIN template |-> IF PutsOut(k, {f}) THEN <<PutOut(k, n)>> ELSE <<>>]
          = [k \in 1 .. all |-> IF k \in M THEN G[k] ELSE <<>>]
    <3> HIDE DEF M, G, all
    <3> QED
      BY <1>1, <2>1
  <2> QED
    BY <2>2 DEF TurnOf
<1> HIDE DEF M, G, X, all, inner, Out
<1>9. /\ FlattenSeq([k \in 1 .. all |-> IF k \in M THEN G[k] ELSE <<>>])
           = FlattenSeq(Picked(M, all, G))
      /\ FlattenSeq(Picked(M, all, G)) \in Seq(X)
  BY <1>1, <1>7, FlattenPicked
<1> QED
  BY <1>3, <1>6, <1>8, <1>9 DEF all, X

\* An element is put out when what is at its place is shown: the marker before it is
\* that before its place.
LEMMA OutputsIs ==
    ASSUME TemplateIs, Documented, NEW p \in Outside
    PROVE  Outputs(Picked(Outside, Len(template), HolderAt(Len(template))),
                   HowMany(Outside, p), alldata) <=> Shows(p)
<1> DEFINE n == Len(template)
           H == HolderAt(n)
           elements == Picked(Outside, n, H)
           i == HowMany(Outside, p)
           markers == { j \in 1 .. i : elements[j].holderType = "M" }
           before == MarkersBefore(p)
           IsLast(T, x) == x \in T /\ \A y \in T : y <= x
           last == CHOOSE j \in markers : \A y \in markers : y <= j
           place == CHOOSE j \in before : \A y \in before : y <= j
<1>1. n \in Nat /\ DOMAIN template = 1 .. n
  BY PlacesAre
<1>2. p \in 1 .. n /\ p \in Nat \ {0} /\ p \in Nat /\ i \in Nat /\ i <= HowMany(Outside, n)
  <2>1. p \in 1 .. n
    BY <1>1 DEF Outside
  <2>2. p \in Nat /\ p <= n
    BY <1>1, <2>1
  <2> QED
    BY <1>1, <2>1, <2>2, CountNext, CountGrows
<1>3. /\ \A j \in 1 .. i : elements[j] = H[Nth(Outside, j)]
      /\ \A j \in 1 .. i : Nth(Outside, j) \in 1 .. p /\ Nth(Outside, j) \in Outside
                           /\ HowMany(Outside, Nth(Outside, j)) = j
  <2>1. \A j \in 1 .. i : j \in 1 .. HowMany(Outside, n)
    BY <1>1, <1>2, CountNext
  <2>2. \A j \in 1 .. i : elements[j] = H[Nth(Outside, j)]
    BY <2>1 DEF Picked
  <2>3. \A j \in 1 .. i : Nth(Outside, j) \in 1 .. p /\ Nth(Outside, j) \in Outside
                          /\ HowMany(Outside, Nth(Outside, j)) = j
    <3> HIDE DEF n
    <3> QED
      BY <1>2, NthThere
  <2> QED
    BY <2>2, <2>3
<1>4. ASSUME NEW q \in DOMAIN template
      PROVE  (H[q].holderType = "M" <=> template[q].t = "marker")
             /\ (template[q].t = "marker" => H[q].flag = template[q].flag)
  <2>1. CASE template[q].t = "marker"
    BY <2>1 DEF HolderAt, MarkerHolder
  <2>2. CASE template[q].t = "for"
    BY <2>2 DEF HolderAt
  <2>3. CASE template[q].t \notin {"marker", "for"}
    BY <2>3 DEF HolderAt, TextAt, TextHolder
  <2> QED
    BY <2>1, <2>2, <2>3
<1> HIDE DEF H, elements
<1>5. ASSUME NEW q \in before
      PROVE  /\ q \in 1 .. p /\ q \in Nat \ {0} /\ q \in Outside /\ template[q].t = "marker"
             /\ q \in DOMAIN template
             /\ HowMany(Outside, q) \in markers /\ Nth(Outside, HowMany(Outside, q)) = q
  <2>1. q \in 1 .. p /\ template[q].t = "marker"
    BY DEF MarkersBefore
  <2>2. q \in DOMAIN template /\ q \in Nat \ {0} /\ q <= p /\ 0 < q /\ 0 <= q /\ 0 \in Nat
    BY <1>1, <1>2, <2>1
  <2>3. q \in Outside
    BY <2>1, <2>2 DEF Outside
  <2>4. Nth(Outside, HowMany(Outside, q)) = q
    BY <2>2, <2>3, NthIs
  <2>5. HowMany(Outside, q) \in Nat /\ HowMany(Outside, q) <= i
    BY <1>2, <2>2, CountNext, CountGrows
  <2>6. HowMany(Outside, 0) = 0 /\ HowMany(Outside, 0) < HowMany(Outside, q)
    BY <2>2, <2>3, CountNext, CountGrows
  <2>7. HowMany(Outside, q) \in 1 .. i
    <3> HIDE DEF i
    <3> QED
      BY <1>2, <2>5, <2>6
  <2>8. elements[HowMany(Outside, q)] = H[q]
    BY <1>3, <2>4, <2>7
  <2> QED
    BY <1>4, <2>1, <2>2, <2>3, <2>4, <2>7, <2>8
<1>6. ASSUME NEW j \in markers PROVE j \in 1 .. i /\ Nth(Outside, j) \in before
  <2>1. j \in 1 .. i /\ H[Nth(Outside, j)].holderType = "M"
    BY <1>3
  <2>2. Nth(Outside, j) \in 1 .. p /\ Nth(Outside, j) \in DOMAIN template
    BY <1>3, <2>1 DEF Outside
  <2> QED
    BY <1>4, <2>1, <2>2 DEF MarkersBefore
<1>7. markers = {} <=> before = {}
  <2> HIDE DEF markers, before
  <2> QED
    BY <1>5, <1>6
<1>8. ASSUME before # {} PROVE elements[last].flag = SectionOf(p)
  <2> DEFINE j == HowMany(Outside, place)
  <2>1. \E x \in before : \A y \in before : y <= x
    <3>1. before \subseteq 1 .. p
      BY <1>5
    <3> HIDE DEF before
    <3> QED
      BY <1>2, <1>8, <3>1, Largest
  <2>2. IsLast(before, place)
    BY <2>1
  <2>3. SectionOf(p) = template[place].flag
    BY DEF SectionOf
  <2> HIDE DEF place, before, markers, i
  <2>4. place \in DOMAIN template /\ template[place].t = "marker"
        /\ j \in markers /\ Nth(Outside, j) = place /\ place \in Nat
    BY <1>5, <2>2
  <2>5. ASSUME NEW y \in markers PROVE y <= j
    <3>1. Nth(Outside, y) \in before /\ y \in 1 .. i
      BY <1>6
    <3>2. Nth(Outside, y) \in Nat /\ Nth(Outside, y) <= place /\ HowMany(Outside, Nth(Outside, y)) = y
      BY <1>3, <1>5, <2>2, <3>1
    <3> QED
      BY <2>4, <3>2, CountGrows
  <2>6. last = j
    <3>1. \A x \in markers : x \in Int
      BY <1>6
    <3>2. \A x \in markers : (\A y \in markers : y <= x) => x = j
      <4> HIDE DEF j
      <4>1. ASSUME NEW x \in markers, \A y \in markers : y <= x PROVE x = j
        <5>1. j <= x /\ x <= j /\ x \in Int /\ j \in Int
          BY <2>4, <2>5, <3>1, <4>1
        <5> QED
          BY <5>1
      <4> QED
        BY <4>1
    <3> HIDE DEF j
    <3> QED
      BY <2>4, <2>5, <3>2
  <2>7. elements[j] = H[place]
    <3>1. j \in 1 .. i
      BY <1>6, <2>4
    <3> QED
      BY <1>3, <2>4, <3>1
  <2> QED
    BY <1>4, <2>3, <2>4, <2>6, <2>7
<1>9. Outputs(elements, i, alldata) <=> alldata \/ markers = {} \/ elements[last].flag = "b"
  BY DEF Outputs
<1>10. Shows(p) <=> alldata \/ before = {} \/ SectionOf(p) = "b"
  BY DEF Shows
<1> HIDE DEF markers, before, last
<1>11. Outputs(elements, i, alldata) <=> Shows(p)
  BY <1>7, <1>8, <1>9, <1>10
<1> QED
  BY <1>11 DEF elements, H

\* What is at a place of the template on the page.
At(k) ==
    IF ~Shows(k) THEN <<>>
    ELSE IF template[k].t = "for" THEN FlattenSeq([n \in DOMAIN res_list |-> TurnOf(k, n)])
    ELSE IF PutsOut(k, {}) THEN <<PutOut(k, 0)>> ELSE <<>>
ResultsAre == DOMAIN res_list = 1 .. Len(res_list) /\ Len(res_list) \in Nat
AllPutOut == { PutOut(x[1], x[2]) : x \in (DOMAIN template) \X (0 .. Len(res_list)) }

\* One of the things put out.
LEMMA PutOutThere ==
    ASSUME NEW k \in DOMAIN template, NEW n \in 0 .. Len(res_list)
    PROVE  PutOut(k, n) \in AllPutOut
<1> DEFINE x == <<k, n>>
           Of(y) == PutOut(y[1], y[2])
           P == (DOMAIN template) \X (0 .. Len(res_list))
<1>1. x \in P
  OBVIOUS
<1>2. Of(x) = PutOut(k, n)
  OBVIOUS
<1>3. AllPutOut = { Of(y) : y \in P }
  BY DEF AllPutOut
<1> HIDE DEF x, P, Of
<1> QED
  BY <1>1, <1>2, <1>3

\* It is a sequence, and what the element makes that stands for this place.
LEMMA AtIs ==
    ASSUME TemplateIs, Documented, ResultsAre, NEW k \in Outside
    PROVE  /\ At(k) \in Seq(AllPutOut)
           /\ Shows(k) => ElementToString(HolderAt(Len(template))[k], res_list, str) = At(k)
<1> DEFINE h == HolderAt(Len(template))[k]
           X == AllPutOut
           turns == [n \in DOMAIN res_list |-> TurnOf(k, n)]
<1>1. k \in DOMAIN template
  BY DEF Outside
<1>2. \A n \in 0 .. Len(res_list) : PutOut(k, n) \in X
  BY <1>1, PutOutThere
<1>3. <<>> \in Seq(X) /\ <<PutOut(k, 0)>> \in Seq(X)
  <2>1. PutOut(k, 0) \in X
    BY <1>2 DEF ResultsAre
  <2> HIDE DEF X
  <2> QED
    BY <2>1
<1>4. CASE template[k].t = "for"
  <2>1. At(k) = IF ~Shows(k) THEN <<>> ELSE FlattenSeq(turns)
    BY <1>4 DEF At
  <2>2. ASSUME NEW n \in DOMAIN res_list
        PROVE  LoopTurn(h, res_list, n, str) = TurnOf(k, n) /\ TurnOf(k, n) \in Seq(X)
    <3>1. { PutOut(j, n) : j \in DOMAIN template } \subseteq X
      <4>1. n \in 0 .. Len(res_list)
        BY <2>2 DEF ResultsAre
      <4>2. \A j \in DOMAIN template : PutOut(j, n) \in X
        BY <4>1, PutOutThere
      <4> HIDE DEF X
      <4> QED
        BY <4>2
    <3>2. LoopTurn(h, res_list, n, str) = TurnOf(k, n)
          /\ TurnOf(k, n) \in Seq({ PutOut(j, n) : j \in DOMAIN template })
      BY <1>1, <1>4, TurnIs
    <3> DEFINE Y == { PutOut(j, n) : j \in DOMAIN template }
               t == TurnOf(k, n)
    <3>3. t \in Seq(Y) /\ Y \subseteq X
      BY <3>1, <3>2
    <3> HIDE DEF X, Y, t
    <3>4. t \in Seq(X)
      BY <3>3
    <3> QED
      BY <3>2, <3>4 DEF t
  <2>3. ForHolderToString(h, res_list, str) = FlattenSeq(turns)
    <3>1. [n \in DOMAIN res_list |-> LoopTurn(h, res_list, n, str)] = turns
      BY <2>2
    <3> QED
      BY <3>1 DEF ForHolderToString
  <2>4. FlattenSeq(turns) \in Seq(X)
    <3> DEFINE m == Len(res_list)
    <3>1. turns \in [1 .. m -> Seq(X)] /\ m \in Nat
      BY <2>2 DEF ResultsAre
    <3> HIDE DEF turns, X, m
    <3>2. PICK r : Joins(X, r, m, turns)
      BY ONLY <3>1, FlattenExists
    <3>3. FlattenSeq(turns) = r[m]
      BY <3>1, <3>2, FlattenIs
    <3>4. r[m] \in Seq(X)
      BY <3>1, <3>2 DEF Joins
    <3> QED
      BY <3>3, <3>4
  <2>5. h.holderType = "F"
    BY <1>1, <1>4 DEF HolderAt
  <2>6. ElementToString(h, res_list, str) = FlattenSeq(turns)
    BY <2>3, <2>5 DEF ElementToString
  <2> HIDE DEF h, turns, X
  <2> QED
    BY <1>3, <2>1, <2>4, <2>6 DEF h, X
<1>5. CASE template[k].t = "marker"
  <2>1. At(k) = <<>>
    BY <1>5 DEF At, PutsOut
  <2>2. h.holderType = "M"
    BY <1>1, <1>5 DEF HolderAt, MarkerHolder
  <2>3. ElementToString(h, res_list, str) = <<>>
    BY <2>2 DEF ElementToString
  <2> HIDE DEF h, X
  <2> QED
    BY <1>3, <2>1, <2>3 DEF h, X
<1>6. CASE template[k].t \notin {"for", "marker"}
  <2>1. PutsOut(k, {})
    BY <1>6 DEF Outside
  <2>2. At(k) = IF ~Shows(k) THEN <<>> ELSE <<PutOut(k, 0)>>
    BY <1>6, <2>1 DEF At
  <2>3. h = TextAt[k] /\ h.holderType = "T" /\ h.text = TextAt[k].text
    BY <1>1, <1>6 DEF HolderAt, TextAt, TextHolder
  <2>4. Put1(h, WrapGetter(str, h.text)) = PutOut(k, 0)
    BY <1>1, <2>1, <2>3, TextOutside
  <2>5. ElementToString(h, res_list, str) = <<PutOut(k, 0)>>
    BY <2>3, <2>4 DEF ElementToString
  <2> HIDE DEF h, X
  <2> QED
    BY <1>3, <2>2, <2>5 DEF h, X
<1> QED
  BY <1>4, <1>5, <1>6

\* What make_content puts out is the page.
LEMMA ContentIs ==
    ASSUME TemplateIs, Documented, ResultsAre
    PROVE  /\ MakeContent(template, alldata, res_list, str) = PageOf
           /\ PageOf \in Seq(AllPutOut)
<1> DEFINE n == Len(template)
           H == HolderAt(n)
           elements == Picked(Outside, n, H)
           G == [k \in DOMAIN template |-> At(k)]
           Out(i) == IF Outputs(elements, i, alldata)
                     THEN ElementToString(elements[i], res_list, str) ELSE <<>>
           c == HowMany(Outside, n)
<1>1. n \in Nat /\ DOMAIN template = 1 .. n
  BY PlacesAre
<1>2. MakeContent(template, alldata, res_list, str) = FlattenSeq([i \in DOMAIN elements |-> Out(i)])
  BY ElementsAre DEF MakeContent
<1>3. DOMAIN elements = 1 .. c /\ \A i \in 1 .. c : elements[i] = H[Nth(Outside, i)]
  BY DEF Picked
<1>4. ASSUME NEW i \in 1 .. c PROVE Out(i) = G[Nth(Outside, i)]
  <2> DEFINE p == Nth(Outside, i)
  <2>1. p \in Outside /\ HowMany(Outside, p) = i
    BY <1>1, NthThere
  <2>2. p \in DOMAIN template
    BY <2>1 DEF Outside
  <2>3. Outputs(elements, i, alldata) <=> Shows(p)
    BY <2>1, OutputsIs
  <2>4. Shows(p) => ElementToString(H[p], res_list, str) = At(p)
    BY <2>1, AtIs
  <2>5. ~Shows(p) => At(p) = <<>>
    BY DEF At
  <2>6. elements[i] = H[p] /\ G[p] = At(p)
    BY <1>3, <2>2
  <2> HIDE DEF elements, H, G, p
  <2> QED
    BY <2>3, <2>4, <2>5, <2>6 DEF p
<1>5. [i \in DOMAIN elements |-> Out(i)] = Picked(Outside, n, G)
  <2> HIDE DEF elements, Out, G, H
  <2> QED
    BY <1>3, <1>4 DEF Picked
<1>6. PageOf = FlattenSeq([k \in 1 .. n |-> IF k \in Outside THEN G[k] ELSE <<>>])
  <2>1. PageOf = FlattenSeq([k \in DOMAIN template |-> At(k)])
    BY DEF PageOf, At
  <2>2. ASSUME NEW k \in DOMAIN template, k \notin Outside PROVE At(k) = <<>>
    BY <2>2 DEF Outside, At
  <2>3. \A k \in 1 .. n : At(k) = IF k \in Outside THEN G[k] ELSE <<>>
    BY <1>1, <2>2
  <2>4. [k \in DOMAIN template |-> At(k)] = [k \in 1 .. n |-> IF k \in Outside THEN G[k] ELSE <<>>]
    <3> HIDE DEF G, n
    <3> QED
      BY <1>1, <2>3
  <2> QED
    BY <2>1, <2>4
<1>7. \A k \in 1 .. n : k \in Outside => G[k] \in Seq(AllPutOut)
  BY <1>1, AtIs
<1> HIDE DEF n, H, elements, G, Out
<1>8. /\ FlattenSeq([k \in 1 .. n |-> IF k \in Outside THEN G[k] ELSE <<>>])
           = FlattenSeq(Picked(Outside, n, G))
      /\ FlattenSeq(Picked(Outside, n, G)) \in Seq(AllPutOut)
  BY <1>1, <1>7, FlattenPicked
<1> QED
  BY <1>2, <1>5, <1>6, <1>8

\* The page is empty while a phrase is looked up, and then has its results.
PageInv ==
    /\ \E l \in Libraries : template = l.template
    /\ pc # "idle" => rout = <<>>
    /\ pc = "idle" /\ (str # NoWord \/ rout # <<>>) =>
           rout = <<>> \o MakeContent(template, alldata, res_list, str)

\* There is no page at first.
LEMMA PageBegins == Init => PageInv
BY DEF Init, PageInv, NoWord

\* Only at the end of a phrase a page is made.
LEMMA PageKept == PageInv /\ [Next]_vars => PageInv'
<1> SUFFICES ASSUME PageInv, [Next]_vars PROVE PageInv'
  OBVIOUS
<1>1. ASSUME NEW s \in Phrases, ProcessPhrase(s) PROVE PageInv'
  <2>1. UNCHANGED template /\ str' = s /\ res_list' = <<>>
    BY <1>1 DEF ProcessPhrase
  <2>2. CASE s = NoWord
    <3>1. MakePage(RoutReset, <<>>, s) /\ kind' = "none"
      BY <1>1, <2>2 DEF ProcessPhrase
    <3>2. pc' = "idle"
      BY <1>1, <3>1 DEF ProcessPhrase
    <3>3. rout' = <<>> \o MakeContent(template', alldata', res_list', str')
      BY <2>1, <3>1 DEF MakePage, RoutReset
    <3> QED
      BY <2>1, <3>2, <3>3 DEF PageInv
  <2>3. CASE s # NoWord
    <3>1. rout' = <<>>
      BY <1>1, <2>3 DEF ProcessPhrase, RoutReset
    <3>2. kind' = AnalyzeQuery(s).kind
          /\ pc' = CASE kind' = "none" -> "idle" [] kind' = "simple" -> "lookup"
                     [] OTHER -> kind'
      BY <1>1, <2>3 DEF ProcessPhrase
    <3>3. AnalyzeQuery(s).kind \in {"fuzzy", "data", "regexp", "simple"}
      BY <2>3, AnalyzeIs, PhrasesAssumption DEF NoWord
    <3>4. pc' # "idle"
      BY <3>2, <3>3
    <3> QED
      BY <2>1, <3>1, <3>4 DEF PageInv
  <2> QED
    BY <2>2, <2>3
<1>2. CASE PlanDone
  <2>1. rout = <<>> /\ UNCHANGED template /\ UNCHANGED res_list /\ UNCHANGED str
    BY <1>2 DEF PlanDone, PageInv, page
  <2>2. \/ pc' = "fuzzy" /\ UNCHANGED rout
        \/ pc' = "idle" /\ MakePage(rout, res_list, str)
    BY <1>2 DEF PlanDone, page
  <2>3. CASE pc' = "fuzzy" /\ UNCHANGED rout
    BY <2>1, <2>3 DEF PageInv
  <2>4. CASE pc' = "idle" /\ MakePage(rout, res_list, str)
    <3>1. rout' = <<>> \o MakeContent(template', alldata', res_list', str')
      BY <2>1, <2>4 DEF MakePage
    <3> QED
      BY <2>1, <2>4, <3>1 DEF PageInv
  <2> QED
    BY <2>2, <2>3, <2>4
<1>3. ASSUME pc # "idle", pc' # "idle", UNCHANGED page PROVE PageInv'
  BY <1>3 DEF PageInv, page
<1>4. CASE LookupWithFuzzy \/ LookupData \/ LookupWithRule \/ SortMatches
  <2>1. pc # "idle" /\ pc' # "idle" /\ UNCHANGED page
    BY <1>4 DEF LookupWithFuzzy, LookupData, LookupWithRule, SortMatches, UnchangedQuery
  <2> QED
    BY <1>3, <2>1
<1>5. CASE SimpleLookupFound \/ SimpleLookupMissed \/ WordDone
  <2>1. pc # "idle" /\ pc' # "idle" /\ UNCHANGED page
    BY <1>5 DEF SimpleLookupFound, SimpleLookupMissed, WordDone, NextDictionary, UnchangedQuery
  <2> QED
    BY <1>3, <2>1
<1>6. CASE IgnoreCase \/ StartRule \/ SkipRule \/ TryDoubled \/ TryEnding \/ NothingSimilar
  <2>1. pc # "idle" /\ UNCHANGED page
    BY <1>6 DEF IgnoreCase, StartRule, SkipRule, TryDoubled, TryEnding, NothingSimilar,
       UnchangedQuery
  <2>2. CASE IgnoreCase \/ TryDoubled \/ TryEnding
    <3>1. pc' # "idle"
      BY <2>2 DEF IgnoreCase, TryDoubled, TryEnding, Found, NextDictionary, NextRule
    <3> QED
      BY <1>3, <2>1, <3>1
  <2>3. CASE StartRule \/ SkipRule \/ NothingSimilar
    <3>1. pc' # "idle"
      BY <2>3 DEF StartRule, SkipRule, NothingSimilar, NextDictionary, NextRule
    <3> QED
      BY <1>3, <2>1, <3>1
  <2> QED
    BY <1>6, <2>2, <2>3
<1>7. CASE UNCHANGED vars
  <2>1. UNCHANGED <<template, alldata, rout, pc, res_list, str>>
    BY <1>7 DEF vars
  <2> QED
    BY <2>1 DEF PageInv
<1> QED
  BY <1>1, <1>2, <1>4, <1>5, <1>6, <1>7 DEF Next, Step

\* The page of a phrase shows all its results, and nothing else.
LEMMA PageIs == PageInv /\ ResultsAre => PageShowsResults
<1> SUFFICES ASSUME PageInv, ResultsAre, pc = "idle", str # NoWord \/ rout # <<>>,
                    Documented
             PROVE  rout = PageOf
  BY DEF PageShowsResults
<1>1. TemplateIs
  BY LibrariesAssumption DEF PageInv, TemplateIs
<1>2. rout = <<>> \o PageOf /\ PageOf \in Seq(AllPutOut)
  BY <1>1, ContentIs DEF PageInv
<1> QED
  BY <1>2
-----------------------------------------------------------------------------
\* What holds of every query: the types, the list of a rule search, the lookups of
\* LookupSimilarWord, the results and the page.
QueryInv == QueryTypes /\ ListInv /\ SimilarInv /\ ResultsInv /\ PageInv

\* This invariant holds in every state of a query.
THEOREM QueryInvariance == Spec => []QueryInv
<1>1. Init => QueryInv
  BY QueryTypesBegin, ListBegins, SimilarBegins, PageBegins DEF QueryInv
<1>2. QueryInv /\ [Next]_vars => QueryInv'
  BY QueryTypesKept, ListKept, SimilarKept, PageKept DEF QueryInv
<1> QED
  BY <1>1, <1>2, PTL DEF Spec

\* A rule search (Libs::LookupWithRule) finds no word twice, sorts its list, keeps to
\* the room of match_res, and leaves out a match only of a dictionary with too many.
THEOREM RuleSearchIsRight == Spec => []RuleSearch
<1>1. QueryInv => RuleSearch
  BY RuleSearchIs DEF QueryInv
<1> QED
  BY <1>1, QueryInvariance, PTL

\* LookupSimilarWord gives up only when it has looked up every base word of the word,
\* and it has looked up nothing else, though its rules share one buffer.
THEOREM BasesAreTried == Spec => []AllBasesTried
<1>1. QueryInv => AllBasesTried
  BY BasesTriedIs DEF QueryInv
<1> QED
  BY <1>1, QueryInvariance, PTL

\* What SimpleLookup adds to the results is the word asked for, or of a dictionary
\* that has not that word, a base word; and with -e there is no such result.
THEOREM ResultsAreRight == Spec => []ResultsAreAsked
<1>1. QueryInv => ResultsAreAsked
  BY ResultsAskedIs DEF QueryInv
<1> QED
  BY <1>1, QueryInvariance, PTL

\* The page of a phrase is what a documented template says, with all results of this
\* phrase and nothing of another, for every template and every number of results.
THEOREM PagesAreRight == Spec => []PageShowsResults
<1>1. ResultsInv => ResultsAre
  BY DEF ResultsInv, ResultsAre
<1>2. QueryInv => PageShowsResults
  BY <1>1, PageIs DEF QueryInv
<1> QED
  BY <1>2, QueryInvariance, PTL
=============================================================================
