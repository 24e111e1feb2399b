-------------------------------- MODULE XIndex --------------------------------
(***************************************************************************)
(* The indexes of one data file and a work index over it, as one user who  *)
(* holds the locks changes them: the index operations of Fand0File, the    *)
(* indexes part of the data editor (UpdateIndexes), the work index XWKey   *)
(* and the scan XScan.                                                     *)
(*                                                                         *)
(* The indexes of the data file share the pages of the index file, the     *)
(* work index lives in the work file.  A set-up says which keys there are  *)
(* and what TLC does to the file.                                          *)
(***************************************************************************)
EXTENDS XBuild

CONSTANTS
  Setups,               \* keys of the file, records in it, what happens to them
  Deleted,              \* what a record with the deleted flag holds
  MaxWork               \* bound: records in the work index

VARIABLES
  setup,                \* the set-up, never changed
  rec,                  \* rec[r]: what record r of the data file holds
  f, nrecs, valid,      \* index file: pages, number of records, ~ NotValid
  w, wroot,             \* work file; root of the work index, 0: it is closed
  order,                \* the records as the user sees them in the work index
  left                  \* bound: how much still happens to the indexes

work == <<w, wroot, order>>
vars == <<setup, rec, f, nrecs, valid, work, left>>

Keys == setup.keys
Slots == DOMAIN rec
Live == {r \in Slots : rec[r] # Deleted}
Closed == [page |-> <<>>, free |-> 0, max |-> 0]

(* The file is there and has no valid index.                               *)
Init ==
  /\ setup \in Setups
  /\ rec = setup.load /\ f = SetEmpty(setup.keys) /\ nrecs = 0 /\ valid = FALSE
  /\ w = Closed /\ wroot = 0 /\ order = <<>>
  /\ left = setup.left
-----------------------------------------------------------------------------
(* The indexes of the data file.                                           *)

(* Sequential scan: the records that are not deleted, by number.           *)
ScanSequential ==
  LET all == [r \in 1 .. Cardinality(Slots) |-> <<r, rec[r]>>]
  IN  SelectSeq(all, LAMBDA s : s[2] # Deleted)

(* CreateIndexFile, which every operation calls first (TestXFExist).       *)
CreateIndexFile ==
  /\ ~ valid /\ valid' = TRUE
  /\ \E built \in {XWorkMain(SetEmpty(Keys), Keys, ScanSequential)} :
       /\ f' = built.f /\ nrecs' = built.nrecs
       /\ rec' = [r \in Slots |-> IF r \in built.gone THEN Deleted ELSE rec[r]]
  /\ UNCHANGED <<setup, work>>

Nrs == [k \in 1 .. Len(Keys) |-> k]

(* One index after the other until one refuses the record.                 *)
InsertInto(a, k, b) ==
  IF a.ok THEN [ok |-> b.ok, f |-> b.f, last |-> k] ELSE a

InsertUpTo(r, v) ==
  FoldLeft(LAMBDA a, k : InsertInto(a, k, InsertKey(a.f, Keys[k], r, v)),
           [ok |-> TRUE, f |-> f, last |-> 1], Nrs)

DeleteAll(g, xks, r, v) == FoldLeft(LAMBDA h, xk : DeleteKey(h, xk, r, v), g, xks)

(* Mutant: the index that refused the record is the last one cleaned, the  *)
(* first one is forgotten.                                                 *)
InsertedOrForgotten(a, r, v) ==
  IF a.ok THEN f' = a.f /\ nrecs' = nrecs + 1 /\ rec' = [rec EXCEPT ![r] = v]
  ELSE f' = DeleteAll(a.f, SubSeq(Keys, 2, a.last), r, v) /\ UNCHANGED <<nrecs, rec>>

(* TryInsertAllIndexes: a record that an index refuses gets out of the     *)
(* indexes in front of that one and is written as deleted.                 *)
InsertedOrNot(a, r, v) ==
  IF a.ok THEN f' = a.f /\ nrecs' = nrecs + 1 /\ rec' = [rec EXCEPT ![r] = v]
  ELSE f' = DeleteAll(a.f, SubSeq(Keys, 1, a.last - 1), r, v) /\ UNCHANGED <<nrecs, rec>>

TryInsertAllIndexes(r, v) ==
  /\ valid /\ rec[r] = Deleted
  /\ \E a \in {InsertUpTo(r, v)} : InsertedOrNot(a, r, v)
  /\ UNCHANGED <<setup, valid, work>>

DeleteRec(r) ==
  /\ valid /\ r \in Live
  /\ f' = DeleteAll(f, Keys, r, rec[r])
  /\ nrecs' = nrecs - 1 /\ rec' = [rec EXCEPT ![r] = Deleted]
  /\ UNCHANGED <<setup, valid, work>>

(* DelIndRec of the editor: CleanUp empties the copy of the record before   *)
(* DeleteRec takes the keys from it.  Not a part of Next.                  *)
DelIndRec(r, empty) ==
  /\ valid /\ r \in Live
  /\ f' = DeleteAll(f, Keys, r, empty)
  /\ nrecs' = nrecs - 1 /\ rec' = [rec EXCEPT ![r] = Deleted]
  /\ UNCHANGED <<setup, valid, work>>

(* RecallRec: an index that has the key already is an error; the index     *)
(* file is not valid then and the record stays deleted.                    *)
RecallRec(r, v) ==
  /\ valid /\ rec[r] = Deleted
  /\ \E a \in {InsertUpTo(r, v)} :
       /\ nrecs' = nrecs + 1 /\ f' = a.f /\ valid' = a.ok
       /\ rec' = IF a.ok THEN [rec EXCEPT ![r] = v] ELSE rec
  /\ UNCHANGED <<setup, work>>

(* UpdateRec: in every index whose key changes the record is deleted and   *)
(* inserted again, with the same error.                                    *)
Rekey(a, xk, r, v) ==
  LET on(b) == [ok |-> b.ok, f |-> b.f]
  IN  IF ~ a.ok \/ Key(xk, v) = Key(xk, rec[r]) THEN a
      ELSE on(InsertKey(DeleteKey(a.f, xk, r, rec[r]), xk, r, v))

UpdateRec(r, v) ==
  /\ valid /\ r \in Live /\ v # rec[r]
  /\ \E a \in {FoldLeft(LAMBDA b, xk : Rekey(b, xk, r, v), [ok |-> TRUE, f |-> f], Keys)} :
       /\ f' = a.f /\ valid' = a.ok
       /\ rec' = IF a.ok THEN [rec EXCEPT ![r] = v] ELSE rec
  /\ UNCHANGED <<setup, nrecs, work>>

(* TestDuplKey: the editor lets no record through whose key is there.      *)
TestDuplKey(r, v) ==
  \E xk \in Range(Keys) :
    ~ xk.duplic /\ \E q \in Live \ {r} : Key(xk, rec[q]) = Key(xk, v)

(* UpdateIndexes of the editor: in the index it goes by (vk) the path of   *)
(* the search for the record with its new key is where it is inserted;     *)
(* only a record found under its new key stays.                            *)
Without(g, xk, r) == IF rec[r] = Deleted THEN g ELSE DeleteKey(g, xk, r, rec[r])

UpdateViewKey(found, r, v, vk) ==
  LET to(g, path) == InsertOnPath(g, vk, path, Key(vk, v), r)
      at(g) == to(g, IF rec[r] = Deleted THEN found.path ELSE Search(g, vk, Key(vk, v), TRUE))
  IN  IF found.ok THEN f ELSE at(Without(f, vk, r))

UpdateOther(g, xk, r, v, vk) ==
  IF xk = vk THEN g ELSE InsertKey(Without(g, xk, r), xk, r, v).f

UpdateIndexes(r, v, vk) ==
  /\ valid /\ v # rec[r] /\ ~ TestDuplKey(r, v)
  /\ f' = FoldLeft(LAMBDA g, xk : UpdateOther(g, xk, r, v, vk),
                   UpdateViewKey(RecNrToPath(f, vk, r, v), r, v, vk), Keys)
  /\ nrecs' = IF rec[r] = Deleted THEN nrecs + 1 ELSE nrecs
  /\ rec' = [rec EXCEPT ![r] = v]
  /\ UNCHANGED <<setup, valid, work>>
-----------------------------------------------------------------------------
(* Scanning an index: XScan.                                               *)

(* GetRec, n times from an item on: along the page, then the next leaf.    *)
RECURSIVE Take(_, _, _, _)
Take(g, pg, i, n) ==
  LET last(p) == i > NItems(p) \/ (i = NItems(p) /\ p.greater = 0)
      to(p)   == IF i = NItems(p) THEN Step(p.greater, 1) ELSE Step(pg, i + 1)
      rest(p, s) == <<p.items[i].n>> \o Take(g, s.pg, s.i, n - 1)
      on(p)   == IF last(p) THEN <<RecNrAt(p, i)>> ELSE rest(p, to(p))
  IN  IF n = 0 THEN <<>> ELSE on(RdPage(g, pg))

(* CopyIndex: every leaf from this one on.                                 *)
Numbers(items) == [i \in DOMAIN items |-> items[i].n]

RECURSIVE ChainFrom(_, _)
ChainFrom(g, pg) ==
  LET on(p) == Numbers(p.items) \o IF p.greater = 0 THEN <<>> ELSE ChainFrom(g, p.greater)
  IN  on(RdPage(g, pg))

(* SeekRec(n) and all the records from there on.                           *)
TakeAt(g, s, n) == Take(g, s.pg, s.i, n)

ScanFrom(g, xk, n, all) == TakeAt(g, Last(NrToPath(g, xk, n + 1)), all - n)

(* The interval x1 .. x2: x2 is lengthened so that it is behind all keys   *)
(* that begin with it (AddFFs); the numbers found bound the scan.          *)
FoundNr(g, xk, x) == PathToNr(g, Search(g, xk, x, FALSE))

ScanInterval(g, xk, x1, x2) ==
  LET on(beg, end) == IF end <= beg THEN <<>> ELSE ScanFrom(g, xk, beg - 1, end - 1)
  IN  on(FoundNr(g, xk, x1), FoundNr(g, xk, Append(x2, 255)))
-----------------------------------------------------------------------------
(* The work index: XWKey.  Its key is that of an index of the file, or     *)
(* empty: then only the user's order counts.                               *)

WorkKey(root) ==
  [root |-> root, duplic |-> TRUE, inwork |-> TRUE,
   keys |-> IF setup.work = "keys" THEN Keys[1].keys
            ELSE [v \in DOMAIN Keys[1].keys |-> <<>>]]

WK == WorkKey(wroot)

(* Open, and a copy of index k: the records along its chain of leaves,     *)
(* sorted again when the keys are not the same.                            *)
OpenWork(k) ==
  /\ valid /\ wroot = 0 /\ nrecs > 0 /\ setup.work # "none"
  /\ \E new \in {NewPage(w)} :
     \E copy \in {ChainFrom(f, Last(NrToPath(f, Keys[k], 1)).pg)} :
     \E src \in {SortMerge(WorkKey(new.n), [i \in DOMAIN copy |-> <<copy[i], rec[copy[i]]>>]).out} :
     \E done \in {BuildKey(NoRecords(WrPage(new.f, EmptyLeaf, new.n)), <<>>,
                           WorkKey(new.n), src)} :
       /\ w' = ReleasePage(done.f, done.next) /\ wroot' = new.n
       /\ order' = [i \in DOMAIN src |-> src[i][1]]
  /\ UNCHANGED <<setup, rec, f, nrecs, valid>>

(* AddToRecNr: the numbers from r on go up or down by d, leaf by leaf.     *)
Renumbered(items, r, d) ==
  [i \in DOMAIN items |-> [items[i] EXCEPT !.n = IF @ >= r THEN @ + d ELSE @]]

RECURSIVE ShiftFrom(_, _, _, _)
ShiftFrom(g, pg, r, d) ==
  LET put(p) == WrPage(g, [p EXCEPT !.items = Renumbered(@, r, d)], pg)
      on(p)  == IF p.greater = 0 THEN put(p) ELSE ShiftFrom(put(p), p.greater, r, d)
  IN  on(RdPage(g, pg))

(* Mutant: only the first leaf.                                            *)
AddToRecNrOnLeaf(g, xk, r, d, all) ==
  LET put(p, pg) == WrPage(g, [p EXCEPT !.items = Renumbered(@, r, d)], pg)
      on(pg)     == put(RdPage(g, pg), pg)
  IN  IF all = 0 THEN g ELSE on(Last(NrToPath(g, xk, 1)).pg)

AddToRecNr(g, xk, r, d, all) ==
  IF all = 0 THEN g ELSE ShiftFrom(g, Last(NrToPath(g, xk, 1)).pg, r, d)

Shifted(s, r, d) == [i \in DOMAIN s |-> IF s[i] >= r THEN s[i] + d ELSE s[i]]

(* A record of a file without an index goes in at place i of the work      *)
(* index as record r: the records from r on have moved up by one.          *)
InsertAtNr(i, r) ==
  /\ wroot # 0 /\ setup.work = "places" /\ Len(order) < MaxWork
  /\ i <= Len(order) + 1
  /\ \E g \in {AddToRecNr(w, WK, r, 1, Len(order))} :
       w' = InsertOnPath(g, WK, NrToPath(g, WK, i), <<>>, r)
  /\ order' = InsertAt(Shifted(order, r, 1), i, r)
  /\ UNCHANGED <<setup, rec, f, nrecs, valid, wroot>>

(* A record goes in where its key belongs: the place is what a user sees.  *)
InsertGetNr(r) ==
  /\ wroot # 0 /\ setup.work = "keys" /\ r \in Live \ Range(order)
  /\ \E path \in {Search(w, WK, Key(WK, rec[r]), TRUE)} :
       /\ w' = InsertOnPath(w, WK, path, Key(WK, rec[r]), r)
       /\ order' = InsertAt(order, PathToNr(w, path), r)
  /\ UNCHANGED <<setup, rec, f, nrecs, valid, wroot>>

(* The record at place i is taken out; in a file without an index those    *)
(* behind it have moved down.                                              *)
WithoutPlace(i) == DeleteOnPath(w, NrToPath(w, WK, i))

DeleteAtNr(i) ==
  /\ wroot # 0 /\ i <= Len(order)
  /\ IF setup.work = "places"
     THEN /\ w' = AddToRecNr(WithoutPlace(i), WK, order[i], -1, Len(order) - 1)
          /\ order' = Shifted(RemoveAt(order, i), order[i], -1)
     ELSE w' = WithoutPlace(i) /\ order' = RemoveAt(order, i)
  /\ UNCHANGED <<setup, rec, f, nrecs, valid, wroot>>

(* ReleaseTree: the pages below a page, then the page.                     *)
Below(p) ==
  [i \in 1 .. NItems(p) |-> p.items[i].down] \o IF p.greater = 0 THEN <<>> ELSE <<p.greater>>

RECURSIVE ReleaseTree(_, _)
ReleaseTree(g, pg) ==
  LET on(p) == IF p.leaf THEN g ELSE FoldLeft(ReleaseTree, g, Below(p))
  IN  ReleasePage(on(RdPage(g, pg)), pg)

CloseWork ==
  /\ wroot # 0 /\ wroot' = 0 /\ order' = <<>>
  /\ w' = ReleaseTree(w, wroot)
  /\ UNCHANGED <<setup, rec, f, nrecs, valid>>
-----------------------------------------------------------------------------
Does(op) == op \in setup.ops /\ left > 0 /\ left' = left - 1

RecordStep ==
  \E r \in setup.slots :
    \/ Does("delete") /\ DeleteRec(r)
    \/ \E v \in setup.vals :
         \/ Does("insert") /\ TryInsertAllIndexes(r, v)
         \/ Does("recall") /\ RecallRec(r, v)
         \/ Does("update") /\ UpdateRec(r, v)
         \/ Does("edit") /\ \E xk \in Range(Keys) : UpdateIndexes(r, v, xk)

WorkStep ==
  \/ \E k \in 1 .. Len(Keys) : OpenWork(k)
  \/ \E i \in setup.places, r \in setup.slots : InsertAtNr(i, r)
  \/ \E r \in setup.slots : InsertGetNr(r)
  \/ \E i \in setup.places : DeleteAtNr(i)
  \/ CloseWork

Next ==
  \/ CreateIndexFile /\ UNCHANGED left
  \/ RecordStep
  \/ Does("work") /\ WorkStep

Spec == Init /\ [][Next]_vars
-----------------------------------------------------------------------------
(* What is on the pages.                                                   *)
RECURSIVE LeavesBelow(_, _)
LeavesBelow(g, pg) ==
  LET on(p) == IF p.leaf THEN <<pg>>
               ELSE FoldLeft(LAMBDA s, n : s \o LeavesBelow(g, n), <<>>, Below(p))
  IN  on(RdPage(g, pg))

Entries(g, root) ==
  FoldLeft(LAMBDA s, n : s \o RdPage(g, n).items, <<>>, LeavesBelow(g, root))

RECURSIVE PagesBelow(_, _)
PagesBelow(g, pg) ==
  LET on(p) == IF p.leaf THEN {} ELSE UNION {PagesBelow(g, n) : n \in Range(Below(p))}
  IN  {pg} \cup on(RdPage(g, pg))

RECURSIVE FreePages(_, _)
FreePages(g, n) ==
  IF n = 0 \/ n \notin DOMAIN g.page THEN <<>>
  ELSE <<n>> \o FreePages(g, g.page[n].greater)

(* What an index with these entries has to find.                           *)
KeyOf(xk, r) == Key(xk, rec[r])

PageType(g) ==
  /\ g.free \in 0 .. g.max
  /\ \A n \in DOMAIN g.page :
       /\ g.page[n].leaf \in BOOLEAN /\ g.page[n].greater \in 0 .. g.max
       /\ \A x \in Range(g.page[n].items) : x.down \in 0 .. g.max /\ x.n \in Nat

(* Every variable has its type, and no page is written that is longer     *)
(* than a page of the file: WrPage writes as much as fits and the items    *)
(* behind would be lost.                                                   *)
TypeOK ==
  /\ setup \in Setups /\ DOMAIN rec = DOMAIN setup.load
  /\ \A r \in Live : rec[r] \in DOMAIN Keys[1].keys
  /\ \A g \in {f, w} : PageType(g) /\ \A n \in DOMAIN g.page : ~ Overflow(g.page[n])
  /\ nrecs \in Nat /\ valid \in BOOLEAN /\ left \in Nat
  /\ wroot \in 0 .. w.max /\ Range(order) \subseteq 1 .. MaxWork

(* A valid index has each record that is not deleted once, under the key   *)
(* it has in the data file, in the order of the keys, and counts them:     *)
(* also after a record that the second index refused was taken out of the  *)
(* first one again, after the records with a key twice were thrown out of  *)
(* indexes that were complete already, and after the editor put a record   *)
(* where its search had ended (XKey.cpp, Fand0File.cpp, XXPage.cpp).       *)
EntriesMatchRecords ==
  valid => \A xk \in Range(Keys) :
    \E e \in {Entries(f, xk.root)} :
        /\ {<<e[i].key, e[i].n>> : i \in DOMAIN e} = {<<KeyOf(xk, r), r>> : r \in Live}
        /\ Len(e) = Cardinality(Live) /\ nrecs = Len(e)
        /\ \A i \in 2 .. Len(e) : ~ Before(e[i].key, e[i - 1].key)

(* Each record is found by its key and number and only under its own key,  *)
(* and the number that its path gives leads back to it: the counts and the *)
(* keys of all inner pages are right, and no search leaves the tree        *)
(* (Search, RecNrToPath, PathToNr, NrToPath of XKey.cpp).                  *)
RecordsFound ==
  valid => \A xk \in Range(Keys) :
    /\ \E e \in {Entries(f, xk.root)} : \A i \in DOMAIN e :
         /\ NrToRecNr(f, xk, i) = e[i].n
         /\ \E found \in {RecNrToPath(f, xk, e[i].n, rec[e[i].n])} :
              found.ok /\ PathToNr(f, found.path) = i
    /\ \A r \in setup.slots, v \in setup.vals :
         RecNrToPath(f, xk, r, v).ok => r \in Live /\ Key(xk, v) = KeyOf(xk, r)

Within(e, x, y) == SelectSeq(e, LAMBDA t : ~ Before(t.key, x) /\ ~ Before(y, t.key))

(* A scan from any place gives the records from there on, and a scan of an *)
(* interval of keys those whose keys are in it, in the order of the index: *)
(* both go along the chain of leaves, which inserts, splits and merges     *)
(* keep in the order of the tree (XScan.cpp, ChainPrevLeaf).               *)
ScansComplete ==
  valid => \A xk \in Range(Keys) :
    \E e \in {Entries(f, xk.root)} :
      /\ \A n \in 0 .. Len(e) - 1 :
           ScanFrom(f, xk, n, Len(e)) = SubSeq(Numbers(e), n + 1, Len(e))
      /\ \A u, v \in setup.vals :
           ScanInterval(f, xk, Key(xk, u), Key(xk, v)) =
             Numbers(Within(e, Key(xk, u), Key(xk, v)))

(* Every page of the index file and of the work file belongs to one index  *)
(* or is free, never both and never twice, and none is lost: a page given  *)
(* back is linked before it is used again (NewPage, ReleasePage,           *)
(* ReleaseTree; the page XWorkFile::Main reserves and gives back).         *)
PagesAccounted(g, roots) ==
  /\ \E free \in {FreePages(g, g.free)} :
       /\ IsInjective(free)
       /\ UNION {PagesBelow(g, n) : n \in roots} = (1 .. g.max) \ Range(free)
  /\ \A m, n \in roots : m # n => PagesBelow(g, m) \cap PagesBelow(g, n) = {}
  /\ \A n \in roots : IsInjective(LeavesBelow(g, n))

NoPageLost ==
  /\ valid => PagesAccounted(f, {xk.root : xk \in Range(Keys)})
  /\ PagesAccounted(w, IF wroot = 0 THEN {} ELSE {wroot})

(* The sort of an index build gives every record of the scan once, by key  *)
(* and records of equal keys in the order of the scan, however many of     *)
(* them there are: no page of the work file is given to two chains or      *)
(* left out, and the table of free page numbers, FreeNr[5] counted from 1, *)
(* does not overflow (XWorkFile::Merge, Merge2Chains, PutFreeNr).          *)
SortMergeRight ==
  ~ valid => \A xk \in Range(Keys), n \in 0 .. Len(ScanSequential) :
    \E q \in {SortMerge(xk, SubSeq(ScanSequential, 1, n))} :
      /\ Range(q.out) = Range(SubSeq(WRecs(ScanSequential), 1, n)) /\ Len(q.out) = n
      /\ \A i \in 2 .. n : Comes(xk, q.out[i - 1], q.out[i])
      /\ q.most <= 4

(* The work index gives the records in the order in which its user put     *)
(* them there by place, and in the order of the keys when it has any; the  *)
(* place that InsertGetNr returns is the one where the record is then.     *)
WorkOrderKept ==
  wroot # 0 =>
    /\ Numbers(Entries(w, wroot)) = order
    /\ Len(order) > 0 => ChainFrom(w, Last(NrToPath(w, WK, 1)).pg) = order
    /\ \A i \in DOMAIN order : NrToRecNr(w, WK, i) = order[i]
    /\ setup.work = "keys" =>
         \A i \in 2 .. Len(order) : ~ Before(KeyOf(WK, order[i]), KeyOf(WK, order[i - 1]))
=============================================================================
