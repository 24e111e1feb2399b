-------------------------------- MODULE XBuild --------------------------------
(***************************************************************************)
(* Building an index from sorted records: XXPage and XWorkFile::Main.      *)
(*                                                                         *)
(* On every level one page is being filled; a full one is written and gets *)
(* an item on the level above.  The pages under way are a.level, the leaf  *)
(* first.  The page a leaf will be written to is reserved when the leaf    *)
(* before it is written, for that one already leads to it: a.next.         *)
(***************************************************************************)
EXTENDS XWork

NoLevel(leaf) == [page |-> Page(leaf, 0, <<>>), sum |-> 0]

Reserve(a) == LET new == NewPage(a.f) IN [a EXCEPT !.f = new.f, !.next = new.n]

FillItem(a, lev, x, n) ==
  [a EXCEPT !.level[lev].page.items = Append(@, x), !.level[lev].sum = @ + n]

Fits(a, lev, x) == ~ Overflow([a.level[lev].page EXCEPT !.items = Append(@, x)])

(* AddToLeaf, AddToUpper: an item more on level lev, after PageFull when   *)
(* it does not fit there.                                                  *)
Above(a, lev) ==
  IF lev = Len(a.level) THEN [a EXCEPT !.level = Append(@, NoLevel(FALSE))] ELSE a

PageFor(a, leaf) == IF leaf THEN [n |-> a.next, f |-> a.f] ELSE NewPage(a.f)

WriteFull(a, lev, n) ==
  LET leaf  == a.level[lev].page.leaf
      chain == IF leaf THEN a.next ELSE a.level[lev].page.greater
  IN  [a EXCEPT !.f = WrPage(@, [a.level[lev].page EXCEPT !.greater = chain], n),
                !.level[lev] = NoLevel(leaf)]

RECURSIVE AddItem(_, _, _, _)
AddItem(a, lev, x, n) ==
  LET page    == a.level[lev].page
      sum     == a.level[lev].sum
      up(new) == AddItem([Above(a, lev) EXCEPT !.f = new.f], lev + 1,
                         Item(LastKey(page), sum, new.n), sum)
      next(b) == IF page.leaf THEN Reserve(b) ELSE b
      full(new) == WriteFull(next(up(new)), lev, new.n)
  IN  FillItem(IF Fits(a, lev, x) THEN a ELSE full(PageFor(a, page.leaf)), lev, x, n)

(* FinishIndex: the pages under way are written, the last one as the root; *)
(* each is the greater page of the one above it.                           *)
FinishIndex(a, xk) ==
  LET top == Len(a.level)
      put(b, lev, n) ==
        [b EXCEPT !.f = WrPage(@, [b.level[lev].page EXCEPT !.greater = b.below], n),
                  !.below = n]
      lay(b, lev) == IF lev = top THEN put(b, lev, xk.root) ELSE Reserve(put(b, lev, b.next))
      all == FoldLeft(LAMBDA sum, l : sum + l.sum, 0, a.level)
  IN  FoldLeft(lay, a @@ [below |-> 0, nrecs |-> all], [lev \in 1 .. top |-> lev])

(* AddToLeaf: a key that a unique index has is not added: its record gets  *)
(* out of all the indexes and is deleted.  Here s is the WRec.            *)
Refused(a, xks, s) ==
  [a EXCEPT !.f = FoldLeft(LAMBDA f, k : DeleteKey(f, k, s[1], s[2]), @, xks),
            !.gone = @ \cup {s[1]}]

AddToLeaf(a, xks, xk, s) ==
  LET on(items, x) ==
        IF Len(x) > 0 /\ items # <<>> /\ Last(items).key = x /\ ~ xk.inwork /\ ~ xk.duplic
        THEN Refused(a, xks, s) ELSE AddItem(a, 1, Item(x, s[1], 0), 1)
  IN  on(a.level[1].page.items, Key(xk, s[2]))

(* One record after the other, in halves of which TLC has the first done   *)
(* before the second: a fold over all of them would nest too deeply.       *)
RECURSIVE AddRecs(_, _, _, _)
AddRecs(a, xks, xk, recs) ==
  LET half == Len(recs) \div 2
      both == {AddRecs(b, xks, xk, SubSeq(recs, half + 1, Len(recs))) :
                 b \in {AddRecs(a, xks, xk, SubSeq(recs, 1, half))}}
  IN  CASE recs = <<>>   -> a
        [] Len(recs) = 1 -> AddToLeaf(a, xks, xk, recs[1])
        [] OTHER         -> CHOOSE b \in both : TRUE

BuildKey(b, xks, xk, recs) ==
  FinishIndex(AddRecs([f |-> b.f, next |-> b.next, gone |-> b.gone,
                       level |-> <<NoLevel(TRUE)>>], xks, xk, recs), xk)

(* Main: one page is reserved, then one index after the other is built,    *)
(* each from the records that are not deleted by then.                     *)
NoRecords(f) == Reserve([f |-> f, next |-> 0, gone |-> {}, nrecs |-> 0])

XWorkMain(f, xks, scan) ==
  LET left(b) == SelectSeq(scan, LAMBDA s : s[1] \notin b.gone)
      key(b, xk) == BuildKey(b, xks, xk, SortMerge(xk, left(b)).out)
      on(all) == [f |-> ReleasePage(all.f, all.next), gone |-> all.gone, nrecs |-> all.nrecs]
  IN  on(FoldLeft(key, NoRecords(f), xks))

(* SetEmpty: every index is its root, an empty leaf.                       *)
SetEmpty(xks) ==
  LET roots == {xk.root : xk \in Range(xks)}
  IN  [page |-> [n \in roots |-> EmptyLeaf], free |-> 0, max |-> Max(roots)]
=============================================================================
