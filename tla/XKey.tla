--------------------------------- MODULE XKey ---------------------------------
(***************************************************************************)
(* An index as a tree of pages in an index file: XKey and the page         *)
(* allocation of FandXFile (fandio), as operators on the file.             *)
(*                                                                         *)
(* A file f is its pages 1 .. f.max, the root of the list of free pages    *)
(* (linked by their greater page) and the roots of its indexes, which      *)
(* never move.  A key descriptor xk says where the root of an index is,    *)
(* whether equal keys are allowed (Duplic) and what key a record has.  A   *)
(* path (XPath) names on every level the page and the item it goes on      *)
(* with; the item behind the last one stands for the greater page.         *)
(***************************************************************************)
EXTENDS XPage, FiniteSets

(* RdPage: a number that is no page of the file is Err 831, shown here as  *)
(* the clean page on which everything stops.                               *)
RdPage(f, n) == IF n \in DOMAIN f.page THEN f.page[n] ELSE CleanPage

WrPage(f, p, n) == [f EXCEPT !.page = (n :> p) @@ @]

(* NewPage: a free page, or one more at the end; .n is its number.         *)
NewPage(f) ==
  IF f.free # 0
  THEN [n |-> f.free, f |-> [f EXCEPT !.free = RdPage(f, f.free).greater]]
  ELSE [n |-> f.max + 1, f |-> [f EXCEPT !.max = @ + 1]]

(* Mutant: the page is not linked to the free pages in front of it.        *)
ReleasePageAlone(f, n) == WrPage([f EXCEPT !.free = n], CleanPage, n)

ReleasePage(f, n) ==
  WrPage([f EXCEPT !.free = n], Page(FALSE, f.free, <<>>), n)

(* Key of a record that holds v.                                           *)
Key(xk, v) == xk.keys[v]

Step(pg, i) == [pg |-> pg, i |-> i]
-----------------------------------------------------------------------------
(* Searching.                                                              *)

(* The first item that is not before x, with after the first one behind x. *)
KeySearch(p, x, after) ==
  LET hits == {i \in 1 .. NItems(p) : IF after THEN Before(x, p.items[i].key)
                                               ELSE ~ Before(p.items[i].key, x)}
  IN  Min(hits \cup {NItems(p) + 1})

RECURSIVE SearchFrom(_, _, _, _)
SearchFrom(f, pg, x, after) ==
  LET below(p, i) == <<Step(pg, i)>> \o IF p.leaf \/ NItems(p) = 0 THEN <<>>
                                        ELSE SearchFrom(f, Down(p, i), x, after)
      on(p) == below(p, KeySearch(p, x, after))
  IN  on(RdPage(f, pg))

Search(f, xk, x, after) == SearchFrom(f, xk.root, x, after /\ xk.duplic)

(* The leaf at the end of a path, and whether its item has the key x.      *)
LeafOf(f, path) == RdPage(f, Last(path).pg)

KeyAt(p, i) == IF i \in 1 .. NItems(p) THEN {p.items[i].key} ELSE {}

IsEqu(f, path, x) == x \in KeyAt(LeafOf(f, path), Last(path).i)

(* The number in the index of the item that a path ends at, and back.      *)
PathToNr(f, path) ==
  LET before(s) == SumOfItems(SubSeq(RdPage(f, s.pg).items, 1, s.i - 1))
  IN  FoldLeft(LAMBDA sum, s : sum + before(s), Last(path).i, Front(path))

CountUpTo(p, i) == SumOfItems(SubSeq(p.items, 1, i))

RECURSIVE NrToPathFrom(_, _, _)
NrToPathFrom(f, pg, nr) ==
  LET item(p) == Min({k \in 1 .. NItems(p) : nr <= CountUpTo(p, k)} \cup {NItems(p) + 1})
      below(p, i) == <<Step(pg, i)>> \o NrToPathFrom(f, Down(p, i), nr - CountUpTo(p, i - 1))
      on(p) == IF p.leaf \/ p = CleanPage THEN <<Step(pg, nr)>> ELSE below(p, item(p))
  IN  on(RdPage(f, pg))

NrToPath(f, xk, nr) == NrToPathFrom(f, xk.root, nr)

RecNrAt(p, i) == IF i \in 1 .. NItems(p) THEN p.items[i].n ELSE 0
PathToRecNr(f, path) == RecNrAt(LeafOf(f, path), Last(path).i)

NrToRecNr(f, xk, nr) == PathToRecNr(f, NrToPath(f, xk, nr))

(* IncPath: the levels up to j go on to the next page on level j + 1.      *)
RECURSIVE IncPath(_, _, _)
IncPath(f, path, j) ==
  LET again(up) == IF up.ok THEN IncPath(f, up.path, j) ELSE up
      on(p, i)  == IF i < NItems(p) + (IF p.greater = 0 THEN 0 ELSE 1)
                   THEN [ok |-> TRUE, path |-> [path EXCEPT ![j].i = i + 1,
                                                            ![j + 1].pg = Down(p, i + 1)]]
                   ELSE again(IncPath(f, [path EXCEPT ![j].i = 0], j - 1))
  IN  IF j = 0 THEN [ok |-> FALSE, path |-> path] ELSE on(RdPage(f, path[j].pg), path[j].i)

(* RecNrToPath: among the items with the key of the record the one with    *)
(* its number; items of one page with equal keys store no byte of it.      *)
(* The path goes along, also when the record is not found.                 *)
AtFirst(next, d) == [next EXCEPT !.path[d].i = 1]

EquUpTo(p, i) ==
  Max({k \in i .. NItems(p) : \A j \in i + 1 .. k : ItemL(p, j) = 0})

RECURSIVE WalkTo(_, _, _, _)
WalkTo(f, path, x, r) ==
  LET d == Len(path)
      to(ok, k) == [ok |-> ok, path |-> [path EXCEPT ![d].i = k]]
      next(way) == IF way.ok /\ IsEqu(f, way.path, x) THEN WalkTo(f, way.path, x, r)
                   ELSE [way EXCEPT !.ok = FALSE]
      turn(p, way) == IF way.ok THEN next(AtFirst(way, d)) ELSE to(FALSE, NItems(p) + 1)
      on(p, end, here) ==
        CASE here # {} -> to(TRUE, Min(here))
          [] here = {} /\ end < NItems(p) -> to(FALSE, end + 1)
          [] OTHER -> turn(p, IncPath(f, path, d - 1))
      among(p, end) == on(p, end, {k \in path[d].i .. end : p.items[k].n = r})
      leaf(p) == among(p, EquUpTo(p, path[d].i))
  IN  leaf(LeafOf(f, path))

(* Mutant: the walk among equal keys ends with the page.                   *)
RecNrToPathOnPage(f, xk, r, v) ==
  LET here(p) == {i \in 1 .. NItems(p) : p.items[i] = Item(Key(xk, v), r, 0)}
      on(path) == [ok |-> here(LeafOf(f, path)) # {},
                   path |-> [path EXCEPT ![Len(path)].i =
                               Min(here(LeafOf(f, path)) \cup {NItems(LeafOf(f, path)) + 1})]]
  IN  on(Search(f, xk, Key(xk, v), FALSE))
RecNrToPath(f, xk, r, v) ==
  LET on(path) == IF IsEqu(f, path, Key(xk, v)) THEN WalkTo(f, path, Key(xk, v), r)
                  ELSE [ok |-> FALSE, path |-> path]
  IN  on(Search(f, xk, Key(xk, v), FALSE))

-----------------------------------------------------------------------------
(* Inserting.  Going up the path, .up is the new page that a split put in  *)
(* front of the page below (0: none), .upsum its records and .x the key    *)
(* that separates them: the last key of the new page.                      *)

(* The leaf in front of the new leaf n now leads to it: down the item left *)
(* of the path on the lowest level that has one, then always the last.     *)
RECURSIVE LastLeaf(_, _)
LastLeaf(f, pg) ==
  LET p == RdPage(f, pg)
  IN  IF p.leaf \/ NItems(p) = 0 THEN pg ELSE LastLeaf(f, p.items[NItems(p)].down)

Lead(f, pg, n) == WrPage(f, [RdPage(f, pg) EXCEPT !.greater = n], pg)

(* Mutant: only the sibling under the same parent is looked for.           *)
ChainSibling(f, path, n) ==
  LET on(s) == IF s.i = 1 THEN f ELSE Lead(f, RdPage(f, s.pg).items[s.i - 1].down, n)
  IN  IF Len(path) = 1 THEN f ELSE on(path[Len(path) - 1])

ChainPrevLeaf(f, path, n) ==
  LET turns == {j \in 1 .. Len(path) - 1 : path[j].i > 1}
      left(s) == RdPage(f, s.pg).items[s.i - 1].down
  IN  IF turns = {} THEN f ELSE Lead(f, LastLeaf(f, left(path[Max(turns)])), n)

(* InsertLeafItem, InsertNonLeafItem: page q with one item more, split     *)
(* when it is too long.                                                    *)
WrParts(f, parts, low, high) == WrPage(WrPage(f, parts.high, high), parts.low, low)

PutParts(new, parts, pg, path) ==
  LET f1 == WrParts(new.f, parts, new.n, pg)
  IN  [f |-> IF parts.low.leaf THEN ChainPrevLeaf(f1, path, new.n) ELSE f1,
       p |-> parts.high, up |-> new.n, upsum |-> SumN(parts.low), x |-> LastKey(parts.low)]

PutPage(a, q, pg, path) ==
  IF Overflow(q) THEN PutParts(NewPage(a.f), SplitPage(q, pg), pg, path)
  ELSE [a EXCEPT !.f = WrPage(a.f, q, pg), !.p = q, !.up = 0]

(* One level: the count of the item gone through, the item for a new page. *)
Counted(p, i, d) ==
  IF i > NItems(p) THEN p ELSE [p EXCEPT !.items[i].n = @ + d]

InsertOnLevel(a, s, path, r) ==
  LET on(p) ==
        CASE p.leaf -> InsertItem(p, s.i, Item(a.x, r, 0))
          [] ~ p.leaf /\ a.up = 0 -> Counted(p, s.i, 1)
          [] OTHER -> InsertItem(Counted(p, s.i, 1 - a.upsum), s.i,
                                 Item(a.x, a.upsum, a.up))
  IN  PutPage(a, on(RdPage(a.f, s.pg)), s.pg, path)

(* The root is page root for ever: what a split left of it moves to a new  *)
(* page.                                                                   *)
GrowRoot(a, root) ==
  LET top(n, low) == InsDownIndex(Page(FALSE, n, <<>>), 1, a.up, low)
      grown(new, low) == WrPage(WrPage(new.f, a.p, new.n), top(new.n, low), root)
      on(new, low) == IF low.leaf THEN Lead(grown(new, low), a.up, new.n) ELSE grown(new, low)
  IN  IF a.up = 0 THEN a.f ELSE on(NewPage(a.f), RdPage(a.f, a.up))

InsertOnPath(f, xk, path, x, r) ==
  LET start == [f |-> f, p |-> CleanPage, up |-> 0, upsum |-> 0, x |-> x]
  IN  GrowRoot(FoldRight(LAMBDA s, a : InsertOnLevel(a, s, path, r), path, start),
               xk.root)

(* Insert(Try): refused (.ok FALSE) when the key is there and must not be  *)
(* there twice.                                                            *)
InsertKey(f, xk, r, v) ==
  LET on(path) == IF IsEqu(f, path, Key(xk, v)) /\ ~ xk.duplic THEN [ok |-> FALSE, f |-> f]
                  ELSE [ok |-> TRUE, f |-> InsertOnPath(f, xk, path, Key(xk, v), r)]
  IN  on(Search(f, xk, Key(xk, v), TRUE))
-----------------------------------------------------------------------------
(* Deleting.  Going up the path, page .p2 number .up is the page below     *)
(* after the change; it is not yet written.                                *)

(* BalancePages: the two pages in one, or their items halved again.        *)
BalancePages(p1, p2) ==
  LET on(both) == IF ItemsSize(both) <= PageBytes THEN [low |-> both, high |-> CleanPage]
                  ELSE SplitPage(both, p1.greater)
  IN  on(AddPage(p1, p2))

Released(b) == b.high = CleanPage

(* The page below is too empty: it is balanced with its left neighbour,    *)
(* the first one with its right neighbour.  The items i1 and i1 + 1 of p   *)
(* are renewed, or the first one alone when the second page has gone.      *)
Renewed(p, i, pg, q) == InsDownIndex(DeleteItem(p, i), i, pg, q)

Joined(p, i1, pg1, b) ==
  IF i1 = NItems(p) THEN [DeleteItem(p, i1) EXCEPT !.greater = pg1]
  ELSE DeleteItem(Renewed(p, i1, pg1, b.low), i1 + 1)

Balanced(p, i1, pg1, pg2, b) ==
  IF i1 = NItems(p) THEN Renewed(p, i1, pg1, b.low)
  ELSE Renewed(Renewed(p, i1, pg1, b.low), i1 + 1, pg2, b.high)

BalanceBelow(f, p, i1, pg1, pg2) ==
  LET on(b) ==
        IF Released(b)
        THEN [f |-> ReleasePage(WrPage(f, b.low, pg1), pg2), p |-> Joined(p, i1, pg1, b)]
        ELSE [f |-> WrParts(f, b, pg1, pg2), p |-> Balanced(p, i1, pg1, pg2, b)]
  IN  on(BalancePages(RdPage(f, pg1), RdPage(f, pg2)))

(* The page below is full enough: its item gets its key and count again,   *)
(* after a split of the page when its keys have become too long.           *)
RenewAt(f, p, i, pg, q) ==
  [f |-> WrPage(f, q, pg), p |-> IF i > NItems(p) THEN p ELSE Renewed(p, i, pg, q)]

(* Mutant: the page is not looked at again.                                *)
RenewBelowAsItIs(a, p, i) == RenewAt(a.f, p, i, a.up, a.p2)

RenewBelow(a, p, i) ==
  LET on(new, parts) ==
        RenewAt(WrPage(new.f, parts.low, new.n),
                InsDownIndex(p, i, new.n, parts.low), i + 1, a.up, parts.high)
  IN  IF Overflow(a.p2) THEN on(NewPage(a.f), SplitPage(a.p2, a.up))
      ELSE RenewAt(a.f, p, i, a.up, a.p2)

DeleteOnLevel(a, s) ==
  LET left  == Max({1, s.i - 1})
      on(p) ==
        CASE p.leaf -> [f |-> a.f, p |-> DeleteItem(p, s.i)]
          [] ~ p.leaf /\ Underflow(a.p2) ->
               BalanceBelow(WrPage(a.f, a.p2, a.up), p, left, Down(p, left), Down(p, left + 1))
          [] OTHER -> RenewBelow(a, p, s.i)
      up(b) == [f |-> b.f, p2 |-> b.p, up |-> s.pg]
  IN  up(on(RdPage(a.f, s.pg)))

(* The root: too long it is split below a new root page, without an item   *)
(* it becomes a copy of its only page below.                               *)
SplitRoot(f, low, high, parts, root) ==
  WrPage(WrParts(f, parts, low, high),
         InsDownIndex(Page(FALSE, high, <<>>), 1, low, parts.low), root)

SettleRoot(a) ==
  LET only  == a.p2.greater
      both(low, high) == SplitRoot(high.f, low.n, high.n, SplitPage(a.p2, a.up), a.up)
      next(low) == both(low, NewPage(low.f))
  IN  CASE Overflow(a.p2) -> next(NewPage(a.f))
        [] ~ Overflow(a.p2) /\ NItems(a.p2) = 0 /\ only > 0 ->
             WrPage(ReleasePage(a.f, only), RdPage(a.f, only), a.up)
        [] OTHER -> WrPage(a.f, a.p2, a.up)

DeleteOnPath(f, path) ==
  SettleRoot(FoldRight(LAMBDA s, a : DeleteOnLevel(a, s), path,
                       [f |-> f, p2 |-> CleanPage, up |-> 0]))

(* Delete: a record that is not in the index changes nothing.              *)
DeleteKey(f, xk, r, v) ==
  LET on(found) == IF found.ok THEN DeleteOnPath(f, found.path) ELSE f
  IN  on(RecNrToPath(f, xk, r, v))
=============================================================================
