-------------------------------- MODULE XPage --------------------------------
(***************************************************************************)
(* A page of an index file: XPage, XItemLeaf and XItemNonLeaf of fandio.   *)
(*                                                                         *)
(* A page holds items in the order of their keys.  An item of a leaf is a  *)
(* key and a record number, an item of an inner page a key, the number of  *)
(* the page below and how many records are there; behind its last item an  *)
(* inner page may have one more page below, the greater page.  The         *)
(* greater page of a leaf is the next leaf.                                *)
(*                                                                         *)
(* An item stores only the part of its key that differs from the key       *)
(* before it (M bytes are common, L are stored).  Here items hold whole    *)
(* keys and M is computed: InsertItem, Delete, AddPage and SplitPage cut   *)
(* and lengthen the neighbour so that M always is the common part.         *)
(***************************************************************************)
EXTENDS Integers, Sequences, SequencesExt

CONSTANTS
  PageBytes,            \* bytes for items on a page: XPageSize - XPageOverHead
  LeafHead,             \* bytes of an item of a leaf without its key: 5
  NodeHead,             \* bytes of an item of an inner page without it: 9
  SplitBias             \* added to the size before it is halved: 5

ASSUME XPageAssumption ==
  /\ PageBytes \in Nat \ {0} /\ SplitBias \in Nat
  /\ LeafHead \in Nat \ {0} /\ NodeHead \in Nat \ {0}

Item(key, n, down) == [key |-> key, n |-> n, down |-> down]

Page(leaf, greater, items) == [leaf |-> leaf, greater |-> greater, items |-> items]

CleanPage == Page(FALSE, 0, <<>>)
EmptyLeaf == Page(TRUE, 0, <<>>)

NItems(p) == Len(p.items)

(* Length of the common beginning of two keys.                             *)
SLeadEqu(s, t) ==
  LET same == {i \in 1 .. Len(s) : i <= Len(t) /\ SubSeq(s, 1, i) = SubSeq(t, 1, i)}
  IN  Max(same \cup {0})

(* s comes before t, byte by byte.                                         *)
Before(s, t) ==
  \E m \in {SLeadEqu(s, t)} : m < Len(t) /\ (m < Len(s) => s[m + 1] < t[m + 1])

(* M and size of item i.                                                   *)
ItemM(p, i) == IF i = 1 THEN 0 ELSE SLeadEqu(p.items[i - 1].key, p.items[i].key)
ItemL(p, i) == Len(p.items[i].key) - ItemM(p, i)
ItemSize(p, i) == ItemL(p, i) + IF p.leaf THEN LeafHead ELSE NodeHead

SizeUpTo(p, k) == FoldLeft(LAMBDA sum, i : sum + ItemSize(p, i), 0, [i \in 1 .. k |-> i])
ItemsSize(p) == SizeUpTo(p, NItems(p))

Underflow(p) == ItemsSize(p) < PageBytes \div 2
Overflow(p)  == ItemsSize(p) > PageBytes

(* Key of the last item, and number of records on or below the page: the   *)
(* greater page is not counted.                                            *)
LastKey(p) == Last(p.items).key
SumOfItems(items) == FoldLeft(LAMBDA sum, x : sum + x.n, 0, items)
SumN(p) == IF p.leaf THEN NItems(p) ELSE SumOfItems(p.items)

InsertItem(p, i, x) == [p EXCEPT !.items = InsertAt(@, i, x)]
DeleteItem(p, i)    == [p EXCEPT !.items = RemoveAt(@, i)]

(* The page below item i, or the greater page.                             *)
Down(p, i) == IF i > NItems(p) THEN p.greater ELSE p.items[i].down

(* Insert a reference to page pg, which holds q, as item i.                *)
InsDownIndex(p, i, pg, q) == InsertItem(p, i, Item(LastKey(q), SumN(q), pg))

(* Everything that q holds behind what p holds.                            *)
AddPage(p, q) == Page(p.leaf, q.greater, p.items \o q.items)

(* The first items of page number pg go to a new page: up to the one with  *)
(* which they are more than half of the bytes.  Of two leaves the first is *)
(* chained to the second, an inner page gets no greater page.              *)
SplitAfter(p) ==
  LET more(i) == SizeUpTo(p, i) > (ItemsSize(p) + SplitBias) \div 2
  IN  Min({i \in 1 .. NItems(p) : more(i)} \cup {NItems(p)})

SplitPage(p, pg) ==
  LET cut(k) ==
        [low  |-> Page(p.leaf, IF p.leaf THEN pg ELSE 0, SubSeq(p.items, 1, k)),
         high |-> [p EXCEPT !.items = SubSeq(@, k + 1, Len(@))]]
  IN  cut(SplitAfter(p))
=============================================================================
