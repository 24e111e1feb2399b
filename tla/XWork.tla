-------------------------------- MODULE XWork --------------------------------
(***************************************************************************)
(* The external sort of an index build: SortMerge of XWorkFile (fandio).   *)
(*                                                                         *)
(* Records are sorted page by page in memory.  Of more than one page each  *)
(* is written to the work file as a chain of its own; passes over the      *)
(* chains merge two into one until one is left, which is not written but   *)
(* goes to the index.  The chains of a pass are linked (nxt), the pages of *)
(* a chain too (chain); a page read to its end is free for the next one    *)
(* written.  A chain left over by an odd pass comes first in the next one. *)
(***************************************************************************)
EXTENDS XKey

CONSTANT MaxOnWPage     \* records on a page of the work file

ASSUME MaxOnWPageAssumption == MaxOnWPage \in Nat \ {0, 1, 2, 3}  \* else Err 624

(* WRec: record number, what it holds, its place in the scan.              *)
WRecs(scan) == [i \in DOMAIN scan |-> <<scan[i][1], scan[i][2], i>>]

(* WRec::Compare: by key, then by place.                                   *)
Comes(xk, s, t) ==
  \/ Before(Key(xk, s[2]), Key(xk, t[2]))
  \/ Key(xk, s[2]) = Key(xk, t[2]) /\ s[3] < t[3]

SortPage(xk, recs) == SortSeq(recs, LAMBDA s, t : Comes(xk, s, t))

(* The sort under way: work pages, the stack FreeNr of page numbers that   *)
(* are free, the highest number, the first chain of the pass, the one left *)
(* over, how many there are and what has gone to the index.  most: the     *)
(* longest that FreeNr has been.                                           *)
NoPages == [page |-> <<>>, free |-> <<>>, max |-> 0, root |-> 0, nxt |-> 0,
            chains |-> 1, out |-> <<>>, most |-> 0]

GetFreeNr(q) ==
  IF q.free = <<>> THEN [n |-> q.max + 1, q |-> [q EXCEPT !.max = @ + 1]]
  ELSE [n |-> Last(q.free), q |-> [q EXCEPT !.free = Front(@)]]

PutFreeNr(q, n) ==
  [q EXCEPT !.free = Append(@, n), !.most = Max({@, Len(q.free) + 1})]

WriteWPage(q, recs, pg, nxt, chain) ==
  IF q.chains = 1 THEN [q EXCEPT !.out = @ \o recs]
  ELSE [q EXCEPT !.page = (pg :> [recs |-> recs, nxt |-> nxt, chain |-> chain]) @@ @]

(* A chain being read: number, records and rest of the chain of its page.  *)
ReadWPage(q, pg) ==
  IF pg = 0 THEN [pg |-> 0, recs |-> <<>>, chain |-> 0]
  ELSE [pg |-> pg, recs |-> q.page[pg].recs, chain |-> q.page[pg].chain]

(* Merge2Chains: in[1] and in[2] are read, buf is the page being filled,   *)
(* which will be page pg and leads to the chain nxt.                       *)
Spill(m) ==
  LET on(new) == [m EXCEPT !.q = WriteWPage(new.q, m.buf, m.pg, m.nxt, new.n),
                           !.buf = <<>>, !.pg = new.n, !.nxt = 0]
  IN  IF Len(m.buf) = MaxOnWPage THEN on(GetFreeNr(m.q)) ELSE m

(* Mutant: the page is left for the next one before it is freed.           *)
TakeAndFreeNext(m, k) ==
  LET s    == m.in[k]
      q    == IF Len(s.recs) > 1 THEN m.q ELSE PutFreeNr(m.q, s.chain)
      rest == IF Len(s.recs) > 1 THEN [s EXCEPT !.recs = Tail(@)] ELSE ReadWPage(q, s.chain)
  IN  [m EXCEPT !.buf = Append(@, Head(s.recs)), !.q = q, !.in[k] = rest]

TakeFrom(m, k) ==
  LET s    == m.in[k]
      q    == IF Len(s.recs) > 1 THEN m.q ELSE PutFreeNr(m.q, s.pg)
      rest == IF Len(s.recs) > 1 THEN [s EXCEPT !.recs = Tail(@)] ELSE ReadWPage(q, s.chain)
  IN  [m EXCEPT !.buf = Append(@, Head(s.recs)), !.q = q, !.in[k] = rest]

Smaller(xk, m) ==
  IF m.in[1].recs = <<>> THEN 2
  ELSE IF m.in[2].recs # <<>> /\ Comes(xk, Head(m.in[2].recs), Head(m.in[1].recs)) THEN 2 ELSE 1

(* At most n records are taken, in halves: this nests less deeply.         *)
RECURSIVE MergeRecs(_, _, _)
MergeRecs(xk, m, n) ==
  LET one(s) == TakeFrom(s, Smaller(xk, s))
  IN  CASE m.in[1].recs = <<>> /\ m.in[2].recs = <<>> -> m
        [] n = 1 -> one(Spill(m))
        [] OTHER -> MergeRecs(xk, MergeRecs(xk, m, n \div 2), n - n \div 2)

Merge2Chains(xk, q, pg1, pg2, pg, nxt) ==
  LET start == [q |-> q, in |-> <<ReadWPage(q, pg1), ReadWPage(q, pg2)>>,
                buf |-> <<>>, pg |-> pg, nxt |-> nxt]
      done(m) == WriteWPage(m.q, m.buf, m.pg, m.nxt, 0)
  IN  done(MergeRecs(xk, start, q.max * MaxOnWPage))

(* Merge: the pairs of a pass, then the next pass.                         *)
RECURSIVE MergePairs(_, _, _, _, _, _)
MergePairs(xk, q, pairs, pg1, pg2, pg) ==
  LET nxt     == q.page[pg2].nxt
      more(b) == IF pairs = 1 THEN [n |-> 0, q |-> b] ELSE GetFreeNr(b)
      merged(new) == [n |-> new.n, q |-> Merge2Chains(xk, new.q, pg1, pg2, pg, new.n)]
      on(new) == IF pairs = 1 THEN [new.q EXCEPT !.nxt = nxt]
                 ELSE MergePairs(xk, new.q, pairs - 1, nxt, new.q.page[nxt].nxt, new.n)
  IN  on(merged(more([q EXCEPT !.chains = @ - 1])))

RECURSIVE MergeChains(_, _)
MergeChains(xk, q) ==
  LET first(b, pg) == IF q.nxt > 0 THEN MergePairs(xk, b, q.chains \div 2, q.nxt, q.root, pg)
                      ELSE MergePairs(xk, b, q.chains \div 2, q.root, q.page[q.root].nxt, pg)
      on(new) == first([new.q EXCEPT !.root = new.n], new.n)
  IN  IF q.chains = 1 THEN q
      ELSE MergeChains(xk, on(IF q.chains = 2 THEN [n |-> 0, q |-> q] ELSE GetFreeNr(q)))

(* SortMerge: the pages are cut from the scan and become chains 1, 2, ...  *)
Cut(recs, i) == SubSeq(recs, (i - 1) * MaxOnWPage + 1, Min({i * MaxOnWPage, Len(recs)}))

SortMerge(xk, scan) ==
  LET recs == WRecs(scan)
      k    == Max({1, (Len(recs) + MaxOnWPage - 1) \div MaxOnWPage})
      page == [i \in 1 .. k |-> [recs |-> SortPage(xk, Cut(recs, i)),
                                 nxt |-> IF i = k THEN 0 ELSE i + 1, chain |-> 0]]
      all  == [NoPages EXCEPT !.page = page, !.max = k, !.root = 1, !.chains = k]
  IN  IF k = 1 THEN [NoPages EXCEPT !.out = SortPage(xk, recs), !.max = 1]
      ELSE MergeChains(xk, all)
=============================================================================
