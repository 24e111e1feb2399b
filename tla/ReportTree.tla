----------------------------- MODULE ReportTree ------------------------------
(***************************************************************************)
(* What a report must print, told from its inputs as a whole: the tree of  *)
(* its groups.                                                             *)
(***************************************************************************)
EXTENDS MergeReport

(* The records of input i that count, in their order; those of them with   *)
(* match fields k; the sum of their numbers.                               *)
InScan(i)     == SelectSeq([n \in DOMAIN job.inp[i] |-> n], LAMBDA n : Of(i, n).st = "ok")
InGroup(i, k) == SelectSeq(InScan(i), LAMBDA n : Of(i, n).m = k)
Total(i, ns)  == FoldLeft(LAMBDA t, n : t + Of(i, n).v, 0, ns)

-----------------------------------------------------------------------------
(* The pieces of a sequence in which all elements agree on f.              *)
Runs(seq, f(_)) ==
  FoldLeft(LAMBDA rs, x : IF rs # <<>> /\ f(Last(Last(rs))) = f(x)
                          THEN Append(Front(rs), Append(Last(rs), x))
                          ELSE Append(rs, <<x>>), <<>>, seq)

(* The groups of a report: [k, recs], its match fields and its records of  *)
(* each input.  The groups of one input need not be in order.              *)
Groups ==
  IF MaxIi = 1
  THEN LET rs == Runs(InScan(1), LAMBDA n : Of(1, n).m)
       IN  [g \in DOMAIN rs |-> [k |-> Of(1, rs[g][1]).m, recs |-> <<rs[g]>>]]
  ELSE LET ks == SetToSortSeq(AllKeys, Less)
       IN  [g \in DOMAIN ks |-> [k |-> ks[g], recs |-> [i \in Inputs |-> InGroup(i, ks[g])]]]

Frame(i, d, keys, sums, inner) ==
  <<[b |-> "head", i |-> i, d |-> d, keys |-> keys, sums |-> <<>>]>>
    \o inner \o <<[b |-> "foot", i |-> i, d |-> d, keys |-> keys, sums |-> sums]>>

(* The records ns of input i that agree on its first l sort fields, within *)
(* the group gr.                                                           *)
RECURSIVE SortTree(_, _, _, _)
SortTree(i, gr, l, ns) ==
  IF l = NS(i)
  THEN [p \in DOMAIN ns |->
          [b |-> "line", i |-> i, sums |-> <<>>, keys |-> [n |-> ns[p], m |-> gr.k],
           d |-> CHOOSE q \in DOMAIN gr.recs[i] : gr.recs[i][q] = ns[p]]]
  ELSE LET rs == Runs(ns, LAMBDA n : Of(i, n).s[l + 1])
       IN  FlattenSeq([r \in DOMAIN rs |->
             Frame(i, job.nm + l + 1, gr.k \o SubSeq(Of(i, rs[r][1]).s, 1, l + 1),
                   <<Total(i, rs[r])>>, SortTree(i, gr, l + 1, rs[r]))])

(* The groups gs that agree on the first d match fields.                   *)
RECURSIVE GroupTree(_, _)
GroupTree(d, gs) ==
  Frame(0, d, [i \in Inputs |-> IF d = 0 THEN <<>> ELSE SubSeq(gs[1].k, 1, d)],
    [i \in Inputs |-> Total(i, FlattenSeq([g \in DOMAIN gs |-> gs[g].recs[i]]))],
    IF gs = <<>> THEN <<>>
    ELSE IF d = job.nm
    THEN FlattenSeq([i \in Inputs |-> SortTree(i, gs[1], 0, gs[1].recs[i])])
    ELSE LET rs == Runs(gs, LAMBDA g : g.k[d + 1])
         IN  FlattenSeq([r \in DOMAIN rs |-> GroupTree(d + 1, rs[r])]))

(* A report that comes to its end has each record once, inside headings    *)
(* and footings of all its levels that show the fields of their group, and *)
(* each footing sums up what lies between its heading and itself           *)
(* (Report.cpp MergeProc, GetDifLevel, Footings, ZeroSumFlds).             *)
ReportFollowsInputs == pc = "done" /\ job.kind = "report" => out = GroupTree(0, Groups)
=============================================================================
