----------------------------- MODULE MergeReport -----------------------------
(***************************************************************************)
(* Merges and reports with what they must write, told from the inputs as   *)
(* a whole and not from the way they are read.                             *)
(***************************************************************************)
EXTENDS Merge, Report

vars == <<inVars, mVars, rVars>>

Ended == pc \in {"done", "refused"} /\ UNCHANGED vars

MRInit == Init /\ MergeInit /\ ReportInit
MRNext ==
  \/ MergeNext /\ UNCHANGED rVars
  \/ ReportNext /\ UNCHANGED mVars
  \/ Ended
Spec == MRInit /\ [][MRNext]_vars
-----------------------------------------------------------------------------
(* The records of input i that count; those of them with match fields k,   *)
(* how many up to record n, and the last one.                              *)
Of(i, n)         == job.inp[i][n]
Wanted(i)        == {n \in DOMAIN job.inp[i] : Of(i, n).st = "ok"}
With(i, k)       == {n \in Wanted(i) : Of(i, n).m = k}
CountTo(i, k, n) == Cardinality({p \in With(i, k) : p <= n})
LastOf(i, k)     == IF With(i, k) = {} THEN 0 ELSE Max(With(i, k))

InOrder(i) == \A g, h \in Wanted(i) : g < h => ~Less(Of(i, h).m, Of(i, g).m)
AllInOrder == \A i \in Inputs : InOrder(i)

(* The groups that are written, and the number of each.                    *)
AllKeys    == UNION {{Of(i, n).m : n \in Wanted(i)} : i \in Inputs}
GroupKeys  == {k \in AllKeys : job.kind = "join" => \A i \in Inputs : With(i, k) # {}}
Nr(k)      == Cardinality({l \in GroupKeys : ~Less(k, l)})

(* Output o in the group of k where the formulas see the records c.        *)
Entry(o, k, c) ==
  [o |-> o, group |-> Nr(k), recs  |-> [i \in DOMAIN c |-> [n |-> c[i], m |-> k]],
                             count |-> [i \in DOMAIN c |-> CountTo(i, k, c[i])]]

(* Record n of input i beside the last records of the inputs before it;    *)
(* the combinations of a join; the end of a group.                         *)
Taken(i, n) ==
  LET k == Of(i, n).m IN Entry(i, k, [j \in 1 .. i |-> IF j = i THEN n ELSE LastOf(j, k)])
Picks(k)    ==
  {c \in [Inputs -> UNION {With(i, k) : i \in Inputs}] : \A i \in Inputs : c[i] \in With(i, k)}
End(k)      == Entry(0, k, [i \in Inputs |-> LastOf(i, k)])
Entries     ==
  {End(k) : k \in GroupKeys} \cup
  IF job.kind = "join" THEN UNION {{Entry(MaxIi, k, c) : c \in Picks(k)} : k \in GroupKeys}
                       ELSE UNION {{Taken(i, n) : n \in Wanted(i)} : i \in Inputs}

(* The order of what is written: by group, in it the end last; the inputs  *)
(* one after the other; of several inputs the last one changes first.      *)
Numbers(e)   == [i \in DOMAIN e.recs |-> e.recs[i].n]
Before(d, e) ==
  \/ d.group < e.group
  \/ d.group = e.group /\ d.o # 0 /\ (e.o = 0 \/ d.o < e.o)
  \/ d.group = e.group /\ d.o # 0 /\ d.o = e.o /\ Less(Numbers(d), Numbers(e))

(* What the first p outputs show of input i in group g, summed up.         *)
SumTo(f, p) ==
  LET sumto[q \in Nat] == IF q = 0 THEN 0 ELSE sumto[q - 1] + IF q \in DOMAIN f THEN f[q] ELSE 0
  IN  sumto[p]
ShownOf(i, g) ==
  [q \in DOMAIN out |-> IF out[q].group = g /\ out[q].o = (IF job.kind = "join" THEN MaxIi ELSE i)
                        THEN Of(i, out[q].recs[i].n).v ELSE 0]

Bare(e) == [o |-> e.o, group |-> e.group, recs |-> e.recs, count |-> e.count]

(* A merge that comes to its end has written every record once, in the     *)
(* group of its match fields and in order, beside the records of the other *)
(* inputs that belong to it; a join every combination of the groups that   *)
(* no input lacks (Merge.cpp MergeProc, JoinProc).  The sums at the end of *)
(* a group are those of what the group shows.                              *)
MergeFollowsInputs ==
  pc = "done" /\ IsMerge =>
    /\ {Bare(out[p]) : p \in DOMAIN out} = Entries
    /\ \A p, q \in DOMAIN out : p < q => Before(out[p], out[q])
    /\ \A p \in DOMAIN out : out[p].o = 0 =>
         out[p].sum = [i \in Inputs |-> <<SumTo(ShownOf(i, out[p].group), p)>>]

(* An input that is not in order is noticed: no merge, and no report on    *)
(* several inputs, comes to its end with one, and none is refused without  *)
(* (error 607).                                                            *)
UnsortedRefused ==
  /\ pc = "done" => AllInOrder \/ (job.kind = "report" /\ MaxIi = 1)
  /\ pc = "refused" => ~AllInOrder
=============================================================================
