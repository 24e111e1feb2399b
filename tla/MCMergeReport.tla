--------------------------- MODULE MCMergeReport ----------------------------
(***************************************************************************)
(* Jobs for MergeReport: every content of small inputs.                    *)
(***************************************************************************)
EXTENDS ReportTree

Tuples(len, vals) == [1 .. len -> vals]

(* All inputs of up to len records; the n-th record has its own bit as its *)
(* number, so that a sum shows which records it is made of.                *)
Contents(len, ms, ss, sts) ==
  LET mark(recs) == [n \in DOMAIN recs |-> [m |-> recs[n].m, s |-> recs[n].s,
                                            st |-> recs[n].st, v |-> 2 ^ (n - 1)]]
  IN  {mark(recs) : recs \in BoundedSeq([m : ms, s : ss, st : sts], len)}

JobsOf(kinds, nm, ns, n, contents) ==
  [kind : kinds, nm : {nm}, ns : {[i \in 1 .. n |-> ns]}, inp : [1 .. n -> contents]]

None == {<<>>}
Ok   == {"ok"}
AnyState == {"ok", "deleted", "out"}

MCJobs == UNION {
  JobsOf({"merge", "join", "report"}, 1, 0, 2, Contents(3, Tuples(1, 1 .. 3), None, Ok)),
  JobsOf({"merge", "join"}, 1, 0, 2, Contents(2, Tuples(1, 1 .. 2), None, AnyState)),
  JobsOf({"merge", "join", "report"}, 1, 0, 3, Contents(2, Tuples(1, 1 .. 2), None, Ok)),
  JobsOf({"merge", "join", "report"}, 0, 0, 2, Contents(2, None, None, AnyState)),
  JobsOf({"report"}, 2, 0, 2, Contents(2, Tuples(2, 1 .. 2), None, Ok)),
  JobsOf({"report"}, 1, 2, 1, Contents(3, Tuples(1, 1 .. 2), Tuples(2, 1 .. 2), Ok)),
  JobsOf({"report"}, 1, 1, 2, Contents(2, Tuples(1, 1 .. 2), Tuples(1, 1 .. 2), Ok)),
  JobsOf({"report"}, 2, 1, 1, Contents(3, Tuples(2, 1 .. 2), Tuples(1, 1 .. 2), Ok))}
=============================================================================
