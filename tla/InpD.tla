-------------------------------- MODULE InpD --------------------------------
(***************************************************************************)
(* The inputs of merges and reports (MergeReport/InpD.h and the code that  *)
(* Merge.cpp and Report.cpp share).  An input is read one record ahead:    *)
(* the scan stands on a record that is not dealt with (ForwRecPtr), while  *)
(* formulas see the one before (RecPtr).                                   *)
(*                                                                         *)
(* A record is [m, s, v, st]: its match fields, its sort fields, a number  *)
(* to be summed up, and "ok", "deleted" or "out" for one that the          *)
(* condition of the input drops.  An input is the sequence of its records  *)
(* in the order of the scan: by number, key or sort (module XIndex).  The  *)
(* inputs stay as they are: every one is under Rd until the end.           *)
(***************************************************************************)
EXTENDS Integers, Sequences, SequencesExt, FiniteSets, FiniteSetsExt

CONSTANT Jobs           \* [kind, nm, ns, inp]: "merge", "join" (O*) or "report"; the number of
                        \* match fields; of sort fields per input; the inputs

ASSUME JobsAssumption ==
  \A j \in Jobs :
    /\ j.kind \in {"merge", "join", "report"} /\ j.nm \in Nat
    /\ j.inp \in Seq(Seq([m : [1 .. j.nm -> Nat], s : Seq(Nat), v : Nat,
                          st : {"ok", "deleted", "out"}]))
    /\ Len(j.inp) \in 1 .. 9 /\ j.ns \in [DOMAIN j.inp -> Nat]
    /\ \A i \in DOMAIN j.inp : \A n \in DOMAIN j.inp[i] : Len(j.inp[i][n].s) = j.ns[i]

VARIABLES
  job,                  \* never changed
  pc, at,               \* what comes next, and for which input (Ii)
  scan,                 \* scan[i] = [irec, eof]: record irec is read ahead
  rec,                  \* rec[i] = [n, m]: the number of the record formulas see, 0 for one
                        \* that was reset, and its match fields
  exist,                \* the inputs with records in this group
  count,                \* their records so far (COUNT)
  key,                  \* the match fields of the group (OldMXStr, NewMFlds)
  group,                \* its number (GROUP)
  sum,                  \* sum[i]: what is summed up, one sum per level
  out                   \* what was written

inVars == <<job, pc, at, scan, rec, exist, count, key, group, sum, out>>

Inputs == DOMAIN job.inp
MaxIi  == Len(job.inp)
NoRec  == [n |-> 0, m |-> <<>>]

(* The order of packed keys.                                               *)
Less(a, b) == \E j \in DOMAIN a : a[j] < b[j] /\ \A h \in 1 .. j - 1 : a[h] = b[h]

(* GetRec passes deleted records, ReadInpFile those that are not wanted.   *)
NextFrom(i, irec) ==
  LET recs  == job.inp[i]
      later == {n \in irec + 1 .. Len(recs) : recs[n].st = "ok"}
  IN  IF later = {} THEN [irec |-> Len(recs), eof |-> TRUE]
                    ELSE [irec |-> Min(later), eof |-> FALSE]
ReadInpFile(i) == [scan EXCEPT ![i] = NextFrom(i, scan[i].irec)]
FirstRecs      == [i \in Inputs |-> NextFrom(i, 0)]

(* In the scans sc: the record read ahead and the inputs that have one.    *)
Forw(sc, i) == job.inp[i][sc[i].irec]
Open(sc)    == {i \in Inputs : ~sc[i].eof}

(* Mutant: an input stays in the group when a later one shows smaller      *)
(* match fields.                                                           *)
ExistingUncleared(sc) ==
  {i \in Open(sc) : \A j \in Open(sc) : j < i => ~Less(Forw(sc, j).m, Forw(sc, i).m)}

(* The smallest match fields, and the inputs that show them.               *)
MinKey(sc)   ==
  CHOOSE k \in {Forw(sc, i).m : i \in Open(sc)} : \A i \in Open(sc) : ~Less(Forw(sc, i).m, k)
Existing(sc) == {i \in Open(sc) : Forw(sc, i).m = MinKey(sc)}

(* The record read ahead becomes the one that formulas see.                *)
MoveForwToRec(sc, i) ==
  /\ rec' = [rec EXCEPT ![i] = [n |-> sc[i].irec, m |-> Forw(sc, i).m]]
  /\ count' = [count EXCEPT ![i] = @ + 1]

(* Mutant: an earlier group is taken for a later one.                      *)
PassedOrBehind(sc, i) == sc[i].eof \/ Forw(sc, i).m # key

(* The next record belongs to a later group, or there is none; it belongs  *)
(* to an earlier one: the input is not in order.                           *)
Passed(sc, i) == sc[i].eof \/ Less(key, Forw(sc, i).m)
Behind(sc, i) == ~sc[i].eof /\ Less(Forw(sc, i).m, key)
Stays(sc, i)  == ~sc[i].eof /\ Forw(sc, i).m = key

Init ==
  /\ job \in Jobs
  /\ pc = "open" /\ at = 0
  /\ scan = [i \in Inputs |-> [irec |-> 0, eof |-> FALSE]]
  /\ rec = [i \in Inputs |-> NoRec]
  /\ exist = {} /\ key = <<>> /\ group = 1 /\ out = <<>>
  /\ count = [i \in Inputs |-> 0]
  /\ sum = [i \in Inputs |-> <<>>]
=============================================================================
