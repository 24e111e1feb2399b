-------------------------------- MODULE Merge --------------------------------
(***************************************************************************)
(* A merge (MergeReport/Merge.cpp): the inputs go together group by group  *)
(* of equal match fields.  A plain merge takes the records one input after *)
(* the other, each with the outputs O1 to O9 of its input; a join, O*,     *)
(* takes every combination of the records of a group and leaves groups out *)
(* that an input lacks.  O_ is written at the end of every group.          *)
(*                                                                         *)
(* One step deals with one record.  What is written is [o, group, recs,    *)
(* count, sum]: the output, the records that its formulas see (of I1 up to *)
(* its own input, all for O_), and the numbers behind COUNT and SUM.  What *)
(* the formulas make of them, and the files they go to, are left out.      *)
(***************************************************************************)
EXTENDS InpD

VARIABLES
  start,                \* start[i]: the number of the first record of the group (InpD::IRec)
  empty                 \* an input has no record in this group (EmptyGroup)

mVars == <<start, empty>>

IsMerge == job.kind \in {"merge", "join"}

OutO(i, rc, ct) ==
  [o |-> i, group |-> group, recs |-> SubSeq(rc, 1, i), count |-> SubSeq(ct, 1, i), sum |-> <<>>]
OutAll(sm) ==
  [o |-> 0, group |-> group, recs |-> rec, count |-> count, sum |-> sm]

(* The first record of each input.                                         *)
MergeBegins ==
  /\ pc = "open" /\ IsMerge
  /\ scan' = FirstRecs
  /\ pc' = "group"
  /\ UNCHANGED <<job, at, rec, exist, count, key, group, sum, out, start, empty>>

(* The head of the loop: which group comes next.  Without match fields     *)
(* there is one group, and the counts stay.                                *)
NextGroup ==
  /\ pc = "group" /\ Open(scan) # {}
  /\ key' = MinKey(scan) /\ exist' = Existing(scan)
  /\ start' = [i \in Inputs |-> scan[i].irec]
  /\ count' = IF job.nm = 0 THEN count ELSE [i \in Inputs |-> 0]
  /\ sum' = [i \in Inputs |-> <<0>>]
  /\ empty' = FALSE
  /\ at' = 1
  /\ pc' = IF job.kind = "join" THEN "down" ELSE "merge"
  /\ UNCHANGED <<job, scan, rec, group, out>>

MergeEnds ==
  /\ pc = "group" /\ Open(scan) = {}
  /\ pc' = "done"
  /\ UNCHANGED <<job, at, scan, rec, exist, count, key, group, sum, out, start, empty>>

SumUp(sm, i, n) == [sm EXCEPT ![i][1] = @ + job.inp[i][n].v]

(* The record of an input without one in this group: empty but for the     *)
(* match fields.                                                           *)
ResetRec ==
  rec' = [rec EXCEPT ![at] = [n |-> 0, m |-> key]]

WriteGroup(sm) ==
  /\ out' = Append(out, OutAll(sm))
  /\ group' = group + 1
-----------------------------------------------------------------------------
(* MergeProc, one record of input at.                                      *)
MergeRec ==
  /\ pc = "merge" /\ at \in exist
  /\ MoveForwToRec(scan, at)
  /\ sum' = SumUp(sum, at, scan[at].irec)
  /\ out' = Append(out, OutO(at, rec', count'))
  /\ scan' = ReadInpFile(at)
  /\ \/ Passed(scan', at) /\ at' = at + 1 /\ pc' = pc
     \/ Stays(scan', at)  /\ at' = at     /\ pc' = pc
     \/ Behind(scan', at) /\ at' = at     /\ pc' = "refused"
  /\ UNCHANGED <<job, exist, key, group, start, empty>>

MergeNone ==
  /\ pc = "merge" /\ at \in Inputs \ exist
  /\ ResetRec
  /\ at' = at + 1
  /\ UNCHANGED <<job, pc, scan, exist, count, key, group, sum, out, start, empty>>

MergeGroupEnds ==
  /\ pc = "merge" /\ at > MaxIi
  /\ WriteGroup(sum)
  /\ pc' = "group"
  /\ UNCHANGED <<job, at, scan, rec, exist, count, key, sum, start, empty>>
-----------------------------------------------------------------------------
(* JoinProc calls itself for the next input; "down" is a call for input    *)
(* at, "up" the return to the call for it.                                 *)
SeekRec(i, n) == [scan EXCEPT ![i] = [irec |-> n, eof |-> n >= Len(job.inp[i])]]
FirstOfGroup(i) ==
  LET sought == SeekRec(i, start[i] - 1)
  IN  [sought EXCEPT ![i] = NextFrom(i, sought[i].irec)]

JoinFirst ==
  /\ pc = "down" /\ at \in exist
  /\ scan' = FirstOfGroup(at)
  /\ rec' = [rec EXCEPT ![at] = [n |-> scan'[at].irec, m |-> Forw(scan', at).m]]
  /\ count' = [count EXCEPT ![at] = 1]
  /\ at' = at + 1
  /\ UNCHANGED <<job, pc, exist, key, group, sum, out, start, empty>>

JoinNone ==
  /\ pc = "down" /\ at \in Inputs \ exist
  /\ ResetRec
  /\ empty' = TRUE
  /\ at' = at + 1
  /\ UNCHANGED <<job, pc, scan, exist, count, key, group, sum, out, start>>

JoinWrite ==
  /\ pc = "down" /\ at > MaxIi
  /\ IF empty
     THEN UNCHANGED <<sum, out>>
     ELSE /\ sum' = [i \in Inputs |-> SumUp(sum, i, rec[i].n)[i]]
          /\ out' = Append(out, OutO(MaxIi, rec, count))
  /\ at' = MaxIi /\ pc' = "up"
  /\ UNCHANGED <<job, scan, rec, exist, count, key, group, start, empty>>

JoinNext ==
  /\ pc = "up" /\ at \in exist
  /\ scan' = ReadInpFile(at)
  /\ \/ /\ Stays(scan', at)
        /\ MoveForwToRec(scan', at)
        /\ at' = at + 1 /\ pc' = "down"
     \/ /\ Passed(scan', at)
        /\ at' = at - 1 /\ UNCHANGED <<pc, rec, count>>
     \/ /\ Behind(scan', at)
        /\ pc' = "refused" /\ UNCHANGED <<at, rec, count>>
  /\ UNCHANGED <<job, exist, key, group, sum, out, start, empty>>

JoinBack ==
  /\ pc = "up" /\ at \in Inputs \ exist
  /\ at' = at - 1
  /\ UNCHANGED <<job, pc, scan, rec, exist, count, key, group, sum, out, start, empty>>

JoinGroupEnds ==
  /\ pc = "up" /\ at = 0
  /\ IF empty THEN UNCHANGED <<out, group>> ELSE WriteGroup(sum)
  /\ pc' = "group"
  /\ UNCHANGED <<job, at, scan, rec, exist, count, key, sum, start, empty>>

MergeInit == start = [i \in Inputs |-> 0] /\ empty = FALSE
MergeNext ==
  \/ MergeBegins \/ NextGroup \/ MergeEnds
  \/ MergeRec \/ MergeNone \/ MergeGroupEnds
  \/ JoinFirst \/ JoinNone \/ JoinWrite \/ JoinNext \/ JoinBack \/ JoinGroupEnds
=============================================================================
