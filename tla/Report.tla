------------------------------- MODULE Report -------------------------------
(***************************************************************************)
(* A report (MergeReport/Report.cpp): the inputs go together as in a plain *)
(* merge, with headings and footings on every level.                       *)
(*                                                                         *)
(* Level 0 is the whole report, levels 1 to nm are the match fields, all   *)
(* inputs together; below them each input has a level for each of its sort *)
(* fields.  In sum[i] they stand one behind the other.  A printed block is *)
(* [b, i, d, keys, sums] with b = "head", "foot" or "line": the input it   *)
(* is for (0 for all), its level, the fields of that level that it can     *)
(* show, and what SUM has come to.  Pages, columns and headings of details *)
(* are left out.                                                           *)
(***************************************************************************)
EXTENDS InpD

VARIABLES
  prev,                 \* the match fields of the group before (OldMFlds)
  osf                   \* the sort fields of the group of the input (OldSFlds)

rVars == <<prev, osf>>

NS(i)     == job.ns[i]
Bottom(i) == job.nm + 1 + NS(i)

(* A block of level d of all inputs, and of level job.nm + l of input i.   *)
(* Rows: the records that formulas see.                                    *)
Block(b, d, rows, sm) ==
  [b |-> b, i |-> 0, d |-> d,
   keys |-> [i \in Inputs |-> SubSeq(rows[i].m, 1, d)],
   sums |-> IF b = "foot" THEN [i \in Inputs |-> sm[i][d + 1]] ELSE <<>>]
SortBlock(b, i, d) ==
  [b |-> b, i |-> i, d |-> d,
   keys |-> rec[i].m \o SubSeq(job.inp[i][rec[i].n].s, 1, d - job.nm),
   sums |-> IF b = "foot" THEN <<sum[i][d + 1]>> ELSE <<>>]
Line(i) == [b |-> "line", i |-> i, d |-> count[i], keys |-> rec[i], sums |-> <<>>]

Headings(d, e, rows) == [j \in 1 .. e - d + 1 |-> Block("head", d + j - 1, rows, sum)]
Footings(e, d)       == [j \in 1 .. e - d + 1 |-> Block("foot", e - j + 1, rec, sum)]
SortHeadings(i, d)   ==
  [j \in 1 .. Bottom(i) - d |-> SortBlock("head", i, d + j - 1)]
SortFootings(i, d)   ==
  [j \in 1 .. Bottom(i) - d |-> SortBlock("foot", i, Bottom(i) - j)]

(* Mutant: only the sums of the level itself.                              *)
ZeroOneLevel(d, e, sm, is) ==
  [i \in Inputs |-> [l \in DOMAIN sm[i] |-> IF i \in is /\ l = d + 1 THEN 0 ELSE sm[i][l]]]

(* ZeroSumFlds: the sums of level d and of those below it.                 *)
ZeroSumFlds(d, e, sm, is) ==
  [i \in Inputs |-> [l \in DOMAIN sm[i] |-> IF i \in is /\ l \in d + 1 .. e + 1 THEN 0 ELSE sm[i][l]]]
-----------------------------------------------------------------------------
(* MoveFrstRecs, with the match fields of the smallest input for those     *)
(* without a record (PutMFlds).                                            *)
MoveFrstRecs(sc, there, k) ==
  /\ rec' = [i \in Inputs |-> IF i \in there THEN [n |-> sc[i].irec, m |-> Forw(sc, i).m]
                                             ELSE [n |-> 0, m |-> k]]
  /\ count' = [i \in Inputs |-> IF i \in there THEN 1 ELSE 0]

(* GetMinKey.                                                              *)
GetMinKey(sc) ==
  IF Open(sc) = {} THEN exist' = {} /\ key' = key
                   ELSE exist' = Existing(sc) /\ key' = MinKey(sc)

(* The level of the first match field that is not as in the group before.  *)
GetDifLevel ==
  CHOOSE d \in 1 .. job.nm : key'[d] # prev'[d] /\ \A h \in 1 .. d - 1 : key'[h] = prev'[h]

ReportBegins ==
  /\ pc = "open" /\ job.kind = "report"
  /\ scan' = FirstRecs
  /\ GetMinKey(scan')
  /\ MoveFrstRecs(scan', exist', key')
  /\ sum' = [i \in Inputs |-> [l \in 1 .. Bottom(i) |-> 0]]
  /\ out' = <<Block("head", 0, rec', sum')>>
  /\ pc' = IF exist' = {} THEN "last" ELSE "heads"
  /\ at' = 1
  /\ UNCHANGED <<job, group, prev, osf>>

(* The headings of a group from the level at on.                           *)
GroupHeads ==
  /\ pc = "heads"
  /\ out' = out \o Headings(at, job.nm, rec)
  /\ pc' = "input" /\ at' = 1
  /\ UNCHANGED <<job, scan, rec, exist, count, key, group, sum, prev, osf>>

(* MergeProc: an input begins, with the headings of all its levels.        *)
BeginSort(i, d) ==
  /\ sum' = ZeroSumFlds(d, Bottom(i) - 1, sum, {i})
  /\ osf' = Forw(scan, i).s
  /\ out' = out \o SortHeadings(i, d)

InputBegins ==
  /\ pc = "input" /\ at \in exist
  /\ BeginSort(at, job.nm + 1)
  /\ pc' = "line"
  /\ UNCHANGED <<job, at, scan, rec, exist, count, key, group, prev>>

InputSkipped ==
  /\ pc = "input" /\ at \in Inputs \ exist
  /\ at' = at + 1
  /\ UNCHANGED <<job, pc, scan, rec, exist, count, key, group, sum, out, prev, osf>>

(* A record is printed and summed up on all levels, and the next one read. *)
PrintLine ==
  /\ pc = "line"
  /\ out' = Append(out, Line(at))
  /\ sum' = [sum EXCEPT ![at] = [l \in DOMAIN @ |-> @[l] + Forw(scan, at).v]]
  /\ scan' = ReadInpFile(at)
  /\ pc' = IF Behind(scan', at) /\ MaxIi > 1 THEN "refused" ELSE "next"
  /\ UNCHANGED <<job, at, rec, exist, count, key, group, prev, osf>>

(* The record read belongs to another group, to the same one on all levels *)
(* of the input, or to another one on the level of its first new field.    *)
InputEnds ==
  /\ pc = "next" /\ ~Stays(scan, at)
  /\ out' = out \o SortFootings(at, job.nm + 1)
  /\ pc' = "input" /\ at' = at + 1
  /\ UNCHANGED <<job, scan, rec, exist, count, key, group, sum, prev, osf>>

SameSort ==
  /\ pc = "next" /\ Stays(scan, at) /\ Forw(scan, at).s = osf
  /\ MoveForwToRec(scan, at)
  /\ pc' = "line"
  /\ UNCHANGED <<job, at, scan, exist, key, group, sum, out, prev, osf>>

SortLevel(i) ==
  CHOOSE l \in 1 .. NS(i) :
    Forw(scan, i).s[l] # osf[l] /\ \A h \in 1 .. l - 1 : Forw(scan, i).s[h] = osf[h]

(* After its footings the group gives way to the next one, whose headings  *)
(* show the record that was read.                                          *)
SortChanges ==
  /\ pc = "next" /\ Stays(scan, at) /\ Forw(scan, at).s # osf
  /\ out' = out \o SortFootings(at, job.nm + SortLevel(at))
  /\ MoveForwToRec(scan, at)
  /\ pc' = "sort"
  /\ UNCHANGED <<job, at, scan, exist, key, group, sum, prev, osf>>

SortBegins ==
  /\ pc = "sort"
  /\ BeginSort(at, job.nm + SortLevel(at))
  /\ pc' = "line"
  /\ UNCHANGED <<job, at, scan, rec, exist, count, key, group, prev>>
-----------------------------------------------------------------------------
(* All inputs are done with the group: footings up to the level that       *)
(* changes, then the next group from that level on, or the end.            *)
GroupEnds ==
  /\ pc = "input" /\ at > MaxIi
  /\ prev' = key
  /\ GetMinKey(scan)
  /\ IF exist' = {}
     THEN /\ out' = out \o Footings(job.nm, 1)
          /\ pc' = "last"
          /\ UNCHANGED <<at, rec, count, sum, group>>
     ELSE /\ out' = out \o Footings(job.nm, GetDifLevel)
          /\ sum' = ZeroSumFlds(GetDifLevel, job.nm, sum, Inputs)
          /\ MoveFrstRecs(scan, exist', key')
          /\ group' = group + 1
          /\ at' = GetDifLevel
          /\ pc' = "heads"
  /\ UNCHANGED <<job, scan, osf>>

ReportEnds ==
  /\ pc = "last"
  /\ out' = Append(out, Block("foot", 0, rec, sum))
  /\ pc' = "done"
  /\ UNCHANGED <<job, at, scan, rec, exist, count, key, group, sum, prev, osf>>

ReportInit == prev = <<>> /\ osf = <<>>
ReportNext ==
  \/ ReportBegins \/ GroupHeads \/ InputBegins \/ InputSkipped \/ PrintLine
  \/ InputEnds \/ SameSort \/ SortChanges \/ SortBegins \/ GroupEnds \/ ReportEnds
=============================================================================
