-------------------------- MODULE MergeReportProofs --------------------------
(***************************************************************************)
(* Proofs about merges, joins and reports (module MergeReport), for any    *)
(* jobs: any number of records and match fields, up to nine inputs.        *)
(*                                                                         *)
(* First the order: OrderInv says where the scans stand, that what was     *)
(* read so far was in order, and that the inputs of the group stand in it  *)
(* until they have passed it.  From it follows UnsortedInputsRefused.      *)
(*                                                                         *)
(* Then what is written, for jobs whose inputs are in order (OrderInv      *)
(* excludes the others at the end): MergedInv and JoinedInv say that what  *)
(* was written so far is what the records dealt with so far call for, in   *)
(* order and with the right sums.  At the end all records are dealt with:  *)
(* MergesFollowInputs.                                                     *)
(***************************************************************************)
EXTENDS MergeReport, FiniteSetTheorems, WellFoundedInduction, TLAPS

(* A set of numbers that is not empty has a smallest one.                  *)
LEMMA SmallestNat ==
  ASSUME NEW T, T \subseteq Nat, T # {}
  PROVE  \E x \in T : \A y \in T : x <= y
<1>. DEFINE R == OpToRel(<, Nat)
<1>1. PICK x \in T : \A y \in T : ~ (<<y, x>> \in R)
  <2>1. IsWellFoundedOn(R, Nat)
    BY NatLessThanWellFounded
  <2>. HIDE DEF R
  <2>. QED  BY <2>1, WFMin
<1>2. \A y \in T : ~(y < x)
  BY <1>1 DEF OpToRel
<1>. HIDE DEF R
<1>. QED  BY <1>2

(* A set of numbers with 0 and with every successor has all of them.       *)
LEMMA NatSet ==
  ASSUME NEW S, 0 \in S, \A n \in Nat : n \in S => n + 1 \in S
  PROVE  \A n \in Nat : n \in S
<1>. DEFINE T == {n \in Nat : n \notin S}
<1>. SUFFICES ASSUME T # {} PROVE FALSE
  OBVIOUS
<1>1. PICK x \in T : \A y \in T : x <= y
  <2>1. T \subseteq Nat
    OBVIOUS
  <2>. HIDE DEF T
  <2>. QED  BY <2>1, SmallestNat
<1>2. x \in Nat /\ x # 0 /\ x - 1 \in Nat /\ x - 1 \notin T
  BY <1>1
<1>3. x - 1 \in S
  BY <1>2
<1>. QED  BY <1>1, <1>2, <1>3

(***************************************************************************)
(* The order of packed keys.                                               *)
(***************************************************************************)

Tuple(d) == [1 .. d -> Nat]

(* Less is a total order on tuples of the same length.                     *)
LEMMA LessIrreflexive ==
  ASSUME NEW d \in Nat, NEW a \in Tuple(d)
  PROVE  ~Less(a, a)
BY DEF Less, Tuple

LEMMA LessTransitive ==
  ASSUME NEW d \in Nat, NEW a \in Tuple(d), NEW b \in Tuple(d), NEW c \in Tuple(d),
         Less(a, b), Less(b, c)
  PROVE  Less(a, c)
<1>1. PICK j \in 1 .. d : a[j] < b[j] /\ \A h \in 1 .. j - 1 : a[h] = b[h]
  BY DEF Less, Tuple
<1>2. PICK l \in 1 .. d : b[l] < c[l] /\ \A h \in 1 .. l - 1 : b[h] = c[h]
  BY DEF Less, Tuple
<1>3. CASE j <= l
  <2>1. a[j] < c[j]
    <3>1. CASE j = l
      BY <1>1, <1>2, <3>1 DEF Tuple
    <3>2. CASE j # l
      BY <1>1, <1>2, <1>3, <3>2 DEF Tuple
    <3>. QED  BY <3>1, <3>2
  <2>2. \A h \in 1 .. j - 1 : a[h] = c[h]
    BY <1>1, <1>2, <1>3
  <2>. QED  BY <2>1, <2>2 DEF Less, Tuple
<1>4. CASE ~(j <= l)
  <2>1. a[l] < c[l]
    BY <1>1, <1>2, <1>4 DEF Tuple
  <2>2. \A h \in 1 .. l - 1 : a[h] = c[h]
    BY <1>1, <1>2, <1>4
  <2>. QED  BY <2>1, <2>2 DEF Less, Tuple
<1>. QED  BY <1>3, <1>4

LEMMA LessTotal ==
  ASSUME NEW d \in Nat, NEW a \in Tuple(d), NEW b \in Tuple(d)
  PROVE  a = b \/ Less(a, b) \/ Less(b, a)
<1>. DEFINE D == {h \in 1 .. d : a[h] # b[h]}
<1>1. CASE D = {}
  <2>1. \A h \in 1 .. d : a[h] = b[h]
    BY <1>1
  <2>. QED  BY <2>1 DEF Tuple
<1>2. CASE D # {}
  <2>1. PICK j \in D : \A y \in D : j <= y
    <3>1. D \subseteq Nat
      OBVIOUS
    <3>. HIDE DEF D
    <3>. QED  BY <1>2, <3>1, SmallestNat
  <2>2. j \in 1 .. d /\ a[j] # b[j] /\ \A h \in 1 .. j - 1 : a[h] = b[h]
    BY <2>1
  <2>3. a[j] < b[j] \/ b[j] < a[j]
    BY <2>2 DEF Tuple
  <2>. QED  BY <2>2, <2>3 DEF Less, Tuple
<1>. QED  BY <1>1, <1>2

LEMMA LessAsymmetric ==
  ASSUME NEW d \in Nat, NEW a \in Tuple(d), NEW b \in Tuple(d), Less(a, b)
  PROVE  ~Less(b, a) /\ a # b
BY LessTransitive, LessIrreflexive

(* The order in one formula.                                               *)
LEMMA LessOrder ==
  ASSUME NEW d \in Nat
  PROVE  /\ \A a \in Tuple(d) : ~Less(a, a)
         /\ \A a, b, c \in Tuple(d) : Less(a, b) /\ Less(b, c) => Less(a, c)
         /\ \A a, b \in Tuple(d) : a = b \/ Less(a, b) \/ Less(b, a)
         /\ \A a, b \in Tuple(d) : Less(a, b) => ~Less(b, a)
BY LessIrreflexive, LessTransitive, LessTotal, LessAsymmetric

(***************************************************************************)
(* Sums.                                                                   *)
(***************************************************************************)

ValueAt(f, q) == IF q \in DOMAIN f THEN f[q] ELSE 0

(* The sum of the first numbers exists: its recursive equation has a       *)
(* solution.                                                               *)
LEMMA SumExists ==
  ASSUME NEW f, \A q \in DOMAIN f : f[q] \in Nat
  PROVE  \E t \in [Nat -> Nat] : t = [q \in Nat |-> IF q = 0 THEN 0 ELSE t[q - 1] + ValueAt(f, q)]
<1>. DEFINE Upto(n, h) == /\ h \in [0 .. n -> Nat] /\ h[0] = 0
                          /\ \A q \in 1 .. n : h[q] = h[q - 1] + ValueAt(f, q)
            S == {n \in Nat : \E h : Upto(n, h)}
<1>0. \A q : ValueAt(f, q) \in Nat
  BY DEF ValueAt
<1>1. 0 \in S
  <2>1. Upto(0, [q \in 0 .. 0 |-> 0])
    OBVIOUS
  <2>. QED  BY <2>1
<1>2. \A n \in Nat : n \in S => n + 1 \in S
  <2>1. ASSUME NEW n \in Nat, NEW h, Upto(n, h) PROVE \E g : Upto(n + 1, g)
    <3>. DEFINE g == [q \in 0 .. n + 1 |-> IF q = n + 1 THEN h[n] + ValueAt(f, n + 1) ELSE h[q]]
    <3>1. g \in [0 .. n + 1 -> Nat] /\ g[0] = 0
      BY <1>0, <2>1
    <3>2. ASSUME NEW q \in 1 .. n + 1 PROVE g[q] = g[q - 1] + ValueAt(f, q)
      <4>1. CASE q = n + 1
        BY <4>1
      <4>2. CASE q # n + 1
        <5>1. q \in 1 .. n /\ g[q] = h[q] /\ g[q - 1] = h[q - 1]
          BY <4>2
        <5>. QED  BY <2>1, <5>1
      <4>. QED  BY <4>1, <4>2
    <3>. QED  BY <3>1, <3>2
  <2>. HIDE DEF Upto
  <2>. QED  BY <2>1
<1>3. \A n \in Nat : \E h : Upto(n, h)
  <2>. HIDE DEF Upto
  <2>1. \A n \in Nat : n \in S
    <3>. HIDE DEF S
    <3>. QED  BY <1>1, <1>2, NatSet
  <2>. QED  BY <2>1
<1>. DEFINE H(n) == CHOOSE h : Upto(n, h)
            t == [q \in Nat |-> H(q)[q]]
<1>4. \A n \in Nat : Upto(n, H(n))
  <2>. HIDE DEF Upto
  <2>. QED  BY <1>3
<1>. HIDE DEF H
<1>5. \A n, q \in Nat : q <= n => H(n)[q] = H(q)[q]
  <2>. SUFFICES ASSUME NEW n \in Nat PROVE \A q \in Nat : q <= n => H(n)[q] = H(q)[q]
    OBVIOUS
  <2>. DEFINE E == {q \in Nat : \A m \in Nat : q <= m => H(m)[q] = H(q)[q]}
  <2>1. 0 \in E
    BY <1>4
  <2>2. \A q \in Nat : q \in E => q + 1 \in E
    <3>. SUFFICES ASSUME NEW q \in Nat, q \in E, NEW m \in Nat, q + 1 <= m
                  PROVE  H(m)[q + 1] = H(q + 1)[q + 1]
      OBVIOUS
    <3>1. H(m)[q] = H(q)[q] /\ H(q + 1)[q] = H(q)[q]
      BY q <= m, q <= q + 1, q + 1 \in Nat
    <3>2. H(m)[q + 1] = H(m)[q] + ValueAt(f, q + 1)
      <4>1. Upto(m, H(m)) /\ q + 1 \in 1 .. m /\ (q + 1) - 1 = q
        BY <1>4
      <4>. QED  BY <4>1
    <3>3. H(q + 1)[q + 1] = H(q + 1)[q] + ValueAt(f, q + 1)
      <4>1. Upto(q + 1, H(q + 1)) /\ q + 1 \in 1 .. q + 1 /\ (q + 1) - 1 = q
        BY <1>4
      <4>. QED  BY <4>1
    <3>. QED  BY <3>1, <3>2, <3>3
  <2>3. \A q \in Nat : q \in E
    <3>. HIDE DEF E
    <3>. QED  BY <2>1, <2>2, NatSet
  <2>. QED  BY <2>3
<1>6. t \in [Nat -> Nat] /\ t[0] = 0
  BY <1>4
<1>7. \A q \in Nat : q # 0 => t[q] = t[q - 1] + ValueAt(f, q)
  <2>. SUFFICES ASSUME NEW q \in Nat, q # 0 PROVE t[q] = t[q - 1] + ValueAt(f, q)
    OBVIOUS
  <2>1. H(q)[q] = H(q)[q - 1] + ValueAt(f, q)
    BY <1>4
  <2>2. H(q)[q - 1] = H(q - 1)[q - 1]
    BY <1>5
  <2>. QED  BY <2>1, <2>2
<1>. HIDE DEF t
<1>8. t = [q \in Nat |-> IF q = 0 THEN 0 ELSE t[q - 1] + ValueAt(f, q)]
  BY <1>6, <1>7
<1>. QED  BY <1>6, <1>8

(* The sum of none is 0, that of one more is one number more.              *)
LEMMA SumSteps ==
  ASSUME NEW f, \A q \in DOMAIN f : f[q] \in Nat
  PROVE  /\ SumTo(f, 0) = 0
         /\ \A p \in Nat : SumTo(f, p) \in Nat /\ SumTo(f, p + 1) = SumTo(f, p) + ValueAt(f, p + 1)
<1>. DEFINE s == CHOOSE t : t = [q \in Nat |-> IF q = 0 THEN 0 ELSE t[q - 1] + ValueAt(f, q)]
<1>1. s = [q \in Nat |-> IF q = 0 THEN 0 ELSE s[q - 1] + ValueAt(f, q)]
  BY SumExists
<1>2. \A p \in Nat : SumTo(f, p) = s[p]
  BY DEF SumTo, ValueAt
<1>. HIDE DEF s
<1>3. s[0] = 0 /\ \A p \in Nat : s[p + 1] = s[p] + ValueAt(f, p + 1)
  <2>1. s[0] = 0
    BY <1>1
  <2>2. \A p \in Nat : s[p + 1] = s[p] + ValueAt(f, p + 1)
    <3>. TAKE p \in Nat
    <3>1. p + 1 \in Nat /\ p + 1 # 0 /\ (p + 1) - 1 = p
      OBVIOUS
    <3>. QED  BY <1>1, <3>1
  <2>. QED  BY <2>1, <2>2
<1>4. \A p \in Nat : s[p] \in Nat
  <2>. DEFINE N == {p \in Nat : s[p] \in Nat}
  <2>1. 0 \in N /\ \A p \in Nat : p \in N => p + 1 \in N
    BY <1>3 DEF ValueAt
  <2>2. \A p \in Nat : p \in N
    <3>. HIDE DEF N
    <3>. QED  BY <2>1, NatSet
  <2>. QED  BY <2>2
<1>. QED  BY <1>2, <1>3, <1>4

(* The sum depends on the numbers summed up only.                          *)
LEMMA SumAgree ==
  ASSUME NEW f, NEW g, \A q \in DOMAIN f : f[q] \in Nat, \A q \in DOMAIN g : g[q] \in Nat,
         NEW p \in Nat, \A q \in 1 .. p : ValueAt(f, q) = ValueAt(g, q)
  PROVE  SumTo(f, p) = SumTo(g, p)
<1>. DEFINE N == {n \in Nat : n <= p => SumTo(f, n) = SumTo(g, n)}
<1>1. 0 \in N
  BY SumSteps
<1>2. \A n \in Nat : n \in N => n + 1 \in N
  <2>. SUFFICES ASSUME NEW n \in Nat, n \in N, n + 1 <= p
                PROVE  SumTo(f, n + 1) = SumTo(g, n + 1)
    OBVIOUS
  <2>1. SumTo(f, n) = SumTo(g, n) /\ ValueAt(f, n + 1) = ValueAt(g, n + 1)
    OBVIOUS
  <2>2. /\ SumTo(f, n + 1) = SumTo(f, n) + ValueAt(f, n + 1)
        /\ SumTo(g, n + 1) = SumTo(g, n) + ValueAt(g, n + 1)
    BY SumSteps
  <2>. QED  BY <2>1, <2>2
<1>3. \A n \in Nat : n \in N
  <2>. HIDE DEF N
  <2>. QED  BY <1>1, <1>2, NatSet
<1>. QED  BY <1>3

(***************************************************************************)
(* Order: the invariant.                                                   *)
(***************************************************************************)

NRecs(i) == Len(job.inp[i])

(* A report on one input need not be in order.                             *)
Single == job.kind = "report" /\ MaxIi = 1

MergePcs  == {"group", "merge", "down", "up"}
ReportPcs == {"heads", "input", "line", "next", "sort", "last"}

Shape ==
  /\ job \in Jobs
  /\ pc \in {"open", "done", "refused"} \cup MergePcs \cup ReportPcs
  /\ pc \in MergePcs => IsMerge
  /\ pc \in ReportPcs => job.kind = "report"
  /\ pc # "heads" => at \in Nat
  /\ scan \in [Inputs -> [irec : Nat, eof : BOOLEAN]]
  /\ start \in [Inputs -> Nat]
  /\ exist \subseteq Inputs

(* A scan stands on a record that counts, or behind the last record.       *)
ScanOK ==
  pc # "open" => \A i \in Inputs :
    IF scan[i].eof THEN scan[i].irec = NRecs(i) ELSE scan[i].irec \in Wanted(i)

(* What was read so far was in order.                                      *)
SeenInOrder ==
  pc \notin {"open", "refused"} /\ ~Single =>
    \A i \in Inputs : \A g, h \in Wanted(i) :
      g < h /\ h <= scan[i].irec => ~Less(Of(i, h).m, Of(i, g).m)

(* The inputs of the group whose scans still stand in the group.           *)
InTheGroup(i) ==
  \/ pc = "heads"
  \/ pc \in {"merge", "input", "line", "sort"} /\ i >= at
  \/ pc = "next" /\ i > at
  \/ pc = "down" /\ i < at
  \/ pc = "up" /\ i <= at
Standing ==
  /\ \A i \in exist : InTheGroup(i) => Stays(scan, i)
  /\ pc \in {"line", "next", "sort"} => at \in exist

(* A join remembers where its group begins in every input.                 *)
Started ==
  pc \in {"down", "up"} =>
    /\ \A i \in Inputs : start[i] <= scan[i].irec
    /\ \A i \in exist : start[i] \in Wanted(i) /\ Of(i, start[i]).m = key

KeyOK == pc \in {"merge", "down", "up", "heads", "input", "line", "next", "sort"} => key \in Tuple(job.nm)

(* How it comes to its end.                                                *)
Ends ==
  /\ pc \in {"last", "done"} => Open(scan) = {}
  /\ pc = "refused" => ~AllInOrder

OrderInv == Shape /\ ScanOK /\ SeenInOrder /\ Standing /\ Started /\ KeyOK /\ Ends

(***************************************************************************)
(* The inputs of a job.                                                    *)
(***************************************************************************)

(* What the assumption about jobs says of the job at hand.                 *)
LEMMA JobFacts ==
  ASSUME job \in Jobs
  PROVE  /\ job.kind \in {"merge", "join", "report"} /\ job.nm \in Nat
         /\ MaxIi \in 1 .. 9 /\ Inputs = 1 .. MaxIi
         /\ \A i \in Inputs : NRecs(i) \in Nat /\ DOMAIN job.inp[i] = 1 .. NRecs(i)
         /\ \A i \in Inputs : \A n \in 1 .. NRecs(i) : Of(i, n).m \in Tuple(job.nm) /\ Of(i, n).v \in Nat
<1>. DEFINE Rec == [m : [1 .. job.nm -> Nat], s : Seq(Nat), v : Nat, st : {"ok", "deleted", "out"}]
<1>1. /\ job.kind \in {"merge", "join", "report"} /\ job.nm \in Nat
      /\ job.inp \in Seq(Seq(Rec)) /\ Len(job.inp) \in 1 .. 9
  BY JobsAssumption
<1>2. Inputs = 1 .. MaxIi /\ MaxIi \in 1 .. 9
  <2>. HIDE DEF Rec
  <2>. QED  BY <1>1 DEF Inputs, MaxIi
<1>3. \A i \in Inputs : job.inp[i] \in Seq(Rec)
  <2>. HIDE DEF Rec
  <2>. QED  BY <1>1 DEF Inputs
<1>4. \A i \in Inputs : NRecs(i) \in Nat /\ DOMAIN job.inp[i] = 1 .. NRecs(i)
  <2>. HIDE DEF Rec
  <2>. QED  BY <1>3 DEF NRecs
<1>5. \A i \in Inputs : \A n \in 1 .. NRecs(i) : Of(i, n) \in Rec
  <2>. HIDE DEF Rec
  <2>. QED  BY <1>3, <1>4 DEF Of
<1>6. \A i \in Inputs : \A n \in 1 .. NRecs(i) : Of(i, n).m \in Tuple(job.nm) /\ Of(i, n).v \in Nat
  BY <1>5 DEF Tuple
<1>. QED  BY <1>1, <1>2, <1>4, <1>6

(* The records that count are numbers within the input.                    *)
LEMMA WantedFacts ==
  ASSUME job \in Jobs, NEW i \in Inputs
  PROVE  /\ Wanted(i) \subseteq 1 .. NRecs(i) /\ Wanted(i) \subseteq Nat
         /\ NRecs(i) \in Nat /\ job.nm \in Nat
         /\ \A n \in Wanted(i) : Of(i, n).m \in Tuple(job.nm) /\ Of(i, n).v \in Nat
BY JobFacts DEF Wanted

(* The smallest of a set of numbers.                                       *)
LEMMA MinFacts ==
  ASSUME NEW T, T \subseteq Nat, T # {}
  PROVE  Min(T) \in T /\ \A y \in T : Min(T) <= y
<1>1. \E x \in T : \A y \in T : x <= y
  BY SmallestNat
<1>. QED  BY <1>1 DEF Min

(* The scan of an input goes on to the next record that counts.            *)
LEMMA NextFromFacts ==
  ASSUME job \in Jobs, NEW i \in Inputs, NEW r \in Nat, r <= NRecs(i)
  PROVE  LET nf == NextFrom(i, r)
         IN  /\ nf \in [irec : Nat, eof : BOOLEAN]
             /\ r <= nf.irec
             /\ nf.eof => nf.irec = NRecs(i) /\ \A n \in Wanted(i) : n <= r
             /\ ~nf.eof => /\ nf.irec \in Wanted(i) /\ r < nf.irec
                           /\ \A n \in Wanted(i) : n <= r \/ nf.irec <= n
<1>. DEFINE later == {n \in r + 1 .. NRecs(i) : Of(i, n).st = "ok"}
<1>0. NRecs(i) \in Nat /\ Wanted(i) = {n \in 1 .. NRecs(i) : Of(i, n).st = "ok"}
  BY JobFacts DEF Wanted
<1>1. NextFrom(i, r) = IF later = {} THEN [irec |-> NRecs(i), eof |-> TRUE]
                                     ELSE [irec |-> Min(later), eof |-> FALSE]
  BY DEF NextFrom, NRecs, Of
<1>2. \A n \in Wanted(i) : n <= r \/ n \in later
  BY <1>0
<1>3. CASE later = {}
  BY <1>0, <1>1, <1>2, <1>3
<1>4. CASE later # {}
  <2>1. later \subseteq Nat
    BY <1>0
  <2>2. Min(later) \in later /\ \A y \in later : Min(later) <= y
    <3>. HIDE DEF later
    <3>. QED  BY <1>4, <2>1, MinFacts
  <2>3. Min(later) \in Wanted(i) /\ Min(later) \in Nat /\ r < Min(later)
    BY <1>0, <2>2
  <2>. HIDE DEF later
  <2>. QED  BY <1>1, <1>2, <1>4, <2>2, <2>3
<1>. QED  BY <1>3, <1>4

(***************************************************************************)
(* The group that comes next.                                              *)
(***************************************************************************)

(* Of the match fields that open inputs show there are smallest ones.      *)
LEMMA MinKeyFacts ==
  ASSUME job \in Jobs, NEW sc, Open(sc) # {},
         \A i \in Open(sc) : sc[i].irec \in Wanted(i)
  PROVE  /\ MinKey(sc) \in Tuple(job.nm)
         /\ \E i \in Open(sc) : Forw(sc, i).m = MinKey(sc)
         /\ \A i \in Open(sc) : Forw(sc, i).m = MinKey(sc) \/ Less(MinKey(sc), Forw(sc, i).m)
<1>. DEFINE m(i) == Forw(sc, i).m
            Best(n) == \E i \in Open(sc) : i <= n /\ \A j \in Open(sc) : j <= n => ~Less(m(j), m(i))
            S == {n \in Nat : (\A i \in Open(sc) : ~(i <= n)) \/ Best(n)}
<1>1. Open(sc) \subseteq 1 .. MaxIi /\ MaxIi \in 1 .. 9 /\ job.nm \in Nat
  BY JobFacts DEF Open
<1>2. \A i \in Open(sc) : m(i) \in Tuple(job.nm)
  <2>. TAKE i \in Open(sc)
  <2>1. i \in Inputs /\ Forw(sc, i) = Of(i, sc[i].irec)
    BY DEF Open, Forw, Of
  <2>. QED  BY <2>1, WantedFacts
<1>. HIDE DEF m
<1>3. 0 \in S
  BY <1>1
<1>4. \A n \in Nat : n \in S => n + 1 \in S
  <2>. SUFFICES ASSUME NEW n \in Nat, n \in S PROVE n + 1 \in S
    OBVIOUS
  <2>0. \A j \in Open(sc) : j \in Nat /\ (j <= n + 1 <=> j <= n \/ j = n + 1)
    BY <1>1
  <2>1. CASE n + 1 \notin Open(sc)
    BY <2>0, <2>1
  <2>2. CASE n + 1 \in Open(sc) /\ \A i \in Open(sc) : ~(i <= n)
    <3>1. \A j \in Open(sc) : j <= n + 1 => ~Less(m(j), m(n + 1))
      BY <1>1, <1>2, <2>0, <2>2, LessOrder
    <3>. QED  BY <2>2, <3>1
  <2>3. CASE n + 1 \in Open(sc) /\ Best(n)
    <3>1. PICK i \in Open(sc) : i <= n /\ \A j \in Open(sc) : j <= n => ~Less(m(j), m(i))
      BY <2>3
    <3>2. CASE Less(m(n + 1), m(i))
      <4>1. \A j \in Open(sc) : j <= n + 1 => ~Less(m(j), m(n + 1))
        BY <1>1, <1>2, <2>0, <2>3, <3>1, <3>2, LessOrder
      <4>. QED  BY <2>3, <4>1
    <3>3. CASE ~Less(m(n + 1), m(i))
      <4>1. i <= n + 1 /\ \A j \in Open(sc) : j <= n + 1 => ~Less(m(j), m(i))
        BY <2>0, <3>1, <3>3
      <4>. QED  BY <4>1
    <3>. QED  BY <3>2, <3>3
  <2>. QED  BY <2>1, <2>2, <2>3
<1>5. MaxIi \in S
  <2>1. \A n \in Nat : n \in S
    <3>. HIDE DEF S
    <3>. QED  BY <1>3, <1>4, NatSet
  <2>. QED  BY <1>1, <2>1
<1>6. \E i \in Open(sc) : \A j \in Open(sc) : ~Less(m(j), m(i))
  <2>1. \A i \in Open(sc) : i <= MaxIi
    BY <1>1
  <2>. QED  BY <1>5, <2>1
<1>7. \E k \in {Forw(sc, i).m : i \in Open(sc)} : \A i \in Open(sc) : ~Less(Forw(sc, i).m, k)
  BY <1>6 DEF m
<1>8. /\ MinKey(sc) \in {Forw(sc, i).m : i \in Open(sc)}
      /\ \A i \in Open(sc) : ~Less(Forw(sc, i).m, MinKey(sc))
  BY <1>7 DEF MinKey
<1>9. MinKey(sc) \in Tuple(job.nm)
  BY <1>2, <1>8 DEF m
<1>. QED  BY <1>1, <1>2, <1>8, <1>9, LessOrder DEF m

(***************************************************************************)
(* Order: the steps.                                                       *)
(***************************************************************************)

(* The job never changes, nor does anything told from it.                  *)
LEMMA JobSame ==
  ASSUME job' = job
  PROVE  /\ Inputs' = Inputs /\ MaxIi' = MaxIi /\ Single' = Single /\ IsMerge' = IsMerge
         /\ \A i : Wanted(i)' = Wanted(i) /\ NRecs(i)' = NRecs(i)
         /\ \A i, n : Of(i, n)' = Of(i, n)
         /\ AllInOrder' = AllInOrder
BY DEF Inputs, MaxIi, Single, IsMerge, Wanted, NRecs, Of, AllInOrder, InOrder

(* No step changes the job.                                                *)
LEMMA NextJob == [MRNext]_vars => job' = job
BY DEF MRNext, vars, inVars, MergeNext, ReportNext, Ended, MergeBegins, NextGroup, MergeEnds, MergeRec,
       MergeNone, MergeGroupEnds, JoinFirst, JoinNone, JoinWrite, JoinNext, JoinBack, JoinGroupEnds,
       ReportBegins, GroupHeads, InputBegins, InputSkipped, PrintLine, InputEnds, SameSort,
       SortChanges, SortBegins, GroupEnds, ReportEnds

(* Before the first record of an input is read.                            *)
LEMMA FirstRecsFacts ==
  ASSUME job \in Jobs
  PROVE  /\ FirstRecs \in [Inputs -> [irec : Nat, eof : BOOLEAN]]
         /\ \A i \in Inputs :
              /\ IF FirstRecs[i].eof THEN FirstRecs[i].irec = NRecs(i) ELSE FirstRecs[i].irec \in Wanted(i)
              /\ FirstRecs[i].eof => Wanted(i) = {}
              /\ ~FirstRecs[i].eof => \A n \in Wanted(i) : FirstRecs[i].irec <= n
<1>1. \A i \in Inputs : FirstRecs[i] = NextFrom(i, 0)
  BY DEF FirstRecs
<1>2. ASSUME NEW i \in Inputs
      PROVE  LET nf == NextFrom(i, 0)
             IN  /\ nf \in [irec : Nat, eof : BOOLEAN]
                 /\ nf.eof => nf.irec = NRecs(i) /\ \A n \in Wanted(i) : n <= 0
                 /\ ~nf.eof => /\ nf.irec \in Wanted(i)
                               /\ \A n \in Wanted(i) : n <= 0 \/ nf.irec <= n
  <2>1. 0 \in Nat /\ 0 <= NRecs(i)
    BY WantedFacts
  <2>. QED  BY <2>1, NextFromFacts
<1>3. \A i \in Inputs : \A n \in Wanted(i) : ~(n <= 0)
  BY WantedFacts
<1>4. FirstRecs \in [Inputs -> [irec : Nat, eof : BOOLEAN]]
  BY <1>2 DEF FirstRecs
<1>. QED  BY <1>1, <1>2, <1>3, <1>4

(* A scan that does not stand behind the last record goes on to the next.  *)
LEMMA ReadFacts ==
  ASSUME Shape, ScanOK, pc # "open", NEW i \in Inputs, ~scan[i].eof, scan' = ReadInpFile(i)
  PROVE  /\ scan' \in [Inputs -> [irec : Nat, eof : BOOLEAN]]
         /\ \A j \in Inputs \ {i} : scan'[j] = scan[j]
         /\ scan[i].irec \in Wanted(i) /\ scan[i].irec <= scan'[i].irec
         /\ scan'[i].eof => scan'[i].irec = NRecs(i) /\ \A n \in Wanted(i) : n <= scan[i].irec
         /\ ~scan'[i].eof => /\ scan'[i].irec \in Wanted(i) /\ scan[i].irec < scan'[i].irec
                             /\ \A n \in Wanted(i) : n <= scan[i].irec \/ scan'[i].irec <= n
<1>1. scan[i].irec \in Wanted(i) /\ scan[i].irec \in Nat /\ scan[i].irec <= NRecs(i) /\ job \in Jobs
  BY WantedFacts DEF Shape, ScanOK
<1>2. scan'[i] = NextFrom(i, scan[i].irec) /\ \A j \in Inputs \ {i} : scan'[j] = scan[j]
  BY DEF ReadInpFile, Shape
<1>3. LET nf == NextFrom(i, scan[i].irec)
      IN  /\ nf \in [irec : Nat, eof : BOOLEAN]
          /\ scan[i].irec <= nf.irec
          /\ nf.eof => nf.irec = NRecs(i) /\ \A n \in Wanted(i) : n <= scan[i].irec
          /\ ~nf.eof => /\ nf.irec \in Wanted(i) /\ scan[i].irec < nf.irec
                        /\ \A n \in Wanted(i) : n <= scan[i].irec \/ nf.irec <= n
  BY <1>1, NextFromFacts
<1>4. scan' \in [Inputs -> [irec : Nat, eof : BOOLEAN]]
  BY <1>3 DEF ReadInpFile, Shape
<1>. QED  BY <1>1, <1>2, <1>3, <1>4

(* While the record read next is not behind the group, what was read is in *)
(* order; when it is, the input is not.                                    *)
LEMMA ReadInOrder ==
  ASSUME Shape, ScanOK, SeenInOrder, pc \notin {"open", "refused"}, NEW i \in Inputs, ~scan[i].eof,
         key \in Tuple(job.nm),
         Forw(scan, i).m = key, scan' = ReadInpFile(i), job' = job
  PROVE  /\ ~Behind(scan', i) /\ ~Single =>
              \A j \in Inputs : \A g, h \in Wanted(j) :
                g < h /\ h <= scan'[j].irec => ~Less(Of(j, h).m, Of(j, g).m)
         /\ Behind(scan', i) => ~AllInOrder
<1>. DEFINE r == scan[i].irec
            s == scan'[i].irec
<1>1. /\ r \in Wanted(i) /\ r <= s
      /\ \A j \in Inputs \ {i} : scan'[j] = scan[j]
      /\ scan'[i].eof => \A n \in Wanted(i) : n <= r
      /\ ~scan'[i].eof => s \in Wanted(i) /\ r < s /\ \A n \in Wanted(i) : n <= r \/ s <= n
  BY ReadFacts
<1>2. /\ Wanted(i) \subseteq Nat /\ job.nm \in Nat /\ s \in Nat
      /\ \A n \in Wanted(i) : Of(i, n).m \in Tuple(job.nm)
  BY WantedFacts, ReadFacts DEF Shape
<1>3. Of(i, r).m = key /\ Forw(scan', i).m = Of(i, s).m
  BY DEF Forw, Of
<1>4. ASSUME Behind(scan', i) PROVE ~AllInOrder
  <2>1. ~scan'[i].eof /\ Less(Of(i, s).m, Of(i, r).m)
    BY <1>3, <1>4 DEF Behind
  <2>. HIDE DEF r, s
  <2>2. ~InOrder(i)
    BY <1>1, <2>1 DEF InOrder
  <2>. QED  BY <2>2 DEF AllInOrder
<1>5. ASSUME ~Behind(scan', i), ~Single, NEW j \in Inputs, NEW g \in Wanted(j), NEW h \in Wanted(j),
             g < h, h <= scan'[j].irec
      PROVE  ~Less(Of(j, h).m, Of(j, g).m)
  <2>0. \A l \in Inputs : \A a, b \in Wanted(l) :
          a < b /\ b <= scan[l].irec => ~Less(Of(l, b).m, Of(l, a).m)
    BY <1>5 DEF SeenInOrder
  <2>1. CASE j # i \/ h <= r
    BY <1>1, <1>5, <2>0, <2>1
  <2>2. CASE j = i /\ ~(h <= r)
    <3>1. ~scan'[i].eof /\ h = s /\ g <= r
      BY <1>1, <1>2, <1>5, <2>2
    <3>2. ~Less(Of(i, s).m, Of(i, r).m)
      BY <1>3, <1>5, <3>1 DEF Behind
    <3>3. g = r \/ ~Less(Of(i, r).m, Of(i, g).m)
      <4>. HIDE DEF s
      <4>. QED  BY <1>1, <1>2, <2>0, <2>2, <3>1
    <3>. HIDE DEF r, s
    <3>. QED  BY <1>1, <1>2, <2>2, <3>1, <3>2, <3>3, LessOrder
  <2>. QED  BY <2>1, <2>2
<1>. QED  BY <1>4, <1>5

(* What a step that leaves the scans alone leaves true of them.            *)
LEMMA SameScan ==
  ASSUME OrderInv, job' = job, scan' = scan, pc \notin {"open", "refused"}
  PROVE  /\ ScanOK' /\ SeenInOrder'
         /\ \A i \in Inputs : key' = key => (Stays(scan, i)' <=> Stays(scan, i))
         /\ Open(scan)' = Open(scan)
<1>. USE JobSame DEF OrderInv
<1>1. ScanOK'
  BY DEF ScanOK
<1>2. SeenInOrder'
  BY DEF SeenInOrder
<1>3. \A i \in Inputs : key' = key => (Stays(scan, i)' <=> Stays(scan, i))
  BY DEF Stays, Forw
<1>4. Open(scan)' = Open(scan)
  BY DEF Open
<1>. QED  BY <1>1, <1>2, <1>3, <1>4

(* The same of a step that reads the next record of an input in its group. *)
LEMMA ReadScan ==
  ASSUME OrderInv, job' = job, pc \notin {"open", "refused"}, NEW i \in Inputs, Stays(scan, i),
         key \in Tuple(job.nm),
         scan' = ReadInpFile(i), Behind(scan', i) /\ ~Single => pc' = "refused"
  PROVE  /\ ScanOK' /\ SeenInOrder'
         /\ scan' \in [Inputs -> [irec : Nat, eof : BOOLEAN]]
         /\ \A j \in Inputs : key' = key /\ j # i => (Stays(scan, j)' <=> Stays(scan, j))
         /\ \A j \in Inputs : start[j] <= scan[j].irec => start[j] <= scan'[j].irec
         /\ Behind(scan', i) => ~AllInOrder'
<1>0. Shape /\ ScanOK /\ SeenInOrder /\ ~scan[i].eof /\ Forw(scan, i).m = key
  BY DEF OrderInv, Stays
<1>1. /\ scan' \in [Inputs -> [irec : Nat, eof : BOOLEAN]]
      /\ \A j \in Inputs \ {i} : scan'[j] = scan[j]
      /\ scan[i].irec <= scan'[i].irec
      /\ scan'[i].eof => scan'[i].irec = NRecs(i)
      /\ ~scan'[i].eof => scan'[i].irec \in Wanted(i)
  BY <1>0, ReadFacts
<1>2. ScanOK'
  BY <1>0, <1>1, JobSame DEF ScanOK
<1>3. /\ ~Behind(scan', i) /\ ~Single =>
           \A j \in Inputs : \A g, h \in Wanted(j) :
             g < h /\ h <= scan'[j].irec => ~Less(Of(j, h).m, Of(j, g).m)
      /\ Behind(scan', i) => ~AllInOrder
  BY <1>0, ReadInOrder
<1>4. SeenInOrder'
  BY <1>3, JobSame DEF SeenInOrder
<1>5. \A j \in Inputs : key' = key /\ j # i => (Stays(scan, j)' <=> Stays(scan, j))
  BY <1>1 DEF Stays, Forw
<1>6. \A j \in Inputs : start[j] <= scan[j].irec => start[j] <= scan'[j].irec
  <2>. SUFFICES ASSUME NEW j \in Inputs, start[j] <= scan[j].irec PROVE start[j] <= scan'[j].irec
    OBVIOUS
  <2>1. start[j] \in Nat /\ scan[j].irec \in Nat /\ scan'[j].irec \in Nat
    BY <1>0, <1>1 DEF Shape
  <2>. QED  BY <1>1, <2>1
<1>. QED  BY <1>1, <1>2, <1>3, <1>4, <1>5, <1>6, JobSame

(* The first records: nothing was read yet.                                *)
LEMMA FirstScan ==
  ASSUME OrderInv, job' = job, scan' = FirstRecs
  PROVE  /\ ScanOK' /\ SeenInOrder'
         /\ scan' \in [Inputs -> [irec : Nat, eof : BOOLEAN]]
         /\ \A i \in Inputs : scan'[i].eof <=> Wanted(i) = {}
         /\ \A i \in Open(scan') : scan'[i].irec \in Wanted(i)
<1>0. job \in Jobs
  BY DEF OrderInv, Shape
<1>1. /\ scan' \in [Inputs -> [irec : Nat, eof : BOOLEAN]]
      /\ \A i \in Inputs :
           /\ IF scan'[i].eof THEN scan'[i].irec = NRecs(i) ELSE scan'[i].irec \in Wanted(i)
           /\ scan'[i].eof => Wanted(i) = {}
           /\ ~scan'[i].eof => \A n \in Wanted(i) : scan'[i].irec <= n
  BY <1>0, FirstRecsFacts
<1>2. ScanOK'
  BY <1>1, JobSame DEF ScanOK
<1>3. ASSUME NEW i \in Inputs, NEW g \in Wanted(i), NEW h \in Wanted(i), g < h, h <= scan'[i].irec
      PROVE  FALSE
  <2>1. g \in Nat /\ h \in Nat /\ scan'[i].irec \in Nat
    BY <1>0, <1>1, WantedFacts
  <2>. QED  BY <1>1, <1>3, <2>1
<1>4. SeenInOrder'
  BY <1>3, JobSame DEF SeenInOrder
<1>. QED  BY <1>1, <1>2, <1>4 DEF Open

(* The key of the group that comes next, and the inputs that are in it.    *)
LEMMA GroupFacts ==
  ASSUME job \in Jobs, NEW sc, Open(sc) # {}, \A i \in Open(sc) : sc[i].irec \in Wanted(i)
  PROVE  /\ MinKey(sc) \in Tuple(job.nm)
         /\ Existing(sc) \subseteq Inputs
         /\ \A i \in Inputs : i \in Existing(sc) <=> ~sc[i].eof /\ Forw(sc, i).m = MinKey(sc)
BY MinKeyFacts DEF Existing, Open

(* In a state of the invariant open inputs stand on records that count.    *)
LEMMA OpenScans ==
  ASSUME OrderInv, pc # "open"
  PROVE  \A i \in Open(scan) : scan[i].irec \in Wanted(i)
BY DEF OrderInv, ScanOK, Open

(* A record behind the group neither is in it nor belongs to a later one.  *)
LEMMA BehindOnly ==
  ASSUME Shape, ScanOK, pc # "open", NEW i \in Inputs, Stays(scan, i), key \in Tuple(job.nm),
         scan' = ReadInpFile(i), Behind(scan', i)
  PROVE  ~Passed(scan', i) /\ ~Stays(scan', i)
<1>1. ~scan'[i].eof /\ ~scan[i].eof
  BY DEF Behind, Stays
<1>2. scan'[i].irec \in Wanted(i)
  BY <1>1, ReadFacts
<1>3. Forw(scan', i).m \in Tuple(job.nm) /\ job.nm \in Nat
  BY <1>2, WantedFacts DEF Forw, Of, Shape
<1>. QED  BY <1>1, <1>3, LessOrder DEF Behind, Passed, Stays

(***************************************************************************)
(* Order: merges.                                                          *)
(***************************************************************************)

LEMMA OrderInit == MRInit => OrderInv
<1>. SUFFICES ASSUME MRInit PROVE OrderInv
  OBVIOUS
<1>1. job \in Jobs /\ pc = "open" /\ at = 0 /\ exist = {}
  BY DEF MRInit, Init
<1>2. scan \in [Inputs -> [irec : Nat, eof : BOOLEAN]] /\ start \in [Inputs -> Nat]
  BY DEF MRInit, Init, MergeInit
<1>. QED
  BY <1>1, <1>2 DEF OrderInv, Shape, MergePcs, ReportPcs, ScanOK, SeenInOrder, Standing, Started, KeyOK,
       Ends

(* A join goes back to the first record of the group.                      *)
LEMMA FirstOfGroupFacts ==
  ASSUME OrderInv, NEW i \in Inputs, start[i] \in Wanted(i)
  PROVE  FirstOfGroup(i) = [scan EXCEPT ![i] = [irec |-> start[i], eof |-> FALSE]]
<1>. DEFINE r == start[i] - 1
            sought == SeekRec(i, r)
<1>0. job \in Jobs /\ start[i] \in 1 .. NRecs(i) /\ NRecs(i) \in Nat /\ scan \in [Inputs -> [irec : Nat, eof : BOOLEAN]]
  BY WantedFacts DEF OrderInv, Shape
<1>1. r \in Nat /\ r <= NRecs(i) /\ r + 1 = start[i]
  BY <1>0
<1>2. sought[i].irec = r
  BY <1>0 DEF SeekRec
<1>3. LET nf == NextFrom(i, r)
      IN  /\ nf \in [irec : Nat, eof : BOOLEAN]
          /\ nf.eof => \A n \in Wanted(i) : n <= r
          /\ ~nf.eof => /\ nf.irec \in Wanted(i) /\ r < nf.irec
                        /\ \A n \in Wanted(i) : n <= r \/ nf.irec <= n
  BY <1>0, <1>1, NextFromFacts
<1>4. NextFrom(i, r) = [irec |-> start[i], eof |-> FALSE]
  <2>1. ~NextFrom(i, r).eof
    BY <1>0, <1>1, <1>3
  <2>2. NextFrom(i, r).irec = start[i]
    BY <1>0, <1>1, <1>3, <2>1
  <2>. QED  BY <1>3, <2>1, <2>2
<1>5. FirstOfGroup(i) = [sought EXCEPT ![i] = NextFrom(i, r)]
  BY <1>2 DEF FirstOfGroup
<1>. HIDE DEF r
<1>. QED  BY <1>0, <1>4, <1>5 DEF SeekRec

LEMMA OrderMerge ==
  ASSUME OrderInv, MergeNext
  PROVE  OrderInv'
<1>0. job' = job /\ job \in Jobs /\ Inputs = 1 .. MaxIi /\ MaxIi \in Nat
  BY JobFacts DEF OrderInv, Shape, MergeNext, MergeBegins, NextGroup, MergeEnds, MergeRec,
       MergeNone, MergeGroupEnds, JoinFirst, JoinNone, JoinWrite, JoinNext, JoinBack, JoinGroupEnds
<1>a. /\ Inputs' = Inputs /\ MaxIi' = MaxIi /\ Single' = Single /\ IsMerge' = IsMerge
      /\ \A i : Wanted(i)' = Wanted(i) /\ NRecs(i)' = NRecs(i)
      /\ \A i, n : Of(i, n)' = Of(i, n)
      /\ AllInOrder' = AllInOrder
  BY <1>0, JobSame
<1>b. Shape /\ ScanOK /\ SeenInOrder /\ Standing /\ Started /\ KeyOK /\ Ends
  BY DEF OrderInv
<1>. DEFINE R == OrderInv'
<1>. SUFFICES R
  OBVIOUS
<1>. USE DEF MergePcs, ReportPcs
<1>1. CASE MergeBegins
  <2>1. ScanOK' /\ SeenInOrder' /\ scan' \in [Inputs -> [irec : Nat, eof : BOOLEAN]]
    BY <1>0, <1>1, FirstScan DEF MergeBegins
  <2>. QED
    BY <1>0, <1>a, <1>b, <1>1, <2>1
    DEF MergeBegins, OrderInv, Shape, Standing, InTheGroup, Started, KeyOK, Ends
<1>2. CASE NextGroup
  <2>1. ScanOK' /\ SeenInOrder' /\ pc = "group" /\ pc' \in {"merge", "down"} /\ scan' = scan
    BY <1>0, <1>2, SameScan DEF NextGroup
  <2>2. /\ key' \in Tuple(job.nm) /\ exist' \subseteq Inputs
        /\ \A i \in exist' : ~scan[i].eof /\ Forw(scan, i).m = key' /\ scan[i].irec \in Wanted(i)
    BY <1>0, <1>2, <2>1, OpenScans, GroupFacts DEF NextGroup, Open
  <2>3. start' \in [Inputs -> Nat]
    BY <1>b, <1>2 DEF NextGroup, Shape
  <2>4. Standing'
    BY <1>0, <1>2, <2>1, <2>2 DEF NextGroup, Standing, InTheGroup, Stays, Forw
  <2>5. Started'
    BY <1>0, <1>a, <1>b, <1>2, <2>1, <2>2 DEF NextGroup, Started, Forw, Of, Shape
  <2>. QED
    BY <1>0, <1>a, <1>b, <1>2, <2>1, <2>2, <2>3, <2>4, <2>5 DEF NextGroup, OrderInv, Shape, KeyOK, Ends
<1>3. CASE MergeEnds
  <2>1. ScanOK' /\ SeenInOrder' /\ Open(scan)' = Open(scan)
    BY <1>0, <1>3, SameScan DEF MergeEnds
  <2>. QED
    BY <1>0, <1>a, <1>b, <1>3, <2>1
    DEF MergeEnds, OrderInv, Shape, Standing, InTheGroup, Started, KeyOK, Ends
<1>4. CASE MergeRec
  <2>1. pc = "merge" /\ at \in exist /\ at \in Inputs /\ at \in Nat /\ Stays(scan, at) /\ key \in Tuple(job.nm)
    BY <1>0, <1>b, <1>4 DEF MergeRec, Shape, Standing, InTheGroup, KeyOK
  <2>2. /\ scan' = ReadInpFile(at) /\ key' = key /\ exist' = exist
        /\ Behind(scan', at) => pc' = "refused"
        /\ pc' \in {"merge", "refused"} /\ at' \in {at, at + 1}
        /\ pc' = "merge" /\ at' = at => Stays(scan', at)
        /\ pc' = "refused" => Behind(scan', at)
    <3>1. scan' = ReadInpFile(at) /\ pc # "open"
      BY <1>4 DEF MergeRec
    <3>2. Behind(scan', at) => ~Passed(scan', at) /\ ~Stays(scan', at)
      BY <1>b, <2>1, <3>1, BehindOnly
    <3>. QED  BY <1>4, <2>1, <3>2 DEF MergeRec
  <2>3. /\ ScanOK' /\ SeenInOrder' /\ scan' \in [Inputs -> [irec : Nat, eof : BOOLEAN]]
        /\ \A j \in Inputs : j # at => (Stays(scan, j)' <=> Stays(scan, j))
        /\ Behind(scan', at) => ~AllInOrder'
    <3>1. pc \notin {"open", "refused"} /\ job' = job /\ (Behind(scan', at) /\ ~Single => pc' = "refused")
      BY <1>0, <2>1, <2>2
    <3>. QED  BY <2>1, <2>2, <3>1, ReadScan
  <2>4. Standing'
    <3>. SUFFICES ASSUME NEW i \in exist, InTheGroup(i)' PROVE Stays(scan, i)'
      BY <2>2 DEF Standing
    <3>1. i \in Inputs /\ pc' = "merge" /\ i >= at /\ (i = at => at' = at)
      BY <1>0, <1>b, <2>1, <2>2 DEF InTheGroup, Shape
    <3>2. Stays(scan, i)
      BY <1>b, <2>1, <3>1 DEF Standing, InTheGroup
    <3>3. CASE i = at
      BY <1>0, <2>2, <3>1, <3>3 DEF Stays, Forw
    <3>4. CASE i # at
      BY <2>3, <3>1, <3>2, <3>4
    <3>. QED  BY <3>3, <3>4
  <2>5. Shape'
    <3>1. at' \in Nat /\ start' = start /\ pc = "merge" /\ job' = job
      BY <1>0, <1>b, <1>4, <2>1, <2>2 DEF MergeRec, Shape
    <3>. QED  BY <1>a, <1>b, <2>2, <2>3, <3>1 DEF Shape
  <2>. QED
    BY <1>0, <1>b, <2>1, <2>2, <2>3, <2>4, <2>5 DEF OrderInv, Started, KeyOK, Ends
<1>5. CASE MergeNone
  <2>1. ScanOK' /\ SeenInOrder' /\ \A i \in Inputs : Stays(scan, i)' <=> Stays(scan, i)
    BY <1>0, <1>5, SameScan DEF MergeNone
  <2>. QED
    BY <1>0, <1>a, <1>b, <1>5, <2>1
    DEF MergeNone, OrderInv, Shape, Standing, InTheGroup, Started, KeyOK, Ends
<1>6. CASE MergeGroupEnds \/ JoinGroupEnds
  <2>1. ScanOK' /\ SeenInOrder'
    BY <1>0, <1>6, SameScan DEF MergeGroupEnds, JoinGroupEnds
  <2>. QED
    BY <1>0, <1>a, <1>b, <1>6, <2>1
    DEF MergeGroupEnds, JoinGroupEnds, OrderInv, Shape, Standing, InTheGroup, Started, KeyOK, Ends
<1>7. CASE JoinFirst
  <2>1. /\ pc = "down" /\ at \in exist /\ at \in Inputs /\ start[at] \in Wanted(at)
        /\ Of(at, start[at]).m = key /\ start[at] <= scan[at].irec
        /\ \A i \in Inputs : start[i] <= scan[i].irec
    BY <1>b, <1>7 DEF JoinFirst, Shape, Started
  <2>2. scan' = [scan EXCEPT ![at] = [irec |-> start[at], eof |-> FALSE]]
    BY <1>0, <1>7, <2>1, FirstOfGroupFacts DEF JoinFirst, OrderInv
  <2>3. /\ scan' \in [Inputs -> [irec : Nat, eof : BOOLEAN]]
        /\ scan'[at] = [irec |-> start[at], eof |-> FALSE]
        /\ \A j \in Inputs \ {at} : scan'[j] = scan[j]
        /\ \A j \in Inputs : scan'[j].irec <= scan[j].irec
    <3>1. start[at] \in Nat
      BY <1>b, <2>1 DEF Shape
    <3>2. \A j \in Inputs : scan[j].irec \in Nat /\ scan[j].irec <= scan[j].irec
      BY <1>b DEF Shape
    <3>. QED  BY <1>b, <2>1, <2>2, <3>1, <3>2 DEF Shape
  <2>4. ScanOK'
    BY <1>a, <1>b, <2>1, <2>3 DEF ScanOK
  <2>5. SeenInOrder'
    <3>. SUFFICES ASSUME ~Single, NEW i \in Inputs, NEW g \in Wanted(i), NEW h \in Wanted(i), g < h,
                         h <= scan'[i].irec
                  PROVE  ~Less(Of(i, h).m, Of(i, g).m)
      BY <1>a DEF SeenInOrder
    <3>1. h \in Nat /\ scan[i].irec \in Nat /\ scan'[i].irec \in Nat
      BY <1>0, <1>b, <2>3, WantedFacts DEF Shape
    <3>2. h <= scan[i].irec
      BY <2>3, <3>1
    <3>. QED  BY <1>b, <2>1, <3>2 DEF SeenInOrder
  <2>6. pc' = pc /\ at' = at + 1 /\ exist' = exist /\ key' = key /\ start' = start
    BY <1>7 DEF JoinFirst
  <2>7. Standing'
    <3>. SUFFICES ASSUME NEW i \in exist, i < at + 1 PROVE Stays(scan, i)'
      BY <2>1, <2>6 DEF Standing, InTheGroup
    <3>1. i \in Inputs
      BY <1>b DEF Shape
    <3>2. CASE i = at
      BY <1>0, <2>1, <2>3, <2>6, <3>2 DEF Stays, Forw, Of
    <3>3. CASE i # at
      <4>1. Stays(scan, i)
        BY <1>0, <1>b, <2>1, <3>1, <3>3 DEF Standing, InTheGroup, Shape
      <4>. QED  BY <1>0, <2>3, <2>6, <3>1, <3>3, <4>1 DEF Stays, Forw
    <3>. QED  BY <3>2, <3>3
  <2>8. Started'
    <3>1. \A i \in Inputs : start[i] \in Nat /\ start[i] <= scan'[i].irec
      BY <1>b, <2>1, <2>3 DEF Shape
    <3>. QED  BY <1>a, <1>b, <2>1, <2>6, <3>1 DEF Started
  <2>9. Shape'
    BY <1>0, <1>a, <1>b, <2>3, <2>6 DEF Shape
  <2>. QED
    BY <1>0, <1>b, <2>1, <2>4, <2>5, <2>6, <2>7, <2>8, <2>9 DEF OrderInv, KeyOK, Ends
<1>8. CASE JoinNone \/ JoinBack \/ JoinWrite
  <2>1. /\ ScanOK' /\ SeenInOrder' /\ scan' = scan /\ key' = key /\ exist' = exist /\ start' = start
        /\ \A i \in Inputs : Stays(scan, i)' <=> Stays(scan, i)
    BY <1>0, <1>8, SameScan DEF JoinNone, JoinBack, JoinWrite
  <2>2. Shape'
    <3>1. at' \in Nat
      BY <1>0, <1>b, <1>8 DEF JoinNone, JoinBack, JoinWrite, Shape
    <3>. QED  BY <1>0, <1>a, <1>b, <1>8, <2>1, <3>1 DEF JoinNone, JoinBack, JoinWrite, Shape
  <2>3. Standing'
    <3>. SUFFICES ASSUME NEW i \in exist, InTheGroup(i)' PROVE Stays(scan, i)
      BY <1>8, <1>b, <2>1 DEF Standing, JoinNone, JoinBack, JoinWrite, Shape
    <3>1. i \in Inputs /\ i \in Nat
      BY <1>0, <1>b DEF Shape
    <3>2. InTheGroup(i)
      BY <1>0, <1>b, <1>8, <3>1 DEF JoinNone, JoinBack, JoinWrite, InTheGroup, Shape
    <3>. QED  BY <1>b, <3>2 DEF Standing
  <2>4. Started' /\ KeyOK' /\ Ends'
    BY <1>0, <1>a, <1>b, <1>8, <2>1 DEF JoinNone, JoinBack, JoinWrite, Started, KeyOK, Ends
  <2>. QED  BY <2>1, <2>2, <2>3, <2>4 DEF OrderInv
<1>9. CASE JoinNext
  <2>1. pc = "up" /\ at \in exist /\ at \in Inputs /\ Stays(scan, at) /\ key \in Tuple(job.nm) /\ at - 1 \in Nat
    BY <1>0, <1>b, <1>9 DEF JoinNext, Shape, Standing, InTheGroup, KeyOK
  <2>2. /\ scan' = ReadInpFile(at) /\ key' = key /\ exist' = exist /\ start' = start
        /\ Behind(scan', at) => pc' = "refused"
        /\ \/ pc' = "down" /\ at' = at + 1 /\ Stays(scan', at)
           \/ pc' = "up" /\ at' = at - 1
           \/ pc' = "refused" /\ at' = at /\ Behind(scan', at)
    <3>1. scan' = ReadInpFile(at) /\ pc # "open"
      BY <1>9 DEF JoinNext
    <3>2. Behind(scan', at) => ~Passed(scan', at) /\ ~Stays(scan', at)
      BY <1>b, <2>1, <3>1, BehindOnly
    <3>. QED  BY <1>9, <3>2 DEF JoinNext
  <2>3. /\ ScanOK' /\ SeenInOrder' /\ scan' \in [Inputs -> [irec : Nat, eof : BOOLEAN]]
        /\ \A j \in Inputs : j # at => (Stays(scan, j)' <=> Stays(scan, j))
        /\ \A j \in Inputs : start[j] <= scan[j].irec => start[j] <= scan'[j].irec
        /\ Behind(scan', at) => ~AllInOrder'
    <3>1. pc \notin {"open", "refused"} /\ job' = job /\ (Behind(scan', at) /\ ~Single => pc' = "refused")
      BY <1>0, <2>1, <2>2
    <3>. QED  BY <2>1, <2>2, <3>1, ReadScan
  <2>4. Standing'
    <3>. SUFFICES ASSUME NEW i \in exist, InTheGroup(i)' PROVE Stays(scan, i)'
      BY <2>2 DEF Standing
    <3>1. i \in Inputs /\ i <= at /\ (i = at => Stays(scan', at))
      BY <1>0, <1>b, <2>1, <2>2 DEF InTheGroup, Shape
    <3>2. Stays(scan, i)
      BY <1>b, <2>1, <3>1 DEF Standing, InTheGroup
    <3>3. CASE i = at
      BY <1>0, <2>2, <3>1, <3>3 DEF Stays, Forw
    <3>4. CASE i # at
      BY <2>3, <3>1, <3>2, <3>4
    <3>. QED  BY <3>3, <3>4
  <2>5. Shape'
    <3>1. at' \in Nat /\ job' = job
      BY <1>0, <1>b, <2>1, <2>2 DEF Shape
    <3>. QED  BY <1>a, <1>b, <2>1, <2>2, <2>3, <3>1 DEF Shape
  <2>6. Started'
    BY <1>a, <1>b, <2>1, <2>2, <2>3 DEF Started
  <2>. QED
    BY <1>0, <1>b, <2>1, <2>2, <2>3, <2>4, <2>5, <2>6 DEF OrderInv, KeyOK, Ends
<1>. QED  BY <1>1, <1>2, <1>3, <1>4, <1>5, <1>6, <1>7, <1>8, <1>9 DEF MergeNext

(***************************************************************************)
(* Order: reports.                                                         *)
(***************************************************************************)

(* The group that comes next, after the scans sc.                          *)
LEMMA GetMinKeyFacts ==
  ASSUME job \in Jobs, NEW sc, \A i \in Open(sc) : sc[i].irec \in Wanted(i), GetMinKey(sc)
  PROVE  /\ exist' = {} <=> Open(sc) = {}
         /\ exist' \subseteq Inputs
         /\ exist' # {} => /\ key' = MinKey(sc) /\ key' \in Tuple(job.nm)
                           /\ \A i \in exist' : ~sc[i].eof /\ Forw(sc, i).m = key'
<1>1. CASE Open(sc) = {}
  BY <1>1 DEF GetMinKey
<1>2. CASE Open(sc) # {}
  <2>1. exist' = Existing(sc) /\ key' = MinKey(sc)
    BY <1>2 DEF GetMinKey
  <2>2. /\ MinKey(sc) \in Tuple(job.nm) /\ Existing(sc) \subseteq Inputs
        /\ \A i \in Inputs : i \in Existing(sc) <=> ~sc[i].eof /\ Forw(sc, i).m = MinKey(sc)
    BY <1>2, GroupFacts
  <2>3. \E i \in Open(sc) : Forw(sc, i).m = MinKey(sc)
    BY <1>2, MinKeyFacts
  <2>4. Existing(sc) # {}
    BY <2>3 DEF Existing
  <2>. QED  BY <1>2, <2>1, <2>2, <2>4
<1>. QED  BY <1>1, <1>2

(* The actions of a report that leave the scans and the group alone.       *)
StaysHere ==
  GroupHeads \/ InputBegins \/ InputSkipped \/ InputEnds \/ SameSort \/ SortChanges \/ SortBegins \/ ReportEnds

LEMMA OrderReport ==
  ASSUME OrderInv, ReportNext, UNCHANGED mVars
  PROVE  OrderInv'
<1>0. job' = job /\ job \in Jobs /\ Inputs = 1 .. MaxIi /\ MaxIi \in Nat /\ start' = start
  BY JobFacts DEF OrderInv, Shape, mVars, ReportNext, ReportBegins, GroupHeads, InputBegins,
       InputSkipped,
       PrintLine, InputEnds, SameSort, SortChanges, SortBegins, GroupEnds, ReportEnds
<1>a. /\ Inputs' = Inputs /\ MaxIi' = MaxIi /\ Single' = Single /\ IsMerge' = IsMerge
      /\ \A i : Wanted(i)' = Wanted(i) /\ NRecs(i)' = NRecs(i)
      /\ \A i, n : Of(i, n)' = Of(i, n)
      /\ AllInOrder' = AllInOrder
  BY <1>0, JobSame
<1>b. Shape /\ ScanOK /\ SeenInOrder /\ Standing /\ Started /\ KeyOK /\ Ends
  BY DEF OrderInv
<1>. DEFINE R == OrderInv'
<1>. SUFFICES R
  OBVIOUS
<1>. USE DEF MergePcs, ReportPcs
<1>1. CASE ReportBegins
  <2>1. /\ scan' = FirstRecs /\ GetMinKey(scan') /\ pc' = IF exist' = {} THEN "last" ELSE "heads"
        /\ job.kind = "report" /\ at' = 1
    BY <1>1 DEF ReportBegins
  <2>2. /\ ScanOK' /\ SeenInOrder' /\ scan' \in [Inputs -> [irec : Nat, eof : BOOLEAN]]
        /\ \A i \in Open(scan') : scan'[i].irec \in Wanted(i)
    BY <1>0, <2>1, FirstScan
  <2>3. /\ exist' = {} <=> Open(scan') = {}
        /\ exist' \subseteq Inputs
        /\ exist' # {} => key' \in Tuple(job.nm) /\ \A i \in exist' : ~scan'[i].eof /\ Forw(scan', i).m = key'
    BY <1>0, <2>1, <2>2, GetMinKeyFacts
  <2>4. Shape'
    BY <1>0, <1>a, <1>b, <2>1, <2>2, <2>3 DEF Shape
  <2>5. Standing'
    BY <1>0, <2>1, <2>3 DEF Standing, InTheGroup, Stays, Forw
  <2>6. Ends'
    BY <1>0, <1>a, <2>1, <2>3 DEF Ends, Open
  <2>7. Started' /\ KeyOK'
    BY <1>0, <2>1, <2>3 DEF Started, KeyOK
  <2>. QED  BY <2>2, <2>4, <2>5, <2>6, <2>7 DEF OrderInv
<1>2. CASE StaysHere
  <2>1. /\ scan' = scan /\ key' = key /\ exist' = exist /\ pc \in ReportPcs \ {"line"}
        /\ pc' \in (ReportPcs \ {"next", "last"}) \cup {"done"}
    BY <1>2 DEF StaysHere, GroupHeads, InputBegins, InputSkipped, InputEnds, SameSort, SortChanges,
         SortBegins,
                ReportEnds
  <2>2. /\ ScanOK' /\ SeenInOrder' /\ Open(scan)' = Open(scan)
        /\ \A i \in Inputs : Stays(scan, i)' <=> Stays(scan, i)
    <3>1. pc \notin {"open", "refused"}
      BY <2>1
    <3>. QED  BY <1>0, <2>1, <3>1, SameScan
  <2>3. /\ at' \in Nat /\ (pc' # "done" => pc # "last") /\ (pc' = "done" => pc = "last")
        /\ pc' \in {"line", "sort"} => at' \in exist
        /\ \A i \in exist : InTheGroup(i)' => InTheGroup(i) \/ Stays(scan, i)
    <3>. CASE GroupHeads
      BY <1>b DEF GroupHeads, InTheGroup, Shape
    <3>. CASE InputBegins
      BY <1>b DEF InputBegins, InTheGroup, Shape
    <3>. CASE InputSkipped
      BY <1>0, <1>b DEF InputSkipped, InTheGroup, Shape
    <3>. CASE InputEnds
      BY <1>0, <1>b DEF InputEnds, InTheGroup, Shape
    <3>. CASE SameSort \/ SortChanges
      BY <1>0, <1>b DEF SameSort, SortChanges, InTheGroup, Shape, Standing
    <3>. CASE SortBegins
      BY <1>0, <1>b DEF SortBegins, InTheGroup, Shape, Standing
    <3>. CASE ReportEnds
      BY <1>0, <1>b DEF ReportEnds, InTheGroup, Shape
    <3>. QED  BY <1>2 DEF StaysHere
  <2>4. Shape'
    BY <1>0, <1>a, <1>b, <2>1, <2>3 DEF Shape
  <2>5. Standing'
    <3>1. \A i \in exist : InTheGroup(i)' => Stays(scan, i)'
      BY <1>b, <2>2, <2>3 DEF Standing, Shape
    <3>2. pc' \in {"line", "next", "sort"} => at' \in exist'
      BY <2>1, <2>3
    <3>. QED  BY <2>1, <3>1, <3>2 DEF Standing
  <2>6. Started' /\ KeyOK' /\ Ends'
    BY <1>0, <1>a, <1>b, <2>1, <2>2, <2>3 DEF Started, KeyOK, Ends
  <2>. QED  BY <2>2, <2>4, <2>5, <2>6 DEF OrderInv
<1>3. CASE PrintLine
  <2>1. pc = "line" /\ at \in exist /\ at \in Inputs /\ Stays(scan, at) /\ key \in Tuple(job.nm) /\ at \in Nat
    BY <1>0, <1>b, <1>3 DEF PrintLine, Shape, Standing, InTheGroup, KeyOK
  <2>2. /\ scan' = ReadInpFile(at) /\ key' = key /\ exist' = exist /\ at' = at
        /\ pc' = IF Behind(scan', at) /\ MaxIi > 1 THEN "refused" ELSE "next"
    BY <1>3 DEF PrintLine
  <2>3. job.kind = "report" /\ (Single <=> MaxIi = 1) /\ MaxIi \in 1 .. 9
    BY <1>0, <1>b, <2>1, JobFacts DEF Shape, Single
  <2>4. /\ ScanOK' /\ SeenInOrder' /\ scan' \in [Inputs -> [irec : Nat, eof : BOOLEAN]]
        /\ \A j \in Inputs : j # at => (Stays(scan, j)' <=> Stays(scan, j))
        /\ Behind(scan', at) => ~AllInOrder'
    <3>1. pc \notin {"open", "refused"} /\ (Behind(scan', at) /\ ~Single => pc' = "refused")
      BY <2>1, <2>2, <2>3
    <3>. QED  BY <1>0, <2>1, <2>2, <3>1, ReadScan
  <2>5. Shape'
    BY <1>0, <1>a, <1>b, <2>1, <2>2, <2>3, <2>4 DEF Shape
  <2>6. Standing'
    <3>. SUFFICES ASSUME NEW i \in exist, InTheGroup(i)' PROVE Stays(scan, i)'
      BY <2>1, <2>2 DEF Standing
    <3>1. i \in Inputs /\ i > at
      BY <1>0, <1>b, <2>1, <2>2 DEF InTheGroup, Shape
    <3>2. Stays(scan, i)
      BY <1>0, <1>b, <2>1, <3>1 DEF Standing, InTheGroup
    <3>. QED  BY <1>0, <2>1, <2>4, <3>1, <3>2
  <2>7. Started' /\ KeyOK' /\ Ends'
    BY <1>0, <1>b, <2>1, <2>2, <2>4 DEF Started, KeyOK, Ends
  <2>. QED  BY <2>4, <2>5, <2>6, <2>7 DEF OrderInv
<1>4. CASE GroupEnds
  <2>1. /\ pc = "input" /\ scan' = scan /\ GetMinKey(scan)
        /\ pc' = IF exist' = {} THEN "last" ELSE "heads"
        /\ pc' = "last" => at' = at
    BY <1>4 DEF GroupEnds
  <2>2. ScanOK' /\ SeenInOrder' /\ Open(scan)' = Open(scan)
    <3>1. pc \notin {"open", "refused"}
      BY <2>1
    <3>. QED  BY <1>0, <2>1, <3>1, SameScan
  <2>3. /\ exist' = {} <=> Open(scan) = {}
        /\ exist' \subseteq Inputs
        /\ exist' # {} => key' \in Tuple(job.nm) /\ \A i \in exist' : ~scan[i].eof /\ Forw(scan, i).m = key'
    <3>1. \A i \in Open(scan) : scan[i].irec \in Wanted(i)
      BY <2>1, OpenScans
    <3>. QED  BY <1>0, <2>1, <3>1, GetMinKeyFacts
  <2>4. Shape'
    BY <1>0, <1>a, <1>b, <2>1, <2>3 DEF Shape
  <2>5. Standing'
    BY <1>0, <2>1, <2>3 DEF Standing, InTheGroup, Stays, Forw
  <2>6. Started' /\ KeyOK' /\ Ends'
    BY <1>0, <1>a, <1>b, <2>1, <2>2, <2>3 DEF Started, KeyOK, Ends
  <2>. QED  BY <2>2, <2>4, <2>5, <2>6 DEF OrderInv
<1>. QED  BY <1>1, <1>2, <1>3, <1>4 DEF ReportNext, StaysHere

(* Every step keeps the invariant.                                         *)
LEMMA OrderStep == OrderInv /\ [MRNext]_vars => OrderInv'
<1>. SUFFICES ASSUME OrderInv, [MRNext]_vars PROVE OrderInv'
  OBVIOUS
<1>1. CASE MergeNext
  BY <1>1, OrderMerge
<1>2. CASE ReportNext /\ UNCHANGED mVars
  BY <1>2, OrderReport
<1>3. CASE UNCHANGED vars
  <2>1. UNCHANGED <<job, pc, at, scan, start, exist, key>>
    BY <1>3 DEF vars, inVars, mVars
  <2>. QED
    BY <2>1, JobSame
    DEF OrderInv, Shape, ScanOK, SeenInOrder, Standing, InTheGroup, Stays, Forw, Started, KeyOK, Ends,
        Open
<1>. QED  BY <1>1, <1>2, <1>3 DEF MRNext, Ended

LEMMA OrderAlways == Spec => []OrderInv
BY OrderInit, OrderStep, PTL DEF Spec

(* The invariant says so: at the end every scan stands behind the last     *)
(* record, and all that was read was in order.                             *)
LEMMA OrderSays == OrderInv => UnsortedRefused
<1>. SUFFICES ASSUME OrderInv PROVE UnsortedRefused
  OBVIOUS
<1>1. pc = "refused" => ~AllInOrder
  BY DEF OrderInv, Ends
<1>2. ASSUME pc = "done", ~Single PROVE AllInOrder
  <2>. SUFFICES ASSUME NEW i \in Inputs, NEW g \in Wanted(i), NEW h \in Wanted(i), g < h
                PROVE  ~Less(Of(i, h).m, Of(i, g).m)
    BY DEF AllInOrder, InOrder
  <2>1. scan[i].eof /\ scan[i].irec = NRecs(i)
    BY <1>2 DEF OrderInv, Ends, Open, ScanOK
  <2>2. h <= NRecs(i)
    BY WantedFacts DEF OrderInv, Shape
  <2>. QED  BY <1>2, <2>1, <2>2 DEF OrderInv, SeenInOrder
<1>. QED  BY <1>1, <1>2 DEF UnsortedRefused, Single

(* No merge, and no report on several inputs, comes to its end with an     *)
(* input that is not in order, and none is refused without one: whatever   *)
(* the inputs hold (Merge.cpp MergeProc and JoinProc, Report.cpp           *)
(* MergeProc; error 607).                                                  *)
THEOREM UnsortedInputsRefused == Spec => []UnsortedRefused
BY OrderAlways, OrderSays, PTL

(***************************************************************************)
(* What a merge writes: the invariant.                                     *)
(***************************************************************************)

(* The records of an input whose turn has come.                            *)
Dealt(i) == {n \in Wanted(i) : scan[i].eof \/ n < scan[i].irec}

(* Outside of a group.                                                     *)
Outside == {"open", "group", "done"}

(* The written groups whose end has come.                                  *)
KeysDone ==
  IF pc \in Outside THEN {k \in GroupKeys : \E i \in Inputs : \E n \in Dealt(i) : Of(i, n).m = k}
                   ELSE {k \in GroupKeys : Less(k, key)}

(* Between two groups: what was dealt with before what is to come.         *)
Between ==
  /\ \A i, j \in Inputs : \A g \in Dealt(i), h \in Wanted(j) \ Dealt(j) : Less(Of(i, g).m, Of(j, h).m)
  /\ (\A i \in Inputs : Dealt(i) = {}) => \A i \in Inputs : count[i] = 0

(* The scan of an input is within the group, or has passed it.             *)
Within(i) ==
  /\ \A n \in Dealt(i) : Of(i, n).m = key \/ Less(Of(i, n).m, key)
  /\ \A n \in Wanted(i) \ Dealt(i) : Of(i, n).m = key \/ Less(key, Of(i, n).m)
Behold(i) ==
  /\ \A n \in Dealt(i) : Of(i, n).m = key \/ Less(Of(i, n).m, key)
  /\ \A n \in Wanted(i) \ Dealt(i) : Less(key, Of(i, n).m)

(* Formulas see the last record of the group.                              *)
SeesLast(i) ==
  /\ rec[i] = [n |-> LastOf(i, key), m |-> key]
  /\ count[i] = Cardinality(With(i, key))

GroupOpen ==
  /\ key \in AllKeys
  /\ \A i \in Inputs : i \in exist <=> With(i, key) # {}
  /\ sum = [i \in Inputs |-> <<SumTo(ShownOf(i, group), Len(out))>>]

(* A plain merge: the inputs before at have passed the group, the records  *)
(* of input at are dealt with up to the one read ahead.                    *)
MergeIn ==
  /\ at \in 1 .. MaxIi + 1
  /\ \A i \in Inputs : i < at  => Behold(i) /\ SeesLast(i)
  /\ \A i \in Inputs : i >= at => Within(i) /\ count[i] = Cardinality(Dealt(i) \cap With(i, key))
  /\ \A i \in Inputs : i > at  => Dealt(i) \cap With(i, key) = {}
Merged == (UNION {{Taken(i, n) : n \in Dealt(i)} : i \in Inputs}) \cup {End(k) : k \in KeysDone}

(* A join: the combinations up to the one at hand.                         *)
Under(c, a) == \E j \in 1 .. a : c[j] < rec[j].n /\ \A h \in 1 .. j - 1 : c[h] = rec[h].n
Same(c, a)  == \A j \in 1 .. a : c[j] = rec[j].n
Shown(c)    == Under(c, IF pc = "down" THEN at - 1 ELSE at) \/ (pc = "up" /\ Same(c, at))

SeesHere(i) ==
  IF i \in exist THEN /\ rec[i] = [n |-> scan[i].irec, m |-> key]
                      /\ count[i] = CountTo(i, key, scan[i].irec)
                 ELSE rec[i] = [n |-> 0, m |-> key]
JoinIn ==
  /\ IF pc = "down" THEN at \in 1 .. MaxIi + 1 ELSE at \in 0 .. MaxIi
  /\ \A i \in Inputs \ exist : Behold(i)
  /\ \A i \in exist : start[i] \in With(i, key) /\ \A n \in With(i, key) : start[i] <= n
  /\ \A i \in Inputs : i < at \/ (pc = "up" /\ i = at) => SeesHere(i)
  /\ pc = "up" => \A i \in exist : i > at => Behold(i) /\ SeesLast(i)
  /\ empty => exist # Inputs
  /\ \A i \in Inputs \ exist : empty \/ (pc = "down" /\ i >= at)
Joined ==
  (UNION {{Entry(MaxIi, k, c) : c \in Picks(k)} : k \in KeysDone}) \cup {End(k) : k \in KeysDone}
  \cup (IF pc \in Outside \/ key \notin GroupKeys THEN {}
        ELSE {Entry(MaxIi, key, c) : c \in {d \in Picks(key) : Shown(d)}})

(* What was written, with the sums at the ends of the groups.              *)
Values ==
  /\ group \in Nat \ {0}
  /\ rec \in [Inputs -> [n : Nat, m : Tuple(job.nm) \cup {<<>>}]]
  /\ count \in [Inputs -> Nat]
  /\ \E S : out \in Seq(S)

(* The input whose outputs SUM sums up: its own, in a join the last.       *)
OutputOf(i) == IF job.kind = "join" THEN MaxIi ELSE i

(* Nothing was written of a group: there is none, or an input lacks it.     *)
NoneOf == pc \in Outside \/ key \notin GroupKeys
ShowsRecords ==
  \A q \in DOMAIN out :
    /\ out[q].group \in Nat /\ out[q].group <= group
    /\ NoneOf => out[q].group < group
    /\ \A i \in Inputs : out[q].o = OutputOf(i) => out[q].recs[i].n \in Wanted(i)
EndSums ==
  \A p \in DOMAIN out : \A g \in Nat : out[p].o = 0 /\ out[p].group = g =>
    out[p].sum = [i \in Inputs |-> <<SumTo(ShownOf(i, g), p)>>]
Right(o, S) ==
  /\ {Bare(o[p]) : p \in DOMAIN o} = S
  /\ \A p, q \in DOMAIN o : p < q => Before(o[p], o[q])

Always ==
  /\ Values /\ ShowsRecords /\ EndSums
  /\ Cardinality(KeysDone) = group - 1
  /\ pc = "open" => \A i \in Inputs : Dealt(i) = {}
  /\ pc \in Outside => Between
  /\ pc \notin Outside => GroupOpen
MergedInv ==
  job.kind = "merge" /\ AllInOrder =>
    /\ Always
    /\ pc \in Outside \cup {"merge"}
    /\ pc = "merge" => MergeIn
    /\ Right(out, Merged)
JoinedInv ==
  job.kind = "join" /\ AllInOrder =>
    /\ Always
    /\ pc \in Outside \cup {"down", "up"}
    /\ pc \in {"down", "up"} => JoinIn
    /\ Right(out, Joined)

(***************************************************************************)
(* Written: the records with given match fields.                           *)
(***************************************************************************)

(* The largest of a bounded set of numbers.                                *)
LEMMA MaxFacts ==
  ASSUME NEW b \in Nat, NEW T, T \subseteq 1 .. b, T # {}
  PROVE  Max(T) \in T /\ \A y \in T : y <= Max(T)
<1>. DEFINE U == {b - x : x \in T}
<1>1. U \subseteq Nat /\ U # {}
  <2>1. \A x \in T : x \in Nat /\ x <= b /\ b - x \in Nat
    OBVIOUS
  <2>. QED  BY <2>1
<1>2. PICK u \in U : \A y \in U : u <= y
  <2>. HIDE DEF U
  <2>. QED  BY <1>1, SmallestNat
<1>3. PICK x \in T : u = b - x
  BY <1>2
<1>4. \A y \in T : x >= y
  <2>. TAKE y \in T
  <2>1. b - x <= b - y
    BY <1>2, <1>3
  <2>. QED  BY <2>1
<1>5. Max(T) \in T /\ \A y \in T : Max(T) >= y
  BY <1>4 DEF Max
<1>6. \A y \in T : y \in Nat
  OBVIOUS
<1>. QED  BY <1>5, <1>6

(* The records with given match fields, and the last one of them.          *)
LEMMA WithFacts ==
  ASSUME job \in Jobs, NEW i \in Inputs, NEW k
  PROVE  /\ With(i, k) \subseteq Wanted(i) /\ With(i, k) \subseteq 1 .. NRecs(i) /\ NRecs(i) \in Nat
         /\ \A n \in With(i, k) : n \in Nat /\ Of(i, n).m = k
         /\ With(i, k) = {} => LastOf(i, k) = 0
         /\ With(i, k) # {} => LastOf(i, k) \in With(i, k)
         /\ \A n \in With(i, k) : n <= LastOf(i, k)
         /\ LastOf(i, k) \in Nat
<1>1. With(i, k) \subseteq Wanted(i) /\ With(i, k) \subseteq 1 .. NRecs(i) /\ NRecs(i) \in Nat
  BY WantedFacts DEF With
<1>2. \A n \in With(i, k) : n \in Nat /\ Of(i, n).m = k
  BY <1>1 DEF With
<1>3. With(i, k) = {} => LastOf(i, k) = 0
  BY DEF LastOf
<1>4. With(i, k) # {} => LastOf(i, k) \in With(i, k) /\ \A n \in With(i, k) : n <= LastOf(i, k)
  BY <1>1, MaxFacts DEF LastOf
<1>. QED  BY <1>1, <1>2, <1>3, <1>4

(* Counts of them.                                                         *)
LEMMA CountFacts ==
  ASSUME job \in Jobs, NEW i \in Inputs, NEW k
  PROVE  /\ IsFiniteSet(With(i, k))
         /\ \A T \in SUBSET With(i, k) : IsFiniteSet(T) /\ Cardinality(T) \in Nat
         /\ \A n : CountTo(i, k, n) \in Nat
         /\ CountTo(i, k, LastOf(i, k)) = Cardinality(With(i, k))
         /\ With(i, k) = {} => Cardinality(With(i, k)) = 0
<1>1. IsFiniteSet(With(i, k))
  <2>1. NRecs(i) \in Nat /\ With(i, k) \in SUBSET (1 .. NRecs(i))
    BY WithFacts
  <2>2. IsFiniteSet(1 .. NRecs(i))
    BY <2>1, FS_Interval
  <2>. QED  BY <2>1, <2>2, FS_Subset
<1>2. \A T \in SUBSET With(i, k) : IsFiniteSet(T) /\ Cardinality(T) \in Nat
  BY <1>1, FS_Subset, FS_CardinalityType
<1>3. \A n : CountTo(i, k, n) \in Nat
  BY <1>2 DEF CountTo
<1>4. {p \in With(i, k) : p <= LastOf(i, k)} = With(i, k)
  BY WithFacts
<1>. QED  BY <1>1, <1>2, <1>3, <1>4, FS_EmptySet DEF CountTo

(***************************************************************************)
(* Written: the groups and their numbers.                                  *)
(***************************************************************************)

LEMMA KeyFacts ==
  ASSUME job \in Jobs
  PROVE  /\ \A k : k \in AllKeys <=> \E i \in Inputs : With(i, k) # {}
         /\ \A i \in Inputs : \A n \in Wanted(i) : Of(i, n).m \in AllKeys
         /\ \A k \in AllKeys : k \in Tuple(job.nm)
         /\ GroupKeys \subseteq AllKeys
         /\ job.kind = "merge" => GroupKeys = AllKeys
         /\ job.kind = "join" => \A k : k \in GroupKeys <=> \A i \in Inputs : With(i, k) # {}
         /\ IsFiniteSet(GroupKeys)
<1>1. \A k : k \in AllKeys <=> \E i \in Inputs : With(i, k) # {}
  BY DEF AllKeys, With
<1>2. \A i \in Inputs : \A n \in Wanted(i) : Of(i, n).m \in AllKeys
  BY DEF AllKeys
<1>3. \A k \in AllKeys : k \in Tuple(job.nm)
  BY WantedFacts DEF AllKeys
<1>4. GroupKeys \subseteq AllKeys /\ (job.kind = "merge" => GroupKeys = AllKeys)
  BY DEF GroupKeys
<1>5. job.kind = "join" => \A k : k \in GroupKeys <=> \A i \in Inputs : With(i, k) # {}
  <2>1. 1 \in Inputs
    <3>1. Inputs = 1 .. MaxIi /\ MaxIi \in 1 .. 9
      BY JobFacts
    <3>. QED  BY <3>1
  <2>. QED  BY <1>1, <2>1 DEF GroupKeys
<1>6. IsFiniteSet(AllKeys)
  <2>. DEFINE K(i) == {Of(i, n).m : n \in Wanted(i)}
              KS   == {K(i) : i \in Inputs}
  <2>1. ASSUME NEW i \in Inputs PROVE IsFiniteSet(K(i))
    <3>. DEFINE f == [n \in Wanted(i) |-> Of(i, n).m]
    <3>1. IsFiniteSet(Wanted(i))
      <4>1. NRecs(i) \in Nat /\ Wanted(i) \in SUBSET (1 .. NRecs(i)) /\ IsFiniteSet(1 .. NRecs(i))
        BY WantedFacts, FS_Interval
      <4>. QED  BY <4>1, FS_Subset
    <3>2. f \in Surjection(Wanted(i), K(i))
      BY DEF Surjection
    <3>. HIDE DEF f, K
    <3>. QED  BY <3>1, <3>2, FS_Surjection
  <2>2. IsFiniteSet(KS)
    <3>. DEFINE f == [i \in Inputs |-> K(i)]
    <3>1. IsFiniteSet(Inputs)
      <4>1. Inputs = 1 .. MaxIi /\ 1 \in Int /\ MaxIi \in Int
        BY JobFacts
      <4>. QED  BY <4>1, FS_Interval
    <3>2. f \in Surjection(Inputs, KS)
      <4>. HIDE DEF K
      <4>. QED  BY DEF Surjection
    <3>. HIDE DEF f, KS
    <3>. QED  BY <3>1, <3>2, FS_Surjection
  <2>3. \A T \in KS : IsFiniteSet(T)
    <3>. HIDE DEF K
    <3>. QED  BY <2>1
  <2>4. IsFiniteSet(UNION KS)
    <3>. HIDE DEF KS
    <3>. QED  BY <2>2, <2>3, FS_UNION
  <2>. QED  BY <2>4 DEF AllKeys
<1>7. IsFiniteSet(GroupKeys)
  BY <1>4, <1>6, FS_Subset
<1>. QED  BY <1>1, <1>2, <1>3, <1>4, <1>5, <1>7

(* Later groups have larger numbers; the number of a group counts those    *)
(* before it.                                                              *)
LEMMA NrFacts ==
  ASSUME job \in Jobs
  PROVE  /\ \A k : Nr(k) \in Nat
         /\ \A k, l \in GroupKeys : Less(k, l) => Nr(k) < Nr(l)
         /\ \A k \in GroupKeys : Nr(k) = Cardinality({l \in GroupKeys : Less(l, k)}) + 1
<1>0. /\ IsFiniteSet(GroupKeys) /\ job.nm \in Nat
      /\ \A k \in GroupKeys : k \in Tuple(job.nm)
  BY KeyFacts, JobFacts
<1>. DEFINE upto(k) == {l \in GroupKeys : ~Less(k, l)}
            below(k) == {l \in GroupKeys : Less(l, k)}
<1>1. ASSUME NEW k PROVE /\ IsFiniteSet(upto(k)) /\ Cardinality(upto(k)) \in Nat
                         /\ IsFiniteSet(below(k)) /\ Cardinality(below(k)) \in Nat
  BY <1>0, FS_Subset, FS_CardinalityType
<1>2. \A k : Nr(k) = Cardinality(upto(k))
  BY DEF Nr
<1>3. ASSUME NEW k \in GroupKeys, NEW l \in GroupKeys, Less(k, l)
      PROVE  Cardinality(upto(k)) < Cardinality(upto(l))
  <2>1. upto(k) \subseteq upto(l)
    <3>. SUFFICES ASSUME NEW x \in GroupKeys, ~Less(k, x), Less(l, x) PROVE FALSE
      OBVIOUS
    <3>. QED  BY <1>0, <1>3, LessOrder
  <2>2. l \in upto(l) /\ l \notin upto(k)
    BY <1>0, <1>3, LessOrder
  <2>. HIDE DEF upto
  <2>3. /\ Cardinality(upto(k)) <= Cardinality(upto(l))
        /\ Cardinality(upto(l)) = Cardinality(upto(k)) => upto(l) = upto(k)
    <3>1. upto(k) \in SUBSET upto(l) /\ IsFiniteSet(upto(l))
      BY <1>1, <2>1
    <3>2. \A S, T : IsFiniteSet(S) /\ T \in SUBSET S =>
            Cardinality(T) <= Cardinality(S) /\ (Cardinality(S) = Cardinality(T) => S = T)
      BY FS_Subset
    <3>. QED  BY <3>1, <3>2
  <2>4. Cardinality(upto(k)) \in Nat /\ Cardinality(upto(l)) \in Nat
    BY <1>1
  <2>5. upto(l) # upto(k)
    BY <2>2
  <2>. QED  BY <2>3, <2>4, <2>5
<1>4. ASSUME NEW k \in GroupKeys PROVE Cardinality(upto(k)) = Cardinality(below(k)) + 1
  <2>1. upto(k) = below(k) \cup {k} /\ k \notin below(k)
    <3>1. \A l \in GroupKeys : ~Less(k, l) <=> Less(l, k) \/ l = k
      BY <1>0, LessOrder
    <3>2. ~Less(k, k)
      BY <1>0, LessOrder
    <3>. QED  BY <3>1, <3>2
  <2>. HIDE DEF upto, below
  <2>. QED  BY <1>1, <2>1, FS_AddElement
<1>. HIDE DEF upto
<1>. QED  BY <1>1, <1>2, <1>3, <1>4

(***************************************************************************)
(* Written: sequences and sums.                                            *)
(***************************************************************************)

LEMMA AppendFacts ==
  ASSUME NEW S, NEW s \in Seq(S), NEW x, NEW t, t = Append(s, x)
  PROVE  /\ Len(s) \in Nat /\ Len(t) = Len(s) + 1
         /\ DOMAIN s = 1 .. Len(s) /\ DOMAIN t = 1 .. Len(s) + 1
         /\ \A p \in 1 .. Len(s) : t[p] = s[p]
         /\ t[Len(s) + 1] = x
         /\ t \in Seq(S \cup {x})
<1>1. s \in Seq(S \cup {x}) /\ x \in S \cup {x}
  OBVIOUS
<1>. QED  BY <1>1

(* The first elements of a tuple.                                          *)
LEMMA FirstOnes ==
  ASSUME NEW n \in Nat, NEW S, NEW f \in [1 .. n -> S], NEW i \in 1 .. n
  PROVE  SubSeq(f, 1, i) = [j \in 1 .. i |-> f[j]]
<1>1. f \in Seq(S) /\ Len(f) = n
  OBVIOUS
<1>2. SubSeq(f, 1, i) = [j \in 1 .. (i - 1 + 1) |-> f[1 + j - 1]]
  BY <1>1
<1>. QED  BY <1>2

(* A sum of nothing but zeros.                                             *)
LEMMA SumOfZeros ==
  ASSUME NEW f, \A q \in DOMAIN f : f[q] = 0, NEW p \in Nat
  PROVE  SumTo(f, p) = 0
<1>0. \A q \in DOMAIN f : f[q] \in Nat
  OBVIOUS
<1>. DEFINE N == {n \in Nat : SumTo(f, n) = 0}
<1>1. 0 \in N
  BY <1>0, SumSteps
<1>2. \A n \in Nat : n \in N => n + 1 \in N
  <2>. SUFFICES ASSUME NEW n \in Nat, n \in N PROVE SumTo(f, n + 1) = 0
    OBVIOUS
  <2>1. SumTo(f, n + 1) = SumTo(f, n) + ValueAt(f, n + 1)
    BY <1>0, SumSteps
  <2>2. ValueAt(f, n + 1) = 0
    BY DEF ValueAt
  <2>. QED  BY <2>1, <2>2
<1>. QED
  <2>. HIDE DEF N
  <2>1. \A n \in Nat : n \in N
    BY <1>1, <1>2, NatSet
  <2>. QED  BY <2>1 DEF N

(***************************************************************************)
(* Written: what a step does to the records dealt with.                    *)
(***************************************************************************)

(* More that is told from the job alone.                                   *)
LEMMA JobSaysSame ==
  ASSUME job' = job
  PROVE  /\ \A i, k : With(i, k)' = With(i, k) /\ LastOf(i, k)' = LastOf(i, k)
         /\ \A i, k, n : CountTo(i, k, n)' = CountTo(i, k, n)
         /\ AllKeys' = AllKeys /\ GroupKeys' = GroupKeys
         /\ \A k : Nr(k)' = Nr(k) /\ End(k)' = End(k) /\ Picks(k)' = Picks(k)
         /\ \A o, k, c : Entry(o, k, c)' = Entry(o, k, c)
         /\ \A i, n : Taken(i, n)' = Taken(i, n)
<1>1. \A i, k : With(i, k)' = With(i, k)
  BY JobSame DEF With
<1>2. \A i, k : LastOf(i, k)' = LastOf(i, k)
  BY <1>1 DEF LastOf
<1>3. \A i, k, n : CountTo(i, k, n)' = CountTo(i, k, n)
  BY <1>1 DEF CountTo
<1>4. AllKeys' = AllKeys
  BY JobSame DEF AllKeys
<1>5. GroupKeys' = GroupKeys
  BY <1>1, <1>4, JobSame DEF GroupKeys
<1>6. \A k : Nr(k)' = Nr(k)
  BY <1>5 DEF Nr
<1>7. \A o, k, c : Entry(o, k, c)' = Entry(o, k, c)
  BY <1>3, <1>6 DEF Entry
<1>8. \A k : End(k)' = End(k)
  BY <1>2, <1>7, JobSame DEF End
<1>9. \A k : Picks(k)' = Picks(k)
  BY <1>1, JobSame DEF Picks
<1>10. \A i, n : Taken(i, n)' = Taken(i, n)
  BY <1>2, <1>7, JobSame DEF Taken
<1>. QED  BY <1>1, <1>2, <1>3, <1>4, <1>5, <1>6, <1>7, <1>8, <1>9, <1>10

(* The records dealt with are those before the one read ahead.             *)
LEMMA DealtFacts ==
  ASSUME OrderInv, AllInOrder, pc # "open", NEW i \in Inputs
  PROVE  /\ Dealt(i) \subseteq Wanted(i)
         /\ scan[i].eof => Dealt(i) = Wanted(i)
         /\ ~scan[i].eof =>
              /\ scan[i].irec \in Wanted(i) \ Dealt(i)
              /\ Forw(scan, i).m = Of(i, scan[i].irec).m
              /\ \A n \in Dealt(i) : /\ n < scan[i].irec
                                     /\ ~Less(Forw(scan, i).m, Of(i, n).m)
              /\ \A n \in Wanted(i) \ Dealt(i) : /\ scan[i].irec <= n
                                                 /\ ~Less(Of(i, n).m, Forw(scan, i).m)
<1>1. job \in Jobs /\ scan[i] \in [irec : Nat, eof : BOOLEAN]
  BY DEF OrderInv, Shape
<1>2. /\ Wanted(i) \subseteq Nat /\ job.nm \in Nat
      /\ \A n \in Wanted(i) : Of(i, n).m \in Tuple(job.nm)
  BY <1>1, WantedFacts
<1>3. \A g, h \in Wanted(i) : g < h => ~Less(Of(i, h).m, Of(i, g).m)
  BY DEF AllInOrder, InOrder
<1>4. Dealt(i) \subseteq Wanted(i) /\ (scan[i].eof => Dealt(i) = Wanted(i))
  BY DEF Dealt
<1>5. ASSUME ~scan[i].eof
      PROVE  /\ scan[i].irec \in Wanted(i) \ Dealt(i)
             /\ Forw(scan, i).m = Of(i, scan[i].irec).m
             /\ \A n \in Dealt(i) : n < scan[i].irec
             /\ \A n \in Wanted(i) \ Dealt(i) : scan[i].irec <= n
  <2>1. scan[i].irec \in Wanted(i)
    BY <1>5 DEF OrderInv, ScanOK
  <2>2. Dealt(i) = {n \in Wanted(i) : n < scan[i].irec}
    BY <1>5 DEF Dealt
  <2>. QED  BY <1>1, <1>2, <2>1, <2>2 DEF Forw, Of
<1>6. ASSUME ~scan[i].eof, NEW n \in Wanted(i), scan[i].irec <= n
      PROVE  ~Less(Of(i, n).m, Of(i, scan[i].irec).m)
  <2>1. scan[i].irec \in Wanted(i) /\ scan[i].irec \in Nat /\ n \in Nat
    BY <1>2, <1>5, <1>6
  <2>2. CASE n = scan[i].irec
    BY <1>2, <2>1, <2>2, LessOrder
  <2>3. CASE n # scan[i].irec
    BY <1>3, <1>6, <2>1, <2>3
  <2>. QED  BY <2>2, <2>3
<1>. QED  BY <1>3, <1>4, <1>5, <1>6

(* Reading ahead deals with one more record.                               *)
LEMMA ReadDealt ==
  ASSUME OrderInv, pc # "open", NEW i \in Inputs, ~scan[i].eof, scan' = ReadInpFile(i), job' = job
  PROVE  /\ Dealt(i)' = Dealt(i) \cup {scan[i].irec}
         /\ \A j \in Inputs : j # i => Dealt(j)' = Dealt(j)
<1>1. /\ \A j \in Inputs \ {i} : scan'[j] = scan[j]
      /\ scan[i].irec \in Wanted(i) /\ scan[i].irec <= scan'[i].irec
      /\ scan'[i].eof => \A n \in Wanted(i) : n <= scan[i].irec
      /\ ~scan'[i].eof => /\ scan'[i].irec \in Wanted(i) /\ scan[i].irec < scan'[i].irec
                          /\ \A n \in Wanted(i) : n <= scan[i].irec \/ scan'[i].irec <= n
      /\ scan'[i] \in [irec : Nat, eof : BOOLEAN]
  BY ReadFacts DEF OrderInv
<1>2. Wanted(i) \subseteq Nat
  BY WantedFacts DEF OrderInv, Shape
<1>3. \A j : Wanted(j)' = Wanted(j)
  BY JobSame
<1>4. \A j \in Inputs : j # i => Dealt(j)' = Dealt(j)
  BY <1>1, <1>3 DEF Dealt
<1>5. ASSUME NEW n \in Wanted(i)
      PROVE  (scan'[i].eof \/ n < scan'[i].irec) <=> (n < scan[i].irec \/ n = scan[i].irec)
  <2>1. n \in Nat /\ scan[i].irec \in Nat /\ scan'[i].irec \in Nat
    BY <1>1, <1>2
  <2>. QED  BY <1>1, <2>1
<1>6. Dealt(i)' = Dealt(i) \cup {scan[i].irec}
  BY <1>1, <1>3, <1>5 DEF Dealt
<1>. QED  BY <1>4, <1>6

(* An input whose next record is of a later group has passed the group; one *)
(* whose next record is of the group is within it.                         *)
PassedSays ==
  OrderInv /\ AllInOrder /\ pc # "open" /\ key \in Tuple(job.nm) =>
    \A i \in Inputs : (\A n \in Dealt(i) : Of(i, n).m = key \/ Less(Of(i, n).m, key)) =>
      /\ Passed(scan, i) => Behold(i)
      /\ Stays(scan, i) => Within(i)
LEMMA PassedFacts == PassedSays
<1>. SUFFICES ASSUME OrderInv, AllInOrder, pc # "open", key \in Tuple(job.nm), NEW i \in Inputs,
                     \A n \in Dealt(i) : Of(i, n).m = key \/ Less(Of(i, n).m, key)
              PROVE  /\ Passed(scan, i) => Behold(i)
                     /\ Stays(scan, i) => Within(i)
  BY DEF PassedSays
<1>1. job.nm \in Nat /\ \A n \in Wanted(i) : Of(i, n).m \in Tuple(job.nm)
  BY WantedFacts DEF OrderInv, Shape
<1>2. /\ scan[i].eof => Dealt(i) = Wanted(i)
      /\ ~scan[i].eof => /\ Forw(scan, i).m \in Tuple(job.nm)
                         /\ \A n \in Wanted(i) \ Dealt(i) : ~Less(Of(i, n).m, Forw(scan, i).m)
  BY <1>1, DealtFacts
<1>3. ASSUME Passed(scan, i) PROVE Behold(i)
  <2>. SUFFICES ASSUME NEW n \in Wanted(i) \ Dealt(i) PROVE Less(key, Of(i, n).m)
    BY DEF Behold
  <2>1. ~scan[i].eof
    BY <1>2
  <2>2. Less(key, Forw(scan, i).m) /\ ~Less(Of(i, n).m, Forw(scan, i).m)
    BY <1>2, <1>3, <2>1 DEF Passed
  <2>. QED  BY <1>1, <1>2, <2>1, <2>2, LessOrder
<1>4. ASSUME Stays(scan, i) PROVE Within(i)
  <2>. SUFFICES ASSUME NEW n \in Wanted(i) \ Dealt(i) PROVE Of(i, n).m = key \/ Less(key, Of(i, n).m)
    BY DEF Within
  <2>1. ~scan[i].eof /\ ~Less(Of(i, n).m, key)
    BY <1>2, <1>4 DEF Stays
  <2>. QED  BY <1>1, <2>1, LessOrder
<1>. QED  BY <1>3, <1>4

(* The group that comes next: the smallest match fields of those to come.  *)
LEMMA NextGroupFacts ==
  ASSUME OrderInv, AllInOrder, Between, NextGroup
  PROVE  /\ key' \in AllKeys /\ key' \in Tuple(job.nm)
         /\ \A i \in Inputs :
              /\ i \in exist' <=> With(i, key') # {}
              /\ \A n \in Dealt(i) : Less(Of(i, n).m, key')
              /\ \A n \in Wanted(i) \ Dealt(i) : Of(i, n).m = key' \/ Less(key', Of(i, n).m)
              /\ i \notin exist' => \A n \in Wanted(i) \ Dealt(i) : Less(key', Of(i, n).m)
              /\ Dealt(i) \cap With(i, key') = {}
              /\ i \in exist' => /\ scan[i].irec \in With(i, key')
                                 /\ \A n \in With(i, key') : scan[i].irec <= n
         /\ {k \in GroupKeys : Less(k, key')} = KeysDone
<1>0. job \in Jobs /\ pc = "group" /\ Open(scan) # {} /\ key' = MinKey(scan) /\ exist' = Existing(scan)
  BY DEF OrderInv, Shape, NextGroup
<1>1. /\ job.nm \in Nat
      /\ \A i \in Inputs : \A n \in Wanted(i) : Of(i, n).m \in Tuple(job.nm)
  BY <1>0, JobFacts, WantedFacts
<1>2. /\ key' \in Tuple(job.nm)
      /\ \E i \in Open(scan) : Forw(scan, i).m = key'
      /\ \A i \in Open(scan) : Forw(scan, i).m = key' \/ Less(key', Forw(scan, i).m)
      /\ \A i \in Inputs : i \in exist' <=> ~scan[i].eof /\ Forw(scan, i).m = key'
  <2>1. \A i \in Open(scan) : scan[i].irec \in Wanted(i)
    BY <1>0, OpenScans
  <2>. QED  BY <1>0, <2>1, MinKeyFacts, GroupFacts
<1>3. \A i \in Inputs :
        /\ Dealt(i) \subseteq Wanted(i)
        /\ scan[i].eof => Dealt(i) = Wanted(i)
        /\ ~scan[i].eof => /\ scan[i].irec \in Wanted(i) \ Dealt(i)
                           /\ Forw(scan, i).m = Of(i, scan[i].irec).m
                           /\ \A n \in Wanted(i) \ Dealt(i) : /\ scan[i].irec <= n
                                                              /\ ~Less(Of(i, n).m, Forw(scan, i).m)
  BY <1>0, DealtFacts
<1>4. PICK m \in Inputs : ~scan[m].eof /\ Forw(scan, m).m = key'
  BY <1>2 DEF Open
<1>5. ASSUME NEW i \in Inputs, NEW n \in Dealt(i) PROVE Less(Of(i, n).m, key')
  BY <1>3, <1>4 DEF Between
<1>6. ASSUME NEW i \in Inputs, NEW n \in Wanted(i) \ Dealt(i)
      PROVE  /\ Of(i, n).m = key' \/ Less(key', Of(i, n).m)
             /\ ~scan[i].eof
             /\ Of(i, n).m = key' => Forw(scan, i).m = key'
  <2>1. ~scan[i].eof /\ i \in Open(scan)
    BY <1>3 DEF Open
  <2>2. /\ Forw(scan, i).m \in Tuple(job.nm)
        /\ Forw(scan, i).m = key' \/ Less(key', Forw(scan, i).m)
        /\ ~Less(Of(i, n).m, Forw(scan, i).m)
    BY <1>1, <1>2, <1>3, <2>1
  <2>. QED  BY <1>1, <1>2, <2>1, <2>2, LessOrder
<1>7. \A i \in Inputs : Dealt(i) \cap With(i, key') = {}
  <2>. SUFFICES ASSUME NEW i \in Inputs, NEW n \in Dealt(i), Of(i, n).m = key' PROVE FALSE
    BY DEF With
  <2>. QED  BY <1>1, <1>2, <1>5, LessOrder
<1>8. \A i \in Inputs : i \in exist' => /\ scan[i].irec \in With(i, key')
                                        /\ \A n \in With(i, key') : scan[i].irec <= n
  BY <1>2, <1>3, <1>7 DEF With
<1>9. \A i \in Inputs : i \in exist' <=> With(i, key') # {}
  <2>. SUFFICES ASSUME NEW i \in Inputs, NEW n \in With(i, key') PROVE i \in exist'
    BY <1>8
  <2>1. n \in Wanted(i) \ Dealt(i) /\ Of(i, n).m = key'
    BY <1>7 DEF With
  <2>. QED  BY <1>2, <1>6, <2>1
<1>10. \A i \in Inputs : i \notin exist' => \A n \in Wanted(i) \ Dealt(i) : Less(key', Of(i, n).m)
  BY <1>2, <1>6
<1>11. key' \in AllKeys
  BY <1>3, <1>4 DEF AllKeys
<1>12. {k \in GroupKeys : Less(k, key')} = KeysDone
  <2>1. ASSUME NEW k \in GroupKeys
        PROVE  Less(k, key') <=> \E i \in Inputs : \E n \in Dealt(i) : Of(i, n).m = k
    <3>1. PICK i \in Inputs : \E n \in Wanted(i) : Of(i, n).m = k
      BY <1>0, KeyFacts DEF With
    <3>2. PICK n \in Wanted(i) : Of(i, n).m = k
      BY <3>1
    <3>3. ASSUME Less(k, key') PROVE n \in Dealt(i)
      BY <1>1, <1>2, <1>6, <3>2, <3>3, LessOrder
    <3>. QED  BY <1>5, <3>2, <3>3
  <2>. QED  BY <1>0, <2>1 DEF KeysDone, Outside
<1>. QED  BY <1>2, <1>5, <1>6, <1>7, <1>8, <1>9, <1>10, <1>11, <1>12

(* The group ends: all inputs have passed it.                              *)
LEMMA GroupEndFacts ==
  ASSUME OrderInv, key \in Tuple(job.nm), \A i \in Inputs : Behold(i), pc # "open", AllInOrder
  PROVE  /\ \A i, j \in Inputs : \A g \in Dealt(i), h \in Wanted(j) \ Dealt(j) : Less(Of(i, g).m, Of(j, h).m)
         /\ \A i \in Inputs : With(i, key) \subseteq Dealt(i)
         /\ \A k \in GroupKeys :
              (\E i \in Inputs : \E n \in Dealt(i) : Of(i, n).m = k) <=> (Less(k, key) \/ k = key)
<1>0. /\ job \in Jobs /\ job.nm \in Nat
      /\ \A i \in Inputs : Dealt(i) \subseteq Wanted(i) /\ \A n \in Wanted(i) : Of(i, n).m \in Tuple(job.nm)
  BY WantedFacts, DealtFacts, JobFacts DEF OrderInv, Shape
<1>1. \A i, j \in Inputs : \A g \in Dealt(i), h \in Wanted(j) \ Dealt(j) : Less(Of(i, g).m, Of(j, h).m)
  BY <1>0, LessOrder DEF Behold
<1>2. \A i \in Inputs : With(i, key) \subseteq Dealt(i)
  BY <1>0, LessOrder DEF With, Behold
<1>3. ASSUME NEW k \in GroupKeys
      PROVE  (\E i \in Inputs : \E n \in Dealt(i) : Of(i, n).m = k) <=> (Less(k, key) \/ k = key)
  <2>1. PICK i \in Inputs : \E n \in Wanted(i) : Of(i, n).m = k
    BY <1>0, KeyFacts DEF With
  <2>2. PICK n \in Wanted(i) : Of(i, n).m = k
    BY <2>1
  <2>3. ASSUME Less(k, key) \/ k = key PROVE n \in Dealt(i)
    BY <1>0, <2>2, <2>3, LessOrder DEF Behold
  <2>4. ASSUME NEW j \in Inputs, NEW h \in Dealt(j), Of(j, h).m = k PROVE Less(k, key) \/ k = key
    BY <2>4 DEF Behold
  <2>. QED  BY <2>2, <2>3, <2>4
<1>. QED  BY <1>1, <1>2, <1>3

(***************************************************************************)
(* Written: one more output.                                               *)
(***************************************************************************)

(* What one more output adds to the sums.                                  *)
LEMMA SumGrows ==
  ASSUME job \in Jobs, job' = job, NEW S, out \in Seq(S), NEW e, out' = Append(out, e),
         \A q \in DOMAIN out : \A i \in Inputs : out[q].o = OutputOf(i) => out[q].recs[i].n \in Wanted(i),
         \A i \in Inputs : e.o = OutputOf(i) => e.recs[i].n \in Wanted(i)
  PROVE  \A g : \A i \in Inputs :
           /\ \A p \in 0 .. Len(out) : SumTo(ShownOf(i, g)', p) = SumTo(ShownOf(i, g), p)
           /\ \A p \in Nat : SumTo(ShownOf(i, g), p) \in Nat
           /\ SumTo(ShownOf(i, g)', Len(out) + 1) =
                SumTo(ShownOf(i, g), Len(out)) + (IF e.group = g /\ e.o = OutputOf(i) THEN Of(i, e.recs[i].n).v ELSE 0)
<1>. TAKE g
<1>. TAKE i \in Inputs
<1>1. /\ Len(out) \in Nat /\ DOMAIN out = 1 .. Len(out) /\ DOMAIN out' = 1 .. Len(out) + 1
      /\ \A p \in 1 .. Len(out) : out'[p] = out[p]
      /\ out'[Len(out) + 1] = e
  BY AppendFacts
<1>2. \A n \in Wanted(i) : Of(i, n).v \in Nat
  BY WantedFacts
<1>. DEFINE f == ShownOf(i, g)
            h == ShownOf(i, g)'
            shown(x) == IF x.group = g /\ x.o = OutputOf(i) THEN Of(i, x.recs[i].n).v ELSE 0
<1>3. f = [q \in 1 .. Len(out) |-> shown(out[q])]
  BY <1>1 DEF ShownOf, OutputOf
<1>4. h = [q \in 1 .. Len(out) + 1 |-> shown(out'[q])]
  BY <1>1, JobSame DEF ShownOf, OutputOf
<1>5. \A q \in 1 .. Len(out) : shown(out[q]) \in Nat
  BY <1>1, <1>2
<1>6. shown(e) \in Nat
  BY <1>2
<1>. HIDE DEF f, h, shown
<1>7. DOMAIN f = 1 .. Len(out) /\ \A q \in DOMAIN f : f[q] \in Nat
  BY <1>3, <1>5
<1>8. /\ DOMAIN h = 1 .. Len(out) + 1
      /\ \A q \in 1 .. Len(out) : h[q] = f[q]
      /\ h[Len(out) + 1] = shown(e)
  BY <1>1, <1>3, <1>4
<1>9. \A q \in DOMAIN h : h[q] \in Nat
  <2>. SUFFICES ASSUME NEW q \in 1 .. Len(out) + 1 PROVE h[q] \in Nat
    BY <1>8
  <2>1. q \in 1 .. Len(out) \/ q = Len(out) + 1
    BY <1>1
  <2>. QED  BY <1>6, <1>7, <1>8, <2>1
<1>10. ASSUME NEW p \in 0 .. Len(out) PROVE SumTo(h, p) = SumTo(f, p)
  <2>1. p \in Nat /\ \A q \in 1 .. p : q \in 1 .. Len(out)
    BY <1>1
  <2>2. \A q \in 1 .. p : ValueAt(h, q) = ValueAt(f, q)
    <3>. TAKE q \in 1 .. p
    <3>1. q \in DOMAIN f /\ q \in DOMAIN h /\ h[q] = f[q]
      BY <1>1, <1>7, <1>8, <2>1
    <3>. QED  BY <3>1 DEF ValueAt
  <2>. QED  BY <1>7, <1>9, <2>1, <2>2, SumAgree
<1>11. \A p \in Nat : SumTo(f, p) \in Nat
  BY <1>7, SumSteps
<1>12. SumTo(h, Len(out) + 1) = SumTo(f, Len(out)) + shown(e)
  <2>1. SumTo(h, Len(out) + 1) = SumTo(h, Len(out)) + ValueAt(h, Len(out) + 1)
    BY <1>1, <1>9, SumSteps
  <2>2. ValueAt(h, Len(out) + 1) = shown(e)
    BY <1>1, <1>8 DEF ValueAt
  <2>3. SumTo(h, Len(out)) = SumTo(f, Len(out))
    BY <1>1, <1>10
  <2>. QED  BY <2>1, <2>2, <2>3
<1>13. /\ \A p \in 0 .. Len(out) : SumTo(h, p) = SumTo(f, p)
       /\ \A p \in Nat : SumTo(f, p) \in Nat
       /\ SumTo(h, Len(out) + 1) = SumTo(f, Len(out)) + shown(e)
  BY <1>10, <1>11, <1>12
<1>. QED  BY <1>13 DEF f, h, shown

(* Nothing was shown yet of a group that only begins.                      *)
LEMMA NothingShown ==
  ASSUME NEW S, out \in Seq(S), NEW i, NEW g, \A q \in DOMAIN out : out[q].group # g
  PROVE  SumTo(ShownOf(i, g), Len(out)) = 0
<1>1. Len(out) \in Nat /\ DOMAIN ShownOf(i, g) = DOMAIN out
  BY DEF ShownOf
<1>2. \A q \in DOMAIN out : ShownOf(i, g)[q] = 0
  BY DEF ShownOf
<1>. QED  BY <1>1, <1>2, SumOfZeros

(* What was written stays right, and so do the sums.                       *)
LEMMA OutGrows ==
  ASSUME NEW S, out \in Seq(S), NEW e, out' = Append(out, e), NEW D, Right(out, D),
         \A d \in D : Before(d, Bare(e))
  PROVE  Right(out', D \cup {Bare(e)})
<1>1. /\ Len(out) \in Nat /\ DOMAIN out = 1 .. Len(out) /\ DOMAIN out' = 1 .. Len(out) + 1
      /\ \A p \in 1 .. Len(out) : out'[p] = out[p]
      /\ out'[Len(out) + 1] = e
  BY AppendFacts
<1>2. \A x, y : Before(x, y) <=> Before(Bare(x), Bare(y))
  BY DEF Before, Bare, Numbers
<1>3. \A x \in DOMAIN out : Bare(out[x]) \in D
  BY DEF Right
<1>. HIDE DEF Bare
<1>4. {Bare(out'[p]) : p \in DOMAIN out'} = D \cup {Bare(e)}
  <2>1. \A p \in DOMAIN out' : p \in DOMAIN out \/ p = Len(out) + 1
    BY <1>1
  <2>2. \A p \in DOMAIN out : p \in DOMAIN out'
    BY <1>1
  <2>3. Len(out) + 1 \in DOMAIN out'
    BY <1>1
  <2>4. {Bare(out[p]) : p \in DOMAIN out} = D
    BY DEF Right
  <2>5. \A p \in DOMAIN out : out'[p] = out[p]
    BY <1>1
  <2>. HIDE DEF Right
  <2>6. ASSUME NEW x PROVE x \in {Bare(out'[p]) : p \in DOMAIN out'} <=> x \in D \/ x = Bare(e)
    <3>1. ASSUME NEW p \in DOMAIN out', x = Bare(out'[p]) PROVE x \in D \/ x = Bare(e)
      BY <1>1, <1>3, <2>1, <2>5, <3>1
    <3>2. ASSUME x \in D PROVE \E p \in DOMAIN out' : x = Bare(out'[p])
      <4>1. PICK p \in DOMAIN out : x = Bare(out[p])
        BY <2>4, <3>2
      <4>. QED  BY <2>2, <2>5, <4>1
    <3>3. ASSUME x = Bare(e) PROVE \E p \in DOMAIN out' : x = Bare(out'[p])
      BY <1>1, <2>3, <3>3
    <3>. QED  BY <3>1, <3>2, <3>3
  <2>. QED  BY <2>6
<1>5. ASSUME NEW p \in DOMAIN out', NEW q \in DOMAIN out', p < q PROVE Before(out'[p], out'[q])
  <2>1. p \in 1 .. Len(out) /\ out'[p] = out[p]
    BY <1>1, <1>5
  <2>2. CASE q \in 1 .. Len(out)
    BY <1>1, <1>5, <2>1, <2>2 DEF Right
  <2>3. CASE q = Len(out) + 1
    <3>1. Before(Bare(out[p]), Bare(e))
      BY <1>1, <1>3, <2>1
    <3>. QED  BY <1>1, <1>2, <2>1, <2>3, <3>1
  <2>. QED  BY <1>1, <2>2, <2>3
<1>. QED  BY <1>4, <1>5 DEF Right

(* The end of a group shows the sums of what was shown of it.              *)
LEMMA EndSumsGrow ==
  ASSUME job \in Jobs, job' = job, NEW S, out \in Seq(S), NEW e, out' = Append(out, e), EndSums,
         \A q \in DOMAIN out : \A i \in Inputs : out[q].o = OutputOf(i) => out[q].recs[i].n \in Wanted(i),
         \A i \in Inputs : e.o = OutputOf(i) => e.recs[i].n \in Wanted(i),
         \A g \in Nat : e.o = 0 /\ e.group = g => e.sum = [i \in Inputs |-> <<SumTo(ShownOf(i, g), Len(out))>>]
  PROVE  EndSums'
<1>1. /\ Len(out) \in Nat /\ DOMAIN out = 1 .. Len(out) /\ DOMAIN out' = 1 .. Len(out) + 1
      /\ \A p \in 1 .. Len(out) : out'[p] = out[p]
      /\ out'[Len(out) + 1] = e
  BY AppendFacts
<1>2. \A g : \A i \in Inputs :
        /\ \A p \in 0 .. Len(out) : SumTo(ShownOf(i, g)', p) = SumTo(ShownOf(i, g), p)
        /\ \A p \in Nat : SumTo(ShownOf(i, g), p) \in Nat
        /\ SumTo(ShownOf(i, g)', Len(out) + 1) =
             SumTo(ShownOf(i, g), Len(out)) + (IF e.group = g /\ e.o = OutputOf(i) THEN Of(i, e.recs[i].n).v ELSE 0)
  BY SumGrows
<1>3. Inputs' = Inputs /\ \A i \in Inputs : OutputOf(i) # 0
  <2>1. Inputs = 1 .. MaxIi /\ MaxIi \in 1 .. 9
    BY JobFacts
  <2>. QED  BY <2>1, JobSame DEF OutputOf
<1>. SUFFICES ASSUME NEW p \in DOMAIN out', NEW g \in Nat, out'[p].o = 0, out'[p].group = g
              PROVE  out'[p].sum = [i \in Inputs |-> <<SumTo(ShownOf(i, g)', p)>>]
  BY <1>3 DEF EndSums
<1>4. CASE p \in 1 .. Len(out)
  <2>1. p \in 0 .. Len(out) /\ out'[p] = out[p]
    BY <1>1, <1>4
  <2>2. \A i \in Inputs : SumTo(ShownOf(i, g)', p) = SumTo(ShownOf(i, g), p)
    BY <1>2, <2>1
  <2>3. out[p].sum = [i \in Inputs |-> <<SumTo(ShownOf(i, g), p)>>]
    BY <1>1, <1>4, <2>1 DEF EndSums
  <2>. QED  BY <2>1, <2>2, <2>3
<1>5. CASE p = Len(out) + 1
  <2>1. out'[p] = e /\ e.o = 0 /\ e.group = g
    BY <1>1, <1>5
  <2>2. \A i \in Inputs : SumTo(ShownOf(i, g)', p) = SumTo(ShownOf(i, g), Len(out))
    <3>. TAKE i \in Inputs
    <3>1. e.o # OutputOf(i)
      BY <1>3, <2>1
    <3>2. SumTo(ShownOf(i, g), Len(out)) \in Nat
      BY <1>1, <1>2
    <3>3. SumTo(ShownOf(i, g)', Len(out) + 1) = SumTo(ShownOf(i, g), Len(out)) + 0
      BY <1>2, <3>1
    <3>. QED  BY <1>5, <3>2, <3>3
  <2>. QED  BY <2>1, <2>2
<1>. QED  BY <1>1, <1>4, <1>5

(***************************************************************************)
(* Written: the entries.                                                   *)
(***************************************************************************)

(* What an entry of the group of k shows.                                  *)
LEMMA EntryFacts ==
  ASSUME NEW o, NEW k, NEW c
  PROVE  /\ Entry(o, k, c).o = o /\ Entry(o, k, c).group = Nr(k)
         /\ DOMAIN Entry(o, k, c).recs = DOMAIN c
         /\ \A i \in DOMAIN c : Entry(o, k, c).recs[i].n = c[i]
         /\ Numbers(Entry(o, k, c)) = [i \in DOMAIN c |-> c[i]]
<1>1. /\ Entry(o, k, c).o = o /\ Entry(o, k, c).group = Nr(k)
      /\ Entry(o, k, c).recs = [i \in DOMAIN c |-> [n |-> c[i], m |-> k]]
  BY DEF Entry
<1>2. DOMAIN Entry(o, k, c).recs = DOMAIN c /\ \A i \in DOMAIN c : Entry(o, k, c).recs[i].n = c[i]
  BY <1>1
<1>. QED  BY <1>1, <1>2 DEF Numbers

(* An output is an entry when formulas see its records, with their counts. *)
LEMMA BareIs ==
  ASSUME NEW e, NEW k, NEW c, e.group = Nr(k),
         e.recs = [i \in DOMAIN c |-> [n |-> c[i], m |-> k]],
         e.count = [i \in DOMAIN c |-> CountTo(i, k, c[i])]
  PROVE  Bare(e) = Entry(e.o, k, c)
BY DEF Bare, Entry

(***************************************************************************)
(* Written: plain merges.                                                  *)
(***************************************************************************)

(* What is told from the scans, when they stay.                            *)
LEMMA SameDealt ==
  ASSUME job' = job, scan' = scan
  PROVE  \A i : Dealt(i)' = Dealt(i)
BY JobSame DEF Dealt

LEMMA MergedSame ==
  ASSUME job' = job, \A i \in Inputs : Dealt(i)' = Dealt(i), KeysDone' = KeysDone
  PROVE  Merged' = Merged
BY JobSame, JobSaysSame DEF Merged

(* When nothing is written, what was written stays right.                  *)
LEMMA SameOut ==
  ASSUME job' = job, out' = out, group' = group, OrderInv, ShowsRecords, EndSums, NoneOf' => NoneOf
  PROVE  /\ ShowsRecords' /\ EndSums'
         /\ \A D : Right(out, D) => Right(out', D)
         /\ \A i, g : SumTo(ShownOf(i, g)', Len(out)) = SumTo(ShownOf(i, g), Len(out))
<1>1. ShowsRecords'
  BY JobSame DEF ShowsRecords, OutputOf
<1>2. \A i, g : ShownOf(i, g)' = ShownOf(i, g)
  BY JobSame DEF ShownOf
<1>3. EndSums'
  BY <1>2, JobSame DEF EndSums
<1>4. \A D : Right(out, D) => Right(out', D)
  BY DEF Right
<1>. QED  BY <1>1, <1>2, <1>3, <1>4

LEMMA MergedInit == MRInit => MergedInv /\ JoinedInv
<1>. SUFFICES ASSUME MRInit, job.kind \in {"merge", "join"} PROVE MergedInv /\ JoinedInv
  BY DEF MergedInv, JoinedInv
<1>1. /\ job \in Jobs /\ pc = "open" /\ group = 1 /\ out = <<>>
      /\ rec = [i \in Inputs |-> NoRec] /\ count = [i \in Inputs |-> 0]
      /\ scan = [i \in Inputs |-> [irec |-> 0, eof |-> FALSE]]
  BY DEF MRInit, Init
<1>2. \A i \in Inputs : Dealt(i) = {}
  <2>. SUFFICES ASSUME NEW i \in Inputs, NEW n \in Wanted(i), n < 0 PROVE FALSE
    BY <1>1 DEF Dealt
  <2>. QED  BY <1>1, WantedFacts
<1>3. KeysDone = {} /\ pc \in Outside
  BY <1>1, <1>2 DEF KeysDone, Outside
<1>4. Values
  <2>1. out \in Seq({})
    BY <1>1
  <2>. QED  BY <1>1, <2>1 DEF Values, NoRec
<1>5. DOMAIN out = {}
  BY <1>1
<1>6. Merged = {} /\ Joined = {}
  BY <1>2, <1>3 DEF Merged, Joined
<1>7. Right(out, {})
  BY <1>5 DEF Right
<1>8. Always
  BY <1>1, <1>2, <1>3, <1>4, <1>5, FS_EmptySet DEF Always, ShowsRecords, EndSums, Between
<1>. QED  BY <1>1, <1>3, <1>6, <1>7, <1>8 DEF MergedInv, JoinedInv

(* The first records are read: none is dealt with yet.                     *)
LEMMA BeginsFacts ==
  ASSUME OrderInv, MergeBegins, Always
  PROVE  /\ \A i \in Inputs : Dealt(i)' = Dealt(i)
         /\ KeysDone' = KeysDone
         /\ Always'
         /\ \A D : Right(out, D) => Right(out', D)
<1>1. /\ pc = "open" /\ pc' = "group" /\ scan' = FirstRecs
      /\ UNCHANGED <<job, at, rec, exist, count, key, group, sum, out, start, empty>>
  BY DEF MergeBegins
<1>2. job \in Jobs
  BY DEF OrderInv, Shape
<1>3. \A i \in Inputs : Dealt(i)' = {}
  <2>. SUFFICES ASSUME NEW i \in Inputs, NEW n \in Wanted(i),
                       scan'[i].eof \/ n < scan'[i].irec PROVE FALSE
    BY <1>1, JobSame DEF Dealt
  <2>1. /\ scan' \in [Inputs -> [irec : Nat, eof : BOOLEAN]]
        /\ scan'[i].eof => Wanted(i) = {}
        /\ ~scan'[i].eof => \A m \in Wanted(i) : scan'[i].irec <= m
    BY <1>1, <1>2, FirstRecsFacts
  <2>2. n \in Nat /\ scan'[i].irec \in Nat
    BY <1>2, <2>1, WantedFacts
  <2>. QED  BY <2>1, <2>2
<1>4. \A i \in Inputs : Dealt(i)' = Dealt(i)
  BY <1>1, <1>3 DEF Always
<1>5. KeysDone' = KeysDone
  BY <1>1, <1>4, JobSame, JobSaysSame DEF KeysDone, Outside
<1>6. pc \in Outside /\ pc' \in Outside
  BY <1>1 DEF Outside
<1>7. ShowsRecords' /\ EndSums' /\ \A D : Right(out, D) => Right(out', D)
  BY <1>1, <1>6, SameOut DEF Always, NoneOf
<1>8. Values'
  BY <1>1, JobSame DEF Always, Values
<1>9. Between'
  BY <1>1, <1>4, <1>6, JobSame DEF Always, Between
<1>10. Always'
  BY <1>1, <1>5, <1>6, <1>7, <1>8, <1>9 DEF Always
<1>. QED  BY <1>4, <1>5, <1>7, <1>10

(* The same when the last record was dealt with.                           *)
LEMMA EndsFacts ==
  ASSUME OrderInv, MergeEnds, Always
  PROVE  /\ \A i \in Inputs : Dealt(i)' = Dealt(i)
         /\ KeysDone' = KeysDone
         /\ Always'
         /\ \A D : Right(out, D) => Right(out', D)
<1>1. /\ pc = "group" /\ pc' = "done"
      /\ UNCHANGED <<job, at, scan, rec, exist, count, key, group, sum, out, start, empty>>
  BY DEF MergeEnds
<1>4. \A i : Dealt(i)' = Dealt(i)
  BY <1>1, SameDealt
<1>5. KeysDone' = KeysDone
  BY <1>1, <1>4, JobSame, JobSaysSame DEF KeysDone, Outside
<1>6. pc \in Outside /\ pc' \in Outside
  BY <1>1 DEF Outside
<1>7. ShowsRecords' /\ EndSums' /\ \A D : Right(out, D) => Right(out', D)
  BY <1>1, <1>6, SameOut DEF Always, NoneOf
<1>8. Values'
  BY <1>1, JobSame DEF Always, Values
<1>9. Between'
  BY <1>1, <1>4, <1>6, JobSame DEF Always, Between
<1>10. Always'
  BY <1>1, <1>5, <1>6, <1>7, <1>8, <1>9 DEF Always
<1>. QED  BY <1>4, <1>5, <1>7, <1>10

(* A group begins.                                                         *)
LEMMA GroupBegins ==
  ASSUME OrderInv, AllInOrder, NextGroup, Always
  PROVE  /\ \A i : Dealt(i)' = Dealt(i)
         /\ KeysDone' = KeysDone
         /\ Always'
         /\ \A D : Right(out, D) => Right(out', D)
         /\ \A i \in Inputs : count'[i] = 0
         /\ pc' \notin Outside /\ key' \in AllKeys /\ key' \in Tuple(job.nm)
<1>1. /\ pc = "group" /\ pc' \notin Outside /\ at' = 1
      /\ count' = IF job.nm = 0 THEN count ELSE [i \in Inputs |-> 0]
      /\ sum' = [i \in Inputs |-> <<0>>]
      /\ UNCHANGED <<job, scan, rec, group, out>>
  BY DEF NextGroup, Outside
<1>2. job \in Jobs /\ Between /\ Values
  BY <1>1 DEF OrderInv, Shape, Always, Outside
<1>3. /\ key' \in AllKeys /\ key' \in Tuple(job.nm)
      /\ \A i \in Inputs : /\ i \in exist' <=> With(i, key') # {}
                           /\ \A n \in Dealt(i) : Less(Of(i, n).m, key')
      /\ {k \in GroupKeys : Less(k, key')} = KeysDone
  BY <1>2, NextGroupFacts
<1>4. \A i : Dealt(i)' = Dealt(i)
  BY <1>1, SameDealt
<1>5. KeysDone' = KeysDone
  BY <1>1, <1>3, JobSaysSame DEF KeysDone
<1>6. \A i \in Inputs : count'[i] = 0
  <2>1. CASE job.nm = 0
    <3>1. \A i \in Inputs : \A n \in Dealt(i) : FALSE
      <4>. SUFFICES ASSUME NEW i \in Inputs, NEW n \in Dealt(i) PROVE FALSE
        OBVIOUS
      <4>1. Of(i, n).m \in Tuple(0) /\ Less(Of(i, n).m, key')
        BY <1>2, <1>3, <2>1, WantedFacts DEF Dealt
      <4>. QED  BY <4>1 DEF Less, Tuple
    <3>2. \A i \in Inputs : Dealt(i) = {}
      BY <3>1
    <3>. QED  BY <1>1, <1>2, <2>1, <3>2 DEF Between
  <2>2. CASE job.nm # 0
    BY <1>1, <2>2
  <2>. QED  BY <2>1, <2>2
<1>7. ShowsRecords' /\ EndSums' /\ \A D : Right(out, D) => Right(out', D)
  <2>1. NoneOf
    BY <1>1 DEF NoneOf, Outside
  <2>. QED  BY <1>1, <2>1, SameOut DEF Always
<1>8. Values'
  BY <1>1, <1>2, JobSame DEF Values
<1>9. GroupOpen'
  <2>1. PICK S : out \in Seq(S)
    BY <1>2 DEF Values
  <2>2. \A q \in DOMAIN out : out[q].group # group
    BY <1>1, <1>2 DEF Always, ShowsRecords, Values, Outside, NoneOf
  <2>3. \A i : SumTo(ShownOf(i, group), Len(out)) = 0
    BY <2>1, <2>2, NothingShown
  <2>4. \A i : SumTo(ShownOf(i, group)', Len(out)) = 0
    <3>1. \A i : ShownOf(i, group)' = ShownOf(i, group)
      BY <1>1, JobSame DEF ShownOf
    <3>. QED  BY <2>3, <3>1
  <2>5. sum' = [i \in Inputs' |-> <<SumTo(ShownOf(i, group)', Len(out'))>>]
    BY <1>1, <2>4, JobSame
  <2>. QED  BY <1>1, <1>3, <2>5, JobSame, JobSaysSame DEF GroupOpen
<1>10. Always'
  BY <1>1, <1>5, <1>7, <1>8, <1>9 DEF Always, Outside
<1>. QED  BY <1>1, <1>3, <1>4, <1>5, <1>6, <1>7, <1>10

(* A group of a plain merge begins.                                        *)
LEMMA MergedGroup ==
  ASSUME OrderInv, MergedInv, job.kind = "merge", AllInOrder, NextGroup
  PROVE  MergedInv'
<1>1. /\ pc = "group" /\ pc' = "merge" /\ at' = 1
      /\ UNCHANGED <<job, scan, rec, group, out>>
  BY DEF NextGroup
<1>2. Always /\ Right(out, Merged) /\ Between /\ job \in Jobs /\ MaxIi \in 1 .. 9 /\ Inputs = 1 .. MaxIi
  BY <1>1, JobFacts DEF MergedInv, Always, Outside, OrderInv, Shape
<1>3. /\ \A i : Dealt(i)' = Dealt(i)
      /\ KeysDone' = KeysDone
      /\ Always'
      /\ \A D : Right(out, D) => Right(out', D)
      /\ \A i \in Inputs : count'[i] = 0
      /\ key' \in Tuple(job.nm)
  BY <1>2, GroupBegins
<1>4. \A i \in Inputs :
        /\ \A n \in Dealt(i) : Less(Of(i, n).m, key')
        /\ \A n \in Wanted(i) \ Dealt(i) : Of(i, n).m = key' \/ Less(key', Of(i, n).m)
        /\ Dealt(i) \cap With(i, key') = {}
  BY <1>2, NextGroupFacts
<1>5. Right(out', Merged')
  BY <1>1, <1>2, <1>3, MergedSame
<1>6. ASSUME NEW i \in Inputs
      PROVE  /\ Within(i)'
             /\ count'[i] = Cardinality(Dealt(i)' \cap With(i, key'))
             /\ Dealt(i)' \cap With(i, key') = {}
  <2>1. Within(i)'
    BY <1>1, <1>3, <1>4, JobSame DEF Within
  <2>2. Dealt(i)' \cap With(i, key') = {}
    BY <1>3, <1>4
  <2>. QED  BY <1>3, <2>1, <2>2, FS_EmptySet
<1>7. MergeIn'
  <2>1. \A i, k : With(i, k)' = With(i, k)
    BY <1>1, JobSaysSame
  <2>2. at' \in 1 .. MaxIi + 1 /\ \A i \in Inputs : i >= at' /\ ~(i < at')
    BY <1>1, <1>2
  <2>. QED  BY <1>1, <1>6, <2>1, <2>2, JobSame DEF MergeIn
<1>. QED  BY <1>1, <1>3, <1>5, <1>7, JobSame DEF MergedInv

(* An input that has no record in the group.                               *)
LEMMA MergedNone ==
  ASSUME OrderInv, MergedInv, job.kind = "merge", AllInOrder, MergeNone
  PROVE  MergedInv'
<1>1. /\ pc = "merge" /\ pc' = "merge" /\ at \in Inputs \ exist /\ at' = at + 1
      /\ rec' = [rec EXCEPT ![at] = [n |-> 0, m |-> key]]
      /\ UNCHANGED <<job, scan, exist, count, key, group, sum, out>>
  BY DEF MergeNone, ResetRec
<1>2. Always /\ Right(out, Merged) /\ MergeIn /\ GroupOpen /\ Values
  BY <1>1 DEF MergedInv, Always, Outside
<1>a. job \in Jobs /\ MaxIi \in 1 .. 9 /\ Inputs = 1 .. MaxIi /\ key \in Tuple(job.nm)
  BY <1>1, JobFacts DEF OrderInv, Shape, KeyOK
<1>3. \A i : Dealt(i)' = Dealt(i)
  BY <1>1, SameDealt
<1>4. KeysDone' = KeysDone
  BY <1>1, <1>3, JobSame, JobSaysSame DEF KeysDone, Outside
<1>5. ShowsRecords' /\ EndSums' /\ (\A D : Right(out, D) => Right(out', D))
  <2>1. NoneOf' => NoneOf
    BY <1>1, JobSaysSame DEF NoneOf
  <2>. QED  BY <1>1, <1>2, <2>1, SameOut DEF Always
<1>6. Right(out', Merged')
  BY <1>1, <1>2, <1>3, <1>4, <1>5, MergedSame
<1>7. Values'
  BY <1>1, <1>2, <1>a, JobSame DEF Values
<1>8. GroupOpen'
  <2>1. \A i : ShownOf(i, group)' = ShownOf(i, group)
    BY <1>1, JobSame DEF ShownOf
  <2>. QED  BY <1>1, <1>2, <2>1, JobSame, JobSaysSame DEF GroupOpen
<1>9. Always'
  BY <1>1, <1>2, <1>4, <1>5, <1>7, <1>8 DEF Always, Outside
<1>10. With(at, key) = {}
  BY <1>1, <1>2 DEF GroupOpen
<1>11. \A i \in Inputs : (Within(i) => Within(i)') /\ (Behold(i) => Behold(i)')
  BY <1>1, <1>3, JobSame DEF Within, Behold
<1>12. Behold(at) /\ count[at] = Cardinality(With(at, key))
  <2>1. Within(at) /\ count[at] = Cardinality(Dealt(at) \cap With(at, key)) /\ at \in Nat
    BY <1>1, <1>2, <1>a DEF MergeIn
  <2>2. Dealt(at) \cap With(at, key) = With(at, key)
    BY <1>10
  <2>. QED  BY <1>10, <2>1, <2>2 DEF Within, Behold, With
<1>13. ASSUME NEW i \in Inputs, i = at PROVE SeesLast(i)'
  <2>1. LastOf(i, key) = 0
    BY <1>10, <1>13 DEF LastOf
  <2>2. rec'[i] = [n |-> 0, m |-> key]
    BY <1>1, <1>2, <1>13 DEF Values
  <2>. QED  BY <1>1, <1>12, <1>13, <2>1, <2>2, JobSaysSame DEF SeesLast
<1>14. MergeIn'
  <2>1. at' \in 1 .. MaxIi + 1 /\ \A i \in Inputs : /\ i < at' => i < at \/ i = at
                                                    /\ i >= at' => i >= at /\ i > at /\ i # at
                                                    /\ i > at' => i > at
    BY <1>1, <1>a
  <2>2. \A i \in Inputs : i # at => (SeesLast(i) => SeesLast(i)')
    BY <1>1, <1>2, JobSaysSame DEF SeesLast, Values
  <2>3. \A i \in Inputs : i < at => i # at
    BY <1>a
  <2>4. ASSUME NEW i \in Inputs, i < at' PROVE Behold(i)' /\ SeesLast(i)'
    <3>1. CASE i = at
      BY <1>11, <1>12, <1>13, <3>1
    <3>2. CASE i # at
      BY <1>2, <1>11, <2>1, <2>2, <2>4, <3>2 DEF MergeIn
    <3>. QED  BY <3>1, <3>2
  <2>5. ASSUME NEW i \in Inputs,
               i >= at' PROVE Within(i)' /\ count'[i] = Cardinality(Dealt(i)' \cap With(i, key)')
    BY <1>1, <1>2, <1>3, <1>11, <2>1, <2>5, JobSaysSame DEF MergeIn
  <2>6. ASSUME NEW i \in Inputs, i > at' PROVE Dealt(i)' \cap With(i, key)' = {}
    BY <1>1, <1>2, <1>3, <2>1, <2>6, JobSaysSame DEF MergeIn
  <2>. QED  BY <1>1, <2>1, <2>4, <2>5, <2>6, JobSame DEF MergeIn
<1>. QED  BY <1>1, <1>6, <1>9, <1>14, JobSame DEF MergedInv

(* The sums of an input, with one number more.                             *)
LEMMA SumOfOne ==
  ASSUME NEW s, NEW v
  PROVE  [<<s>> EXCEPT ![1] = @ + v] = <<s + v>>
OBVIOUS

(* The records that formulas see with record n of input i, of the group k. *)
Sees(i, k, n) == [j \in 1 .. i |-> IF j = i THEN n ELSE LastOf(j, k)]

(* The entries of a plain merge.                                           *)
LEMMA TakenFacts ==
  ASSUME job \in Jobs, NEW i \in Inputs, NEW n
  PROVE  /\ Taken(i, n) = Entry(i, Of(i, n).m, Sees(i, Of(i, n).m, n))
         /\ Taken(i, n).o = i /\ Taken(i, n).group = Nr(Of(i, n).m)
         /\ Numbers(Taken(i, n)) = Sees(i, Of(i, n).m, n)
<1>. DEFINE k == Of(i, n).m
<1>1. Taken(i, n) = Entry(i, k, Sees(i, k, n))
  BY DEF Taken, Sees
<1>2. [j \in DOMAIN Sees(i, k, n) |-> Sees(i, k, n)[j]] = Sees(i, k, n)
  BY DEF Sees
<1>. HIDE DEF k
<1>3. /\ Taken(i, n).o = i /\ Taken(i, n).group = Nr(k)
      /\ Numbers(Taken(i, n)) = Sees(i, k, n)
  BY <1>1, <1>2, EntryFacts
<1>. QED  BY <1>1, <1>3 DEF k

LEMMA EndFacts ==
  ASSUME NEW k
  PROVE  /\ End(k) = Entry(0, k, [i \in Inputs |-> LastOf(i, k)])
         /\ End(k).o = 0 /\ End(k).group = Nr(k)
BY EntryFacts DEF End

LEMMA InMerged ==
  ASSUME NEW x
  PROVE  x \in Merged <=> \/ \E i \in Inputs : \E n \in Dealt(i) : x = Taken(i, n)
                         \/ \E k \in KeysDone : x = End(k)
<1>. DEFINE A == UNION {{Taken(i, n) : n \in Dealt(i)} : i \in Inputs}
            B == {End(k) : k \in KeysDone}
<1>1. x \in A <=> \E i \in Inputs : \E n \in Dealt(i) : x = Taken(i, n)
  OBVIOUS
<1>2. x \in B <=> \E k \in KeysDone : x = End(k)
  OBVIOUS
<1>3. Merged = A \cup B
  BY DEF Merged
<1>. HIDE DEF A, B
<1>. QED  BY <1>1, <1>2, <1>3

(* What was written comes before the next record of the group.             *)
LEMMA MergedBefore ==
  ASSUME OrderInv, MergedInv, job.kind = "merge", AllInOrder, pc = "merge",
         NEW i \in Inputs, i = at, NEW r \in Wanted(i), Of(i, r).m = key, \A n \in Dealt(i) : n < r,
         NEW d \in Merged
  PROVE  Before(d, Taken(i, r))
<1>1. Always /\ MergeIn /\ GroupOpen /\ KeysDone = {k \in GroupKeys : Less(k, key)}
  BY DEF MergedInv, Always, Outside, KeysDone
<1>2. /\ job \in Jobs /\ MaxIi \in 1 .. 9 /\ Inputs = 1 .. MaxIi /\ key \in Tuple(job.nm)
      /\ GroupKeys = AllKeys /\ key \in GroupKeys
      /\ \A j \in Inputs : \A n \in Wanted(j) : n \in Nat /\ Of(j, n).m \in GroupKeys
      /\ \A k : Nr(k) \in Nat
      /\ \A k, l \in GroupKeys : Less(k, l) => Nr(k) < Nr(l)
  BY <1>1, JobFacts, KeyFacts, NrFacts, WantedFacts DEF OrderInv, Shape, KeyOK, GroupOpen
<1>3. Taken(i, r).o = i /\ Taken(i, r).group = Nr(key) /\ i # 0
  BY <1>2, TakenFacts
<1>4. CASE \E j \in Inputs : \E n \in Dealt(j) : d = Taken(j, n)
  <2>1. PICK j \in Inputs : \E n \in Dealt(j) : d = Taken(j, n)
    BY <1>4
  <2>2. PICK n \in Dealt(j) : d = Taken(j, n)
    BY <2>1
  <2>3. n \in Wanted(j) /\ d.o = j /\ d.group = Nr(Of(j, n).m) /\ j # 0 /\ j \in Nat /\ i \in Nat
    BY <1>2, <2>2, TakenFacts DEF Dealt
  <2>4. Of(j, n).m = key \/ Less(Of(j, n).m, key)
    <3>1. j < at \/ j >= at
      BY <1>2, <2>3
    <3>. QED  BY <1>1, <2>2, <3>1 DEF MergeIn, Behold, Within
  <2>5. CASE Less(Of(j, n).m, key)
    BY <1>2, <1>3, <2>3, <2>5 DEF Before
  <2>6. CASE Of(j, n).m = key
    <3>1. d.group = Nr(key)
      BY <2>3, <2>6
    <3>2. ~(j > at)
      BY <1>1, <2>2, <2>3, <2>6 DEF MergeIn, With
    <3>3. CASE j < i
      BY <1>3, <2>3, <3>1, <3>3 DEF Before
    <3>4. CASE j = i
      <4>1. Numbers(d) = Sees(i, key, n) /\ Numbers(Taken(i, r)) = Sees(i, key, r)
        BY <1>2, <2>2, <2>3, <2>6, <3>4, TakenFacts
      <4>2. n < r /\ i \in 1 .. i
        BY <2>2, <2>3, <3>4
      <4>3. Less(Sees(i, key, n), Sees(i, key, r))
        <5>1. i \in DOMAIN Sees(i, key, n) /\ Sees(i, key, n)[i] < Sees(i, key, r)[i]
          BY <4>2 DEF Sees
        <5>2. \A h \in 1 .. i - 1 : Sees(i, key, n)[h] = Sees(i, key, r)[h]
          BY <2>3 DEF Sees
        <5>. QED  BY <5>1, <5>2 DEF Less
      <4>. QED  BY <1>3, <2>3, <3>1, <3>4, <4>1, <4>3 DEF Before
    <3>. QED  BY <2>3, <3>2, <3>3, <3>4
  <2>. QED  BY <2>4, <2>5, <2>6
<1>5. CASE \E k \in KeysDone : d = End(k)
  <2>1. PICK k \in KeysDone : d = End(k)
    BY <1>5
  <2>2. d.group = Nr(k) /\ k \in GroupKeys /\ Less(k, key)
    BY <1>1, <2>1, EndFacts
  <2>. QED  BY <1>2, <1>3, <2>2 DEF Before
<1>. QED  BY <1>4, <1>5, InMerged

(* A record of the group is written.                                       *)
LEMMA MergedRec ==
  ASSUME OrderInv, OrderInv', MergedInv, job.kind = "merge", AllInOrder, MergeRec
  PROVE  MergedInv'
<1>0. job' = job /\ key' = key /\ exist' = exist /\ group' = group /\ pc = "merge"
  BY DEF MergeRec
<1>a. /\ job \in Jobs /\ MaxIi \in 1 .. 9 /\ Inputs = 1 .. MaxIi /\ key \in Tuple(job.nm)
      /\ at \in exist /\ at \in Inputs /\ Stays(scan, at)
      /\ pc' = "merge" /\ AllInOrder'
  <2>1. at \in exist /\ pc' \in {"merge", "refused"} /\ at \in Inputs
    BY DEF MergeRec, OrderInv, Shape
  <2>2. AllInOrder'
    BY <1>0, JobSame
  <2>3. Stays(scan, at) /\ at \in Nat
    BY <1>0, <2>1 DEF OrderInv, Standing, InTheGroup, Shape
  <2>4. pc' # "refused"
    BY <2>2 DEF OrderInv, Ends
  <2>. QED  BY <1>0, <2>1, <2>2, <2>3, <2>4, JobFacts DEF OrderInv, Shape, KeyOK
<1>1. PICK i \in Inputs : i = at
  BY <1>a
<1>. DEFINE r == scan[i].irec
            v == Of(i, r).v
            e == OutO(i, rec', count')
            c == Sees(i, key, r)
<1>2. /\ rec' = [rec EXCEPT ![i] = [n |-> r, m |-> Forw(scan, i).m]]
      /\ count' = [count EXCEPT ![i] = @ + 1]
      /\ sum' = [sum EXCEPT ![i][1] = @ + v]
      /\ out' = Append(out, e)
      /\ scan' = ReadInpFile(i)
      /\ \/ Passed(scan', i) /\ at' = i + 1
         \/ Stays(scan', i) /\ at' = i
  BY <1>1, <1>a DEF MergeRec, MoveForwToRec, SumUp, Of
<1>3. Always /\ Right(out, Merged) /\ MergeIn /\ GroupOpen /\ Values /\ ShowsRecords /\ EndSums
  BY <1>0 DEF MergedInv, Always, Outside
<1>4. PICK S : out \in Seq(S)
  BY <1>3 DEF Values
<1>5. /\ ~scan[i].eof /\ Forw(scan, i).m = key /\ Of(i, r).m = key
      /\ r \in Wanted(i) \ Dealt(i) /\ r \in Nat /\ r \in With(i, key)
      /\ Dealt(i) \subseteq Wanted(i)
      /\ \A n \in Dealt(i) : n < r
      /\ \A n \in Wanted(i) \ Dealt(i) : r <= n
  <2>1. ~scan[i].eof /\ Forw(scan, i).m = key
    BY <1>1, <1>a DEF Stays
  <2>2. /\ r \in Wanted(i) \ Dealt(i) /\ Forw(scan, i).m = Of(i, r).m
        /\ Dealt(i) \subseteq Wanted(i)
        /\ \A n \in Dealt(i) : n < r
        /\ \A n \in Wanted(i) \ Dealt(i) : r <= n
    BY <1>0, <2>1, DealtFacts
  <2>. QED  BY <1>a, <2>1, <2>2, WantedFacts DEF With
<1>6. Dealt(i)' = Dealt(i) \cup {r} /\ \A j \in Inputs : j # i => Dealt(j)' = Dealt(j)
  BY <1>0, <1>2, <1>5, ReadDealt
<1>. HIDE DEF r, v, e
<1>7. KeysDone' = KeysDone
  BY <1>0, <1>a, JobSaysSame DEF KeysDone, Outside
\* what is written
<1>8. /\ rec'[i] = [n |-> r, m |-> key] /\ count'[i] = count[i] + 1
      /\ \A j \in Inputs : j # i => rec'[j] = rec[j] /\ count'[j] = count[j]
      /\ rec' \in [Inputs -> [n : Nat, m : Tuple(job.nm) \cup {<<>>}]]
      /\ count' \in [Inputs -> Nat]
  BY <1>2, <1>3, <1>5, <1>a DEF Values
<1>9. count'[i] = CountTo(i, key, r) /\ CountTo(i, key, r) = Cardinality(Dealt(i)' \cap With(i, key))
  <2>1. count[i] = Cardinality(Dealt(i) \cap With(i, key))
    BY <1>1, <1>3, <1>a DEF MergeIn
  <2>2. {p \in With(i, key) : p <= r} = (Dealt(i) \cap With(i, key)) \cup {r}
    <3>1. \A p \in With(i, key) : p \in Wanted(i) /\ p \in Nat
      BY <1>a, WithFacts
    <3>2. \A p \in With(i, key) : p <= r <=> (p \in Dealt(i) \/ p = r)
      BY <1>5, <3>1
    <3>. QED  BY <1>5, <3>2
  <2>3. IsFiniteSet(Dealt(i) \cap With(i, key)) /\ r \notin Dealt(i) \cap With(i, key)
    BY <1>5, <1>a, CountFacts
  <2>4. Cardinality((Dealt(i) \cap With(i, key)) \cup {r}) = Cardinality(Dealt(i) \cap With(i, key)) + 1
    BY <2>3, FS_AddElement
  <2>5. Dealt(i)' \cap With(i, key) = (Dealt(i) \cap With(i, key)) \cup {r}
    BY <1>5, <1>6
  <2>. QED  BY <1>8, <2>1, <2>2, <2>4, <2>5 DEF CountTo
<1>10. /\ e.o = i /\ e.group = group /\ e.sum = <<>>
       /\ e.recs = [j \in 1 .. i |-> [n |-> c[j], m |-> key]]
       /\ e.count = [j \in 1 .. i |-> CountTo(j, key, c[j])]
  <2>1. i \in 1 .. MaxIi /\ MaxIi \in Nat /\ Inputs = 1 .. MaxIi
    BY <1>a
  <2>2. SubSeq(rec', 1, i) = [j \in 1 .. i |-> rec'[j]] /\ SubSeq(count', 1, i) = [j \in 1 .. i |-> count'[j]]
    BY <1>8, <2>1, FirstOnes
  <2>3. ASSUME NEW j \in 1 .. i PROVE rec'[j] = [n |-> c[j], m |-> key] /\ count'[j] = CountTo(j, key, c[j])
    <3>0. c[j] = IF j = i THEN r ELSE LastOf(j, key)
      BY DEF Sees
    <3>. HIDE DEF c
    <3>1. CASE j = i
      BY <1>8, <1>9, <3>0, <3>1
    <3>2. CASE j # i
      <4>1. j \in Inputs /\ j < at
        BY <1>1, <2>1, <3>2
      <4>2. rec[j] = [n |-> LastOf(j, key), m |-> key] /\ count[j] = Cardinality(With(j, key))
        BY <1>3, <4>1 DEF MergeIn, SeesLast
      <4>3. CountTo(j, key, LastOf(j, key)) = Cardinality(With(j, key))
        BY <1>a, <4>1, CountFacts
      <4>. QED  BY <1>8, <3>0, <3>2, <4>1, <4>2, <4>3
    <3>. QED  BY <3>1, <3>2
  <2>. HIDE DEF c
  <2>. QED  BY <2>2, <2>3 DEF e, OutO
<1>11. group = Nr(key) /\ key \in GroupKeys
  <2>1. key \in GroupKeys
    BY <1>3, <1>a, KeyFacts DEF GroupOpen
  <2>2. Nr(key) = Cardinality({k \in GroupKeys : Less(k, key)}) + 1
    BY <1>a, <2>1, NrFacts
  <2>3. KeysDone = {k \in GroupKeys : Less(k, key)}
    BY <1>0 DEF KeysDone, Outside
  <2>4. Cardinality(KeysDone) = group - 1 /\ group \in Nat
    BY <1>3 DEF Always, Values
  <2>. QED  BY <2>1, <2>2, <2>3, <2>4
<1>b. e.recs[i].n = r
  <2>1. i \in 1 .. i
    BY <1>a
  <2>2. c[i] = r
    BY <2>1 DEF Sees
  <2>. HIDE DEF c
  <2>. QED  BY <1>10, <2>1, <2>2
<1>12. Bare(e) = Taken(i, r)
  <2>1. DOMAIN c = 1 .. i
    BY DEF Sees
  <2>2. Taken(i, r) = Entry(i, key, c)
    BY <1>5, <1>a, TakenFacts
  <2>. HIDE DEF c
  <2>3. e.recs = [j \in DOMAIN c |-> [n |-> c[j], m |-> key]] /\ e.count = [j \in DOMAIN c |-> CountTo(j, key, c[j])]
    BY <1>10, <2>1
  <2>4. Bare(e) = Entry(e.o, key, c)
    BY <1>10, <1>11, <2>3, BareIs
  <2>. QED  BY <1>10, <2>2, <2>4
<1>13. Right(out', Merged')
  <2>1. Merged' = Merged \cup {Taken(i, r)}
    <3>1. \A j, n : Taken(j, n)' = Taken(j, n)
      BY <1>0, JobSaysSame
    <3>2. \A k : End(k)' = End(k)
      BY <1>0, JobSaysSame
    <3>3. ASSUME NEW x PROVE x \in Merged' <=> x \in Merged \/ x = Taken(i, r)
      <4>1. x \in Merged' <=> \/ \E j \in Inputs : \E n \in Dealt(j)' : x = Taken(j, n)
                              \/ \E k \in KeysDone : x = End(k)
        <5>. DEFINE A == UNION {{Taken(j, n) : n \in Dealt(j)'} : j \in Inputs}
                    B == {End(k) : k \in KeysDone}
        <5>1. Merged' = A \cup B
          BY <1>0, <1>7, <3>1, <3>2, JobSame DEF Merged
        <5>2. x \in A <=> \E j \in Inputs : \E n \in Dealt(j)' : x = Taken(j, n)
          OBVIOUS
        <5>3. x \in B <=> \E k \in KeysDone : x = End(k)
          OBVIOUS
        <5>. HIDE DEF A, B
        <5>. QED  BY <5>1, <5>2, <5>3
      <4>2. (\E j \in Inputs : \E n \in Dealt(j)' : x = Taken(j, n))
              <=> (\E j \in Inputs : \E n \in Dealt(j) : x = Taken(j, n)) \/ x = Taken(i, r)
        <5>1. \A n : \A j \in Inputs : n \in Dealt(j)' <=> n \in Dealt(j) \/ (j = i /\ n = r)
          BY <1>6
        <5>. QED  BY <5>1
      <4>. QED  BY <4>1, <4>2, InMerged
    <3>. QED  BY <3>3
  <2>2. \A d \in Merged : Before(d, Bare(e))
    BY <1>0, <1>1, <1>5, <1>12, MergedBefore
  <2>3. Right(out', Merged \cup {Bare(e)})
    BY <1>2, <1>3, <1>4, <2>2, OutGrows
  <2>. QED  BY <1>12, <2>1, <2>3
<1>14. out' \in Seq(S \cup {e}) /\ DOMAIN out = 1 .. Len(out) /\ DOMAIN out' = 1 .. Len(out) + 1
       /\ Len(out') = Len(out) + 1 /\ Len(out) \in Nat
       /\ (\A p \in 1 .. Len(out) : out'[p] = out[p]) /\ out'[Len(out) + 1] = e
  BY <1>2, <1>4, AppendFacts
<1>15. \A j \in Inputs : e.o = OutputOf(j) => e.recs[j].n \in Wanted(j)
  <2>. SUFFICES ASSUME NEW j \in Inputs, e.o = OutputOf(j) PROVE e.recs[j].n \in Wanted(j)
    OBVIOUS
  <2>1. j = i
    BY <1>10, <1>a DEF OutputOf
  <2>. QED  BY <1>5, <1>b, <2>1
<1>16. ShowsRecords'
  <2>. SUFFICES ASSUME NEW q \in DOMAIN out'
                PROVE  /\ out'[q].group \in Nat /\ out'[q].group <= group
                       /\ \A j \in Inputs : out'[q].o = OutputOf(j) => out'[q].recs[j].n \in Wanted(j)
    <3>1. ~NoneOf'
      BY <1>0, <1>11, <1>a, JobSaysSame DEF NoneOf, Outside
    <3>. QED  BY <1>0, <3>1, JobSame DEF ShowsRecords, OutputOf
  <2>1. CASE q \in 1 .. Len(out)
    BY <1>3, <1>14, <2>1 DEF ShowsRecords
  <2>2. CASE q = Len(out) + 1
    <3>1. out'[q] = e /\ e.group = group /\ group \in Nat
      BY <1>3, <1>10, <1>14, <2>2 DEF Values
    <3>. QED  BY <1>15, <3>1
  <2>. QED  BY <1>14, <2>1, <2>2
<1>17. EndSums'
  <2>1. \A q \in DOMAIN out : \A j \in Inputs : out[q].o = OutputOf(j) => out[q].recs[j].n \in Wanted(j)
    BY <1>3 DEF ShowsRecords
  <2>2. e.o # 0
    BY <1>10, <1>a
  <2>. QED  BY <1>0, <1>2, <1>3, <1>4, <1>15, <1>a, <2>1, <2>2, EndSumsGrow
<1>18. GroupOpen'
  <2>1. \A q \in DOMAIN out : \A j \in Inputs : out[q].o = OutputOf(j) => out[q].recs[j].n \in Wanted(j)
    BY <1>3 DEF ShowsRecords
  <2>2. \A g : \A j \in Inputs :
          /\ \A p \in 0 .. Len(out) : SumTo(ShownOf(j, g)', p) = SumTo(ShownOf(j, g), p)
          /\ \A p \in Nat : SumTo(ShownOf(j, g), p) \in Nat
          /\ SumTo(ShownOf(j, g)', Len(out) + 1) =
               SumTo(ShownOf(j, g), Len(out)) + (IF e.group = g /\ e.o = OutputOf(j) THEN Of(j, e.recs[j].n).v ELSE 0)
    BY <1>0, <1>2, <1>4, <1>15, <1>a, <2>1, SumGrows
  <2>3. \A g : \A j \in Inputs : SumTo(ShownOf(j, g), Len(out)) \in Nat
    BY <1>14, <2>2
  <2>4. \A j \in Inputs : SumTo(ShownOf(j, group)', Len(out) + 1) =
                            SumTo(ShownOf(j, group), Len(out)) + (IF j = i THEN v ELSE 0)
    <3>1. \A j \in Inputs : e.o = OutputOf(j) <=> j = i
      BY <1>10, <1>a DEF OutputOf
    <3>2. Of(i, e.recs[i].n).v = v
      BY <1>b DEF v
    <3>3. \A j \in Inputs : SumTo(ShownOf(j, group)', Len(out) + 1) =
            SumTo(ShownOf(j, group), Len(out)) + (IF e.o = OutputOf(j) THEN Of(j, e.recs[j].n).v ELSE 0)
      BY <1>0, <1>10, <2>2
    <3>. QED  BY <3>1, <3>2, <3>3
  <2>5. sum' = [j \in Inputs |-> <<SumTo(ShownOf(j, group)', Len(out) + 1)>>]
    <3>. DEFINE s(j) == SumTo(ShownOf(j, group), Len(out))
                t(j) == SumTo(ShownOf(j, group)', Len(out) + 1)
    <3>1. sum = [j \in Inputs |-> <<s(j)>>]
      BY <1>3 DEF GroupOpen
    <3>2. \A j \in Inputs : t(j) = s(j) + (IF j = i THEN v ELSE 0) /\ s(j) \in Nat
      BY <2>3, <2>4
    <3>. HIDE DEF s, t
    <3>3. sum' = [j \in Inputs |-> IF j = i THEN [sum[i] EXCEPT ![1] = @ + v] ELSE sum[j]]
      BY <1>2, <3>1
    <3>4. [sum[i] EXCEPT ![1] = @ + v] = <<t(i)>>
      <4>1. sum[i] = <<s(i)>> /\ t(i) = s(i) + v
        BY <3>1, <3>2
      <4>. QED  BY <4>1, SumOfOne
    <3>5. \A j \in Inputs : j # i => sum[j] = <<t(j)>>
      BY <3>1, <3>2
    <3>6. sum' = [j \in Inputs |-> <<t(j)>>]
      BY <3>3, <3>4, <3>5
    <3>. QED  BY <3>6 DEF t
  <2>. QED  BY <1>0, <1>3, <1>14, <2>5, JobSame, JobSaysSame DEF GroupOpen
<1>19. Values'
  <2>1. \E T : out' \in Seq(T)
    BY <1>14
  <2>. QED  BY <1>0, <1>3, <1>8, <2>1, JobSame DEF Values
<1>20. Always'
  BY <1>0, <1>3, <1>7, <1>16, <1>17, <1>18, <1>19, <1>a DEF Always, Outside
\* where the inputs stand
<1>21. ASSUME NEW n \in Dealt(i)' PROVE Of(i, n).m = key \/ Less(Of(i, n).m, key)
  <2>0. i >= at
    BY <1>1, <1>a
  <2>1. Within(i)
    BY <1>3, <2>0 DEF MergeIn
  <2>. QED  BY <1>5, <1>6, <2>1 DEF Within
<1>22. /\ Passed(scan', i) => Behold(i)'
       /\ Stays(scan', i) => Within(i)'
  <2>1. PassedSays'
    BY PassedFacts, PTL
  <2>2. pc' # "open" /\ key' \in Tuple(job'.nm) /\ \A n \in Dealt(i)' : Of(i, n)'.m = key' \/ Less(Of(i, n)'.m, key')
    BY <1>0, <1>21, <1>a, JobSame
  <2>3. /\ Passed(scan, i)' => Behold(i)'
        /\ Stays(scan, i)' => Within(i)'
    BY <1>0, <1>a, <2>1, <2>2, JobSame DEF PassedSays
  <2>4. /\ Passed(scan, i)' <=> Passed(scan', i)
        /\ Stays(scan, i)' <=> Stays(scan', i)
    BY <1>0 DEF Passed, Stays, Forw
  <2>. QED  BY <2>3, <2>4
<1>23. Behold(i)' => SeesLast(i)'
  <2>. SUFFICES ASSUME Behold(i)' PROVE SeesLast(i)'
    OBVIOUS
  <2>1. \A n \in Wanted(i) : n \in Dealt(i)' \/ Less(key, Of(i, n).m)
    BY <1>0, JobSame DEF Behold
  <2>2. \A n \in With(i, key) : n \in Dealt(i)'
    BY <1>a, <2>1, WantedFacts, LessOrder DEF With
  <2>3. \A n \in With(i, key) : n <= r
    BY <1>5, <1>6, <1>a, <2>2, WithFacts
  <2>4. LastOf(i, key) = r
    <3>1. LastOf(i, key) \in With(i, key) /\ r <= LastOf(i, key) /\ LastOf(i, key) \in Nat
      BY <1>5, <1>a, WithFacts
    <3>. QED  BY <1>5, <2>3, <3>1
  <2>5. Dealt(i)' \cap With(i, key) = With(i, key)
    BY <2>2
  <2>6. rec'[i] = [n |-> LastOf(i, key), m |-> key] /\ count'[i] = Cardinality(With(i, key))
    BY <1>8, <1>9, <2>4, <2>5
  <2>. QED  BY <1>0, <2>6, JobSaysSame DEF SeesLast
<1>24. MergeIn'
  <2>1. /\ at' \in 1 .. MaxIi + 1
        /\ \A j \in Inputs : /\ j < at' => j < at \/ (j = i /\ Passed(scan', i))
                             /\ j >= at' => (j >= at /\ j # i) \/ (j = i /\ Stays(scan', i))
                             /\ j > at' => j > at /\ j # i
                             /\ j < at => j # i
    BY <1>1, <1>2, <1>a
  <2>2. ASSUME NEW j \in Inputs, j # i
        PROVE  /\ Behold(j) => Behold(j)'
               /\ Within(j) => Within(j)'
               /\ SeesLast(j) => SeesLast(j)'
               /\ Dealt(j)' \cap With(j, key)' = Dealt(j) \cap With(j, key)
               /\ count'[j] = count[j]
    BY <1>0, <1>6, <1>8, <2>2, JobSame, JobSaysSame DEF Behold, Within, SeesLast
  <2>3. ASSUME NEW j \in Inputs, j < at' PROVE Behold(j)' /\ SeesLast(j)'
    <3>1. CASE j < at
      BY <1>3, <2>1, <2>2, <3>1 DEF MergeIn
    <3>2. CASE j = i /\ Passed(scan', i)
      BY <1>22, <1>23, <3>2
    <3>. QED  BY <2>1, <2>3, <3>1, <3>2
  <2>4. ASSUME NEW j \in Inputs,
               j >= at' PROVE Within(j)' /\ count'[j] = Cardinality(Dealt(j)' \cap With(j, key)')
    <3>1. CASE j >= at /\ j # i
      BY <1>3, <2>1, <2>2, <3>1 DEF MergeIn
    <3>2. CASE j = i /\ Stays(scan', i)
      BY <1>0, <1>9, <1>22, <3>2, JobSaysSame
    <3>. QED  BY <2>1, <2>4, <3>1, <3>2
  <2>5. ASSUME NEW j \in Inputs, j > at' PROVE Dealt(j)' \cap With(j, key)' = {}
    BY <1>3, <2>1, <2>2, <2>5 DEF MergeIn
  <2>. QED  BY <1>0, <2>1, <2>3, <2>4, <2>5, JobSame DEF MergeIn
<1>. QED  BY <1>0, <1>13, <1>20, <1>24, <1>a DEF MergedInv

(* A group ends that is written: the same for merges and joins.            *)
LEMMA GroupCloses ==
  ASSUME OrderInv, AllInOrder, Always, pc \notin Outside, pc # "open", KeyOK, key \in Tuple(job.nm),
         key \in GroupKeys,
         \A i \in Inputs : Behold(i) /\ SeesLast(i),
         pc' = "group", WriteGroup(sum), UNCHANGED <<job, scan, rec, count, key, sum>>
  PROVE  /\ Always' /\ KeysDone' = KeysDone \cup {key}
         /\ \A i : Dealt(i)' = Dealt(i)
         /\ \A D : Right(out, D) /\ (\A d \in D : Before(d, End(key))) => Right(out', D \cup {End(key)})
<1>. DEFINE e == OutAll(sum)
<1>0. /\ job \in Jobs /\ Inputs = 1 .. MaxIi /\ MaxIi \in 1 .. 9
      /\ GroupOpen /\ Values /\ ShowsRecords /\ EndSums
      /\ KeysDone = {k \in GroupKeys : Less(k, key)}
      /\ pc' \in Outside
  BY JobFacts DEF OrderInv, Shape, Always, KeysDone, Outside
<1>1. out' = Append(out, e) /\ group' = group + 1
  BY DEF WriteGroup
<1>2. PICK S : out \in Seq(S)
  BY <1>0 DEF Values
<1>3. /\ e.o = 0 /\ e.group = group /\ e.recs = rec /\ e.count = count /\ e.sum = sum
  BY DEF OutAll
<1>. HIDE DEF e
<1>4. \A i : Dealt(i)' = Dealt(i)
  BY SameDealt
<1>5. /\ \A i, j \in Inputs : \A g \in Dealt(i), h \in Wanted(j) \ Dealt(j) : Less(Of(i, g).m, Of(j, h).m)
      /\ \A i \in Inputs : With(i, key) \subseteq Dealt(i)
      /\ \A k \in GroupKeys :
           (\E i \in Inputs : \E n \in Dealt(i) : Of(i, n).m = k) <=> (Less(k, key) \/ k = key)
  BY GroupEndFacts
<1>6. KeysDone' = KeysDone \cup {key}
  <2>1. KeysDone' = {k \in GroupKeys : \E i \in Inputs : \E n \in Dealt(i) : Of(i, n).m = k}
    BY <1>0, <1>4, JobSame, JobSaysSame DEF KeysDone
  <2>. QED  BY <1>0, <1>5, <2>1
<1>7. group = Nr(key) /\ group \in Nat
  BY <1>0, NrFacts DEF Always, Values
<1>8. Cardinality(KeysDone') = group' - 1
  <2>1. IsFiniteSet(KeysDone) /\ key \notin KeysDone
    <3>1. IsFiniteSet(GroupKeys) /\ KeysDone \in SUBSET GroupKeys
      BY <1>0, KeyFacts
    <3>2. ~Less(key, key)
      BY <1>0, JobFacts, LessOrder
    <3>. QED  BY <1>0, <3>1, <3>2, FS_Subset
  <2>2. Cardinality(KeysDone \cup {key}) = Cardinality(KeysDone) + 1
    BY <2>1, FS_AddElement
  <2>. QED  BY <1>1, <1>6, <1>7, <2>2 DEF Always
<1>9. Bare(e) = End(key)
  <2>. DEFINE c == [i \in Inputs |-> LastOf(i, key)]
  <2>1. rec = [i \in Inputs |-> [n |-> c[i], m |-> key]]
    BY <1>0 DEF Values, SeesLast
  <2>2. count = [i \in Inputs |-> CountTo(i, key, c[i])]
    BY <1>0, CountFacts DEF Values, SeesLast
  <2>3. DOMAIN c = Inputs /\ End(key) = Entry(0, key, c)
    BY EndFacts
  <2>. HIDE DEF c
  <2>4. e.recs = [i \in DOMAIN c |-> [n |-> c[i], m |-> key]] /\ e.count = [i \in DOMAIN c |-> CountTo(i, key, c[i])]
    BY <1>3, <2>1, <2>2, <2>3
  <2>5. Bare(e) = Entry(e.o, key, c)
    BY <1>3, <1>7, <2>4, BareIs
  <2>. QED  BY <1>3, <2>3, <2>5
<1>10. /\ out' \in Seq(S \cup {e}) /\ DOMAIN out = 1 .. Len(out) /\ DOMAIN out' = 1 .. Len(out) + 1
       /\ Len(out) \in Nat
       /\ (\A p \in 1 .. Len(out) : out'[p] = out[p]) /\ out'[Len(out) + 1] = e
  BY <1>1, <1>2, AppendFacts
<1>11. \A j \in Inputs : e.o # OutputOf(j)
  BY <1>0, <1>3 DEF OutputOf
<1>12. ShowsRecords'
  <2>. SUFFICES ASSUME NEW q \in DOMAIN out'
                PROVE  /\ out'[q].group \in Nat /\ out'[q].group <= group
                       /\ \A j \in Inputs : out'[q].o = OutputOf(j) => out'[q].recs[j].n \in Wanted(j)
    <3>1. \A x \in Nat : x <= group => x <= group' /\ x < group'
      BY <1>1, <1>7
    <3>. QED  BY <3>1, JobSame DEF ShowsRecords, OutputOf
  <2>1. CASE q \in 1 .. Len(out)
    BY <1>0, <1>10, <2>1 DEF ShowsRecords
  <2>2. CASE q = Len(out) + 1
    <3>1. out'[q] = e
      BY <1>10, <2>2
    <3>. QED  BY <1>3, <1>7, <1>11, <3>1
  <2>. QED  BY <1>10, <2>1, <2>2
<1>13. EndSums'
  <2>1. \A q \in DOMAIN out : \A j \in Inputs : out[q].o = OutputOf(j) => out[q].recs[j].n \in Wanted(j)
    BY <1>0 DEF ShowsRecords
  <2>2. \A g \in Nat : e.o = 0 /\ e.group = g => e.sum = [i \in Inputs |-> <<SumTo(ShownOf(i, g), Len(out))>>]
    <3>1. sum = [i \in Inputs |-> <<SumTo(ShownOf(i, group), Len(out))>>]
      BY <1>0 DEF GroupOpen
    <3>. QED  BY <1>3, <3>1
  <2>. QED  BY <1>0, <1>1, <1>2, <1>11, <2>1, <2>2, EndSumsGrow
<1>14. Values'
  <2>1. \E T : out' \in Seq(T)
    BY <1>10
  <2>2. group' \in Nat \ {0}
    BY <1>1, <1>7
  <2>. QED  BY <1>0, <2>1, <2>2, JobSame DEF Values
<1>15. Between'
  <2>1. PICK i \in Inputs : With(i, key) # {}
    BY <1>0, KeyFacts DEF GroupOpen
  <2>2. Dealt(i) # {}
    BY <1>5, <2>1
  <2>. QED  BY <1>4, <1>5, <2>2, JobSame DEF Between
<1>16. Always'
  BY <1>0, <1>8, <1>12, <1>13, <1>14, <1>15 DEF Always
<1>17. \A D : Right(out, D) /\ (\A d \in D : Before(d, End(key))) => Right(out', D \cup {End(key)})
  BY <1>1, <1>2, <1>9, OutGrows
<1>. QED  BY <1>4, <1>6, <1>16, <1>17

(* The end of a group of a plain merge.                                    *)
LEMMA MergedEnd ==
  ASSUME OrderInv, MergedInv, job.kind = "merge", AllInOrder, MergeGroupEnds
  PROVE  MergedInv'
<1>1. /\ pc = "merge" /\ at > MaxIi /\ pc' = "group" /\ WriteGroup(sum)
      /\ UNCHANGED <<job, scan, rec, count, key, sum>>
  BY DEF MergeGroupEnds
<1>2. /\ Always /\ Right(out, Merged) /\ MergeIn /\ GroupOpen
      /\ KeysDone = {k \in GroupKeys : Less(k, key)}
      /\ pc \notin Outside
  BY <1>1 DEF MergedInv, Always, Outside, KeysDone
<1>3. /\ job \in Jobs /\ MaxIi \in 1 .. 9 /\ Inputs = 1 .. MaxIi /\ key \in Tuple(job.nm)
      /\ GroupKeys = AllKeys /\ key \in GroupKeys /\ KeyOK
      /\ \A j \in Inputs : \A n \in Wanted(j) : Of(j, n).m \in GroupKeys
      /\ \A k : Nr(k) \in Nat
      /\ \A k, l \in GroupKeys : Less(k, l) => Nr(k) < Nr(l)
  BY <1>1, <1>2, JobFacts, KeyFacts, NrFacts DEF OrderInv, Shape, KeyOK, GroupOpen
<1>4. \A i \in Inputs : Behold(i) /\ SeesLast(i)
  <2>1. \A i \in Inputs : i < at
    BY <1>1, <1>2, <1>3 DEF MergeIn
  <2>. QED  BY <1>2, <2>1 DEF MergeIn
<1>5. /\ Always' /\ KeysDone' = KeysDone \cup {key}
      /\ \A i : Dealt(i)' = Dealt(i)
      /\ \A D : Right(out, D) /\ (\A d \in D : Before(d, End(key))) => Right(out', D \cup {End(key)})
  BY <1>1, <1>2, <1>3, <1>4, GroupCloses
<1>6. ASSUME NEW d \in Merged PROVE Before(d, End(key))
  <2>1. CASE \E j \in Inputs : \E n \in Dealt(j) : d = Taken(j, n)
    <3>1. PICK j \in Inputs : \E n \in Dealt(j) : d = Taken(j, n)
      BY <2>1
    <3>2. PICK n \in Dealt(j) : d = Taken(j, n)
      BY <3>1
    <3>3. d.o = j /\ d.group = Nr(Of(j, n).m) /\ j # 0 /\ Of(j, n).m \in GroupKeys
      BY <1>3, <3>2, TakenFacts DEF Dealt
    <3>4. Of(j, n).m = key \/ Less(Of(j, n).m, key)
      BY <1>4, <3>2 DEF Behold
    <3>. QED  BY <1>3, <3>3, <3>4, EndFacts DEF Before
  <2>2. CASE \E k \in KeysDone : d = End(k)
    <3>1. PICK k \in KeysDone : d = End(k)
      BY <2>2
    <3>. QED  BY <1>2, <1>3, <3>1, EndFacts DEF Before
  <2>. QED  BY <2>1, <2>2, InMerged
<1>7. Merged' = Merged \cup {End(key)}
  <2>1. /\ \A j, n : Taken(j, n)' = Taken(j, n)
        /\ \A k : End(k)' = End(k)
        /\ Inputs' = Inputs
    BY <1>1, JobSame, JobSaysSame
  <2>. DEFINE A == UNION {{Taken(j, n) : n \in Dealt(j)} : j \in Inputs}
  <2>2. Merged = A \cup {End(k) : k \in KeysDone}
    BY DEF Merged
  <2>3. Merged' = A \cup {End(k) : k \in KeysDone'}
    BY <1>5, <2>1 DEF Merged
  <2>. HIDE DEF A
  <2>. QED  BY <1>5, <2>2, <2>3
<1>8. Right(out', Merged')
  BY <1>2, <1>5, <1>6, <1>7
<1>. QED  BY <1>1, <1>5, <1>8, JobSame DEF MergedInv, Outside

(* Every step of a plain merge keeps the invariant.                        *)
LEMMA MergedStep == OrderInv /\ OrderInv' /\ MergedInv /\ [MRNext]_vars => MergedInv'
<1>. SUFFICES ASSUME OrderInv, OrderInv', MergedInv, [MRNext]_vars PROVE MergedInv'
  OBVIOUS
<1>0. job' = job
  BY NextJob
<1>. SUFFICES ASSUME job.kind = "merge", AllInOrder PROVE MergedInv'
  BY <1>0, JobSame DEF MergedInv
<1>1. pc \in Outside \cup {"merge"} /\ Always /\ Right(out, Merged)
  BY DEF MergedInv
<1>2. CASE MergeBegins \/ MergeEnds
  <2>1. /\ \A i \in Inputs : Dealt(i)' = Dealt(i)
        /\ KeysDone' = KeysDone /\ Always'
        /\ \A D : Right(out, D) => Right(out', D)
    BY <1>1, <1>2, BeginsFacts, EndsFacts
  <2>2. pc' \in Outside /\ pc' # "merge" /\ job' = job
    BY <1>2 DEF MergeBegins, MergeEnds, Outside
  <2>3. Merged' = Merged
    BY <2>1, <2>2, MergedSame
  <2>. QED  BY <1>1, <2>1, <2>2, <2>3 DEF MergedInv
<1>3. CASE NextGroup
  BY <1>3, MergedGroup
<1>4. CASE MergeRec
  BY <1>4, MergedRec
<1>5. CASE MergeNone
  BY <1>5, MergedNone
<1>6. CASE MergeGroupEnds
  BY <1>6, MergedEnd
<1>7. CASE JoinFirst \/ JoinNone \/ JoinWrite \/ JoinNext \/ JoinBack \/ JoinGroupEnds
  BY <1>1, <1>7 DEF JoinFirst, JoinNone, JoinWrite, JoinNext, JoinBack, JoinGroupEnds, Outside
<1>8. CASE ReportNext
  BY <1>1, <1>8 DEF ReportNext, ReportBegins, GroupHeads, InputBegins, InputSkipped, PrintLine,
       InputEnds,
                    SameSort, SortChanges, SortBegins, GroupEnds, ReportEnds, Outside
<1>9. CASE UNCHANGED vars
  <2>1. UNCHANGED <<job, pc, at, scan, rec, exist, count, key, group, sum, out>>
    BY <1>9 DEF vars, inVars
  <2>2. \A i : Dealt(i)' = Dealt(i)
    BY <2>1, SameDealt
  <2>3. KeysDone' = KeysDone
    BY <2>1, <2>2, JobSame, JobSaysSame DEF KeysDone
  <2>4. Merged' = Merged
    BY <2>1, <2>2, <2>3, MergedSame
  <2>5. \A i, g : ShownOf(i, g)' = ShownOf(i, g)
    BY <2>1, JobSame DEF ShownOf
  <2>6. Values' /\ ShowsRecords' /\ EndSums' /\ (pc' \in Outside => Between')
    BY <1>1, <2>1, <2>2, <2>5, JobSame, JobSaysSame
    DEF Always, Values, ShowsRecords, NoneOf, EndSums, Between, OutputOf
  <2>7. pc' \notin Outside => GroupOpen'
    <3>1. \A i : ShownOf(i, group)' = ShownOf(i, group)
      BY <2>1, JobSame DEF ShownOf
    <3>. QED  BY <1>1, <2>1, <3>1, JobSame, JobSaysSame DEF Always, GroupOpen
  <2>8. Always'
    BY <1>1, <2>1, <2>2, <2>3, <2>6, <2>7, JobSame DEF Always
  <2>9. pc' = "merge" => MergeIn'
    <3>1. \A i \in Inputs : /\ Behold(i) => Behold(i)'
                            /\ Within(i) => Within(i)'
                            /\ SeesLast(i) => SeesLast(i)'
                            /\ Dealt(i)' \cap With(i, key)' = Dealt(i) \cap With(i, key)
      BY <2>1, <2>2, JobSame, JobSaysSame DEF Behold, Within, SeesLast
    <3>2. pc = "merge" => MergeIn
      BY DEF MergedInv
    <3>. QED  BY <2>1, <3>1, <3>2, JobSame DEF MergeIn
  <2>. QED  BY <1>1, <2>1, <2>4, <2>8, <2>9 DEF MergedInv
<1>. QED  BY <1>2, <1>3, <1>4, <1>5, <1>6, <1>7, <1>8, <1>9 DEF MRNext, MergeNext, Ended

(* The invariants say at the end what a merge must have written.           *)
LEMMA MergedSays ==
  ASSUME OrderInv, MergedInv, job.kind = "merge", pc = "done"
  PROVE  MergeFollowsInputs
<1>1. AllInOrder
  BY OrderSays DEF UnsortedRefused
<1>2. Always /\ Right(out, Merged) /\ pc \in Outside /\ job \in Jobs
  BY <1>1 DEF MergedInv, Outside, OrderInv, Shape
<1>3. \A i \in Inputs : Dealt(i) = Wanted(i)
  BY DEF OrderInv, Ends, Open, Dealt
<1>4. KeysDone = GroupKeys
  <2>1. \A k \in GroupKeys : \E i \in Inputs : \E n \in Wanted(i) : Of(i, n).m = k
    BY <1>2, KeyFacts DEF With
  <2>. QED  BY <1>2, <1>3, <2>1 DEF KeysDone
<1>5. Merged = Entries
  <2>. DEFINE A == UNION {{Taken(i, n) : n \in Wanted(i)} : i \in Inputs}
              B == {End(k) : k \in GroupKeys}
  <2>1. Merged = A \cup B
    BY <1>3, <1>4 DEF Merged
  <2>2. Entries = B \cup A
    BY DEF Entries
  <2>. HIDE DEF A, B
  <2>. QED  BY <2>1, <2>2
<1>6. \A p \in DOMAIN out : out[p].o = 0 =>
        out[p].sum = [i \in Inputs |-> <<SumTo(ShownOf(i, out[p].group), p)>>]
  BY <1>2 DEF Always, EndSums, ShowsRecords
<1>. QED  BY <1>2, <1>5, <1>6 DEF MergeFollowsInputs, Right

(***************************************************************************)
(* Written: joins.                                                         *)
(***************************************************************************)


LEMMA InJoined ==
  ASSUME NEW x
  PROVE  x \in Joined <=> \/ \E k \in KeysDone : \E c \in Picks(k) : x = Entry(MaxIi, k, c)
                          \/ \E k \in KeysDone : x = End(k)
                          \/ /\ ~NoneOf
                             /\ \E c \in Picks(key) : Shown(c) /\ x = Entry(MaxIi, key, c)
<1>. DEFINE A == UNION {{Entry(MaxIi, k, c) : c \in Picks(k)} : k \in KeysDone}
            B == {End(k) : k \in KeysDone}
            C == {Entry(MaxIi, key, c) : c \in {d \in Picks(key) : Shown(d)}}
<1>1. x \in A <=> \E k \in KeysDone : \E c \in Picks(k) : x = Entry(MaxIi, k, c)
  OBVIOUS
<1>2. x \in B <=> \E k \in KeysDone : x = End(k)
  OBVIOUS
<1>3. x \in C <=> \E c \in Picks(key) : Shown(c) /\ x = Entry(MaxIi, key, c)
  OBVIOUS
<1>4. Joined = A \cup B \cup (IF NoneOf THEN {} ELSE C)
  BY DEF Joined, NoneOf
<1>. HIDE DEF A, B, C, NoneOf
<1>. QED  BY <1>1, <1>2, <1>3, <1>4

(* The inputs of a combination, and when there is one.                     *)
LEMMA PickFacts ==
  ASSUME job \in Jobs, NEW k
  PROVE  \A c \in Picks(k) : /\ DOMAIN c = Inputs
                             /\ c = [i \in Inputs |-> c[i]]
                             /\ \A i \in Inputs : c[i] \in With(i, k) /\ c[i] \in Nat
                             /\ c \in [Inputs -> Nat]
<1>1. \A i \in Inputs : With(i, k) \subseteq Nat
  BY WithFacts
<1>. QED  BY <1>1 DEF Picks

(* Combinations up to one input more.                                      *)
LEMMA UnderSteps ==
  ASSUME NEW c, NEW i \in Nat
  PROVE  /\ Under(c, i + 1) <=> Under(c, i) \/ (Same(c, i) /\ c[i + 1] < rec[i + 1].n)
         /\ Same(c, i + 1) <=> Same(c, i) /\ c[i + 1] = rec[i + 1].n
<1>1. 1 .. i + 1 = (1 .. i) \cup {i + 1} /\ (i + 1) - 1 = i
  OBVIOUS
<1>. QED  BY <1>1 DEF Under, Same

(* They depend on the records that formulas see.                           *)
LEMMA UnderSame ==
  ASSUME NEW i \in Nat, \A j \in 1 .. i : rec'[j] = rec[j]
  PROVE  \A c : (Under(c, i)' <=> Under(c, i)) /\ (Same(c, i)' <=> Same(c, i))
<1>. TAKE c
<1>1. \A j \in 1 .. i : \A h \in 1 .. j - 1 : h \in 1 .. i
  OBVIOUS
<1>2. Same(c, i)' <=> Same(c, i)
  BY DEF Same
<1>3. Under(c, i)' <=> Under(c, i)
  BY <1>1 DEF Under
<1>. QED  BY <1>2, <1>3

(* What the invariant says within a group of a join.                       *)
LEMMA JoinHere ==
  ASSUME OrderInv, JoinedInv, job.kind = "join", AllInOrder, pc \in {"down", "up"}
  PROVE  /\ job \in Jobs /\ MaxIi \in 1 .. 9 /\ Inputs = 1 .. MaxIi /\ key \in Tuple(job.nm) /\ at \in Nat
         /\ exist \subseteq Inputs /\ key \in AllKeys
         /\ key \in GroupKeys <=> exist = Inputs
         /\ NoneOf <=> exist # Inputs
         /\ KeysDone = {k \in GroupKeys : Less(k, key)}
         /\ Always /\ JoinIn /\ Right(out, Joined) /\ GroupOpen /\ Values
         /\ pc \notin Outside
         /\ scan \in [Inputs -> [irec : Nat, eof : BOOLEAN]]
<1>1. pc \notin Outside
  BY DEF Outside
<1>2. Always /\ JoinIn /\ Right(out, Joined) /\ GroupOpen /\ Values
  BY <1>1 DEF JoinedInv, Always
<1>3. /\ job \in Jobs /\ MaxIi \in 1 .. 9 /\ Inputs = 1 .. MaxIi /\ key \in Tuple(job.nm) /\ at \in Nat
      /\ exist \subseteq Inputs /\ scan \in [Inputs -> [irec : Nat, eof : BOOLEAN]]
  BY JobFacts DEF OrderInv, Shape, KeyOK
<1>4. key \in AllKeys /\ (key \in GroupKeys <=> exist = Inputs)
  BY <1>2, <1>3, KeyFacts DEF GroupOpen
<1>. QED  BY <1>1, <1>2, <1>3, <1>4 DEF NoneOf, KeysDone

(* A step that writes nothing and shows no combination keeps it.           *)
LEMMA JoinQuiet ==
  ASSUME OrderInv, JoinedInv, job.kind = "join", AllInOrder, pc \in {"down", "up"},
         pc' \in {"down", "up"},
         UNCHANGED <<job, exist, key, group, sum, out>>,
         rec' \in [Inputs -> [n : Nat, m : Tuple(job.nm) \cup {<<>>}]], count' \in [Inputs -> Nat],
         exist = Inputs => \A c \in Picks(key) : Shown(c)' <=> Shown(c),
         JoinIn'
  PROVE  JoinedInv'
<1>1. /\ job \in Jobs /\ Always /\ Right(out, Joined) /\ GroupOpen /\ Values
      /\ NoneOf <=> exist # Inputs
      /\ pc \notin Outside /\ pc' \notin Outside
  BY JoinHere DEF Outside
<1>2. KeysDone' = KeysDone
  BY <1>1, JobSaysSame DEF KeysDone
<1>3. NoneOf' <=> NoneOf
  BY <1>1, JobSaysSame DEF NoneOf
<1>4. Joined' = Joined
  <2>. DEFINE C == {d \in Picks(key) : Shown(d)}
              D == {d \in Picks(key) : Shown(d)'}
              A == (UNION {{Entry(MaxIi, k, c) : c \in Picks(k)} : k \in KeysDone}) \cup {End(k) : k \in KeysDone}
  <2>1. ~NoneOf => C = D
    BY <1>1
  <2>2. Joined = A \cup (IF NoneOf THEN {} ELSE {Entry(MaxIi, key, c) : c \in C})
    BY DEF Joined, NoneOf
  <2>3. Joined' = A \cup (IF NoneOf THEN {} ELSE {Entry(MaxIi, key, c) : c \in D})
    BY <1>2, <1>3, JobSame, JobSaysSame DEF Joined, NoneOf
  <2>. HIDE DEF A, C, D, NoneOf
  <2>. QED  BY <2>1, <2>2, <2>3
<1>5. ShowsRecords' /\ EndSums' /\ (\A D : Right(out, D) => Right(out', D))
  BY <1>1, <1>3, SameOut DEF Always
<1>6. Values'
  BY <1>1, JobSame DEF Values
<1>7. GroupOpen'
  <2>1. \A i : ShownOf(i, group)' = ShownOf(i, group)
    BY JobSame DEF ShownOf
  <2>. QED  BY <1>1, <2>1, JobSame, JobSaysSame DEF GroupOpen
<1>8. Always'
  BY <1>1, <1>2, <1>5, <1>6, <1>7 DEF Always, Outside
<1>9. pc' \in Outside \cup {"down", "up"}
  OBVIOUS
<1>. QED  BY <1>1, <1>4, <1>5, <1>8, <1>9 DEF JoinedInv

(* A group of a join begins.                                               *)
LEMMA JoinedGroup ==
  ASSUME OrderInv, JoinedInv, job.kind = "join", AllInOrder, NextGroup
  PROVE  JoinedInv'
<1>1. /\ pc = "group" /\ pc' = "down" /\ at' = 1 /\ empty' = FALSE
      /\ start' = [i \in Inputs |-> scan[i].irec]
      /\ UNCHANGED <<job, scan, rec, group, out>>
  BY DEF NextGroup
<1>2. /\ Always /\ Right(out, Joined) /\ Between /\ NoneOf
      /\ job \in Jobs /\ MaxIi \in 1 .. 9 /\ Inputs = 1 .. MaxIi
  BY <1>1, JobFacts DEF JoinedInv, Always, Outside, OrderInv, Shape, NoneOf
<1>3. /\ \A i : Dealt(i)' = Dealt(i)
      /\ KeysDone' = KeysDone
      /\ Always'
      /\ \A D : Right(out, D) => Right(out', D)
  BY <1>2, GroupBegins
<1>4. \A i \in Inputs :
        /\ \A n \in Dealt(i) : Less(Of(i, n).m, key')
        /\ i \notin exist' => \A n \in Wanted(i) \ Dealt(i) : Less(key', Of(i, n).m)
        /\ i \in exist' => /\ scan[i].irec \in With(i, key')
                           /\ \A n \in With(i, key') : scan[i].irec <= n
  BY <1>2, NextGroupFacts
<1>5. Joined' = Joined
  <2>. DEFINE A == (UNION {{Entry(MaxIi, k, c) : c \in Picks(k)} : k \in KeysDone}) \cup {End(k) : k \in KeysDone}
              C == {d \in Picks(key') : Shown(d)'}
  <2>1. C = {}
    <3>1. \A c : ~Shown(c)'
      BY <1>1 DEF Shown, Under
    <3>. QED  BY <3>1
  <2>2. Joined = A
    BY <1>2 DEF Joined, NoneOf
  <2>3. Joined' = A \cup (IF NoneOf' THEN {} ELSE {Entry(MaxIi, key', c) : c \in C})
    BY <1>1, <1>3, JobSame, JobSaysSame DEF Joined, NoneOf
  <2>. HIDE DEF A, C, NoneOf
  <2>. QED  BY <2>1, <2>2, <2>3
<1>6. JoinIn'
  <2>1. \A i \in Inputs : i \notin exist' => Behold(i)'
    BY <1>1, <1>3, <1>4, JobSame DEF Behold
  <2>2. \A i \in Inputs : i \in exist' => /\ start'[i] \in With(i, key)'
                                          /\ \A n \in With(i, key)' : start'[i] <= n
    BY <1>1, <1>4, JobSaysSame
  <2>3. at' \in 1 .. MaxIi + 1 /\ \A i \in Inputs : i >= at' /\ ~(i < at')
    BY <1>1, <1>2
  <2>4. exist' \subseteq Inputs
    BY <1>1 DEF NextGroup, Existing, Open
  <2>. QED  BY <1>1, <2>1, <2>2, <2>3, <2>4, JobSame DEF JoinIn
<1>7. Right(out', Joined')
  BY <1>2, <1>3, <1>5
<1>. QED  BY <1>1, <1>3, <1>6, <1>7 DEF JoinedInv, Outside

(* What a step for one input leaves true of the others.                    *)
LEMMA JoinOthers ==
  ASSUME UNCHANGED <<job, key, exist, start>>, NEW i,
         \A j \in Inputs : j # i => scan'[j] = scan[j] /\ rec'[j] = rec[j] /\ count'[j] = count[j]
  PROVE  /\ \A j \in Inputs : j # i => /\ Behold(j) => Behold(j)'
                                       /\ SeesHere(j) => SeesHere(j)'
                                       /\ SeesLast(j) => SeesLast(j)'
         /\ \A j : With(j, key)' = With(j, key)
<1>1. \A j \in Inputs : j # i => Dealt(j)' = Dealt(j)
  BY JobSame DEF Dealt
<1>2. \A j \in Inputs : j # i => (Behold(j) => Behold(j)')
  BY <1>1, JobSame DEF Behold
<1>3. \A j \in Inputs : j # i => (SeesHere(j) => SeesHere(j)') /\ (SeesLast(j) => SeesLast(j)')
  BY JobSaysSame DEF SeesHere, SeesLast
<1>. QED  BY <1>2, <1>3, JobSaysSame

(* A call for an input without a record in the group, and the return; the  *)
(* innermost call in a group that an input lacks.                          *)
LEMMA JoinedNone ==
  ASSUME OrderInv, JoinedInv, job.kind = "join", AllInOrder, JoinNone \/ JoinBack \/ (JoinWrite /\ empty)
  PROVE  JoinedInv'
<1>1. /\ pc \in {"down", "up"} /\ pc' \in {"down", "up"}
      /\ UNCHANGED <<job, scan, exist, key, group, sum, out, start, count>>
  BY DEF JoinNone, JoinBack, JoinWrite
<1>2. /\ job \in Jobs /\ MaxIi \in 1 .. 9 /\ Inputs = 1 .. MaxIi /\ key \in Tuple(job.nm) /\ at \in Nat
      /\ exist \subseteq Inputs /\ JoinIn /\ Values
  BY <1>1, JoinHere
<1>3. exist # Inputs
  BY <1>2 DEF JoinNone, JoinBack, JoinWrite, JoinIn
<1>4. rec' \in [Inputs -> [n : Nat, m : Tuple(job.nm) \cup {<<>>}]] /\ count' \in [Inputs -> Nat]
  BY <1>1, <1>2 DEF JoinNone, JoinBack, JoinWrite, ResetRec, Values
<1>5. JoinIn'
  <2>1. CASE JoinNone
    <3>1. /\ pc = "down" /\ pc' = "down" /\ at \in Inputs \ exist /\ empty' = TRUE /\ at' = at + 1
          /\ rec' = [rec EXCEPT ![at] = [n |-> 0, m |-> key]]
      BY <2>1 DEF JoinNone, ResetRec
    <3>2. PICK i \in Inputs : i = at /\ i \notin exist
      BY <3>1
    <3>3. rec'[i] = [n |-> 0, m |-> key] /\ \A j \in Inputs : j # i => rec'[j] = rec[j]
      BY <1>2, <3>1, <3>2 DEF Values
    <3>4. /\ \A j \in Inputs : j # i => (Behold(j) => Behold(j)') /\ (SeesHere(j) => SeesHere(j)')
          /\ \A j : With(j, key)' = With(j, key)
      BY <1>1, <3>3, JoinOthers
    <3>5. SeesHere(i)'
      BY <1>1, <3>2, <3>3 DEF SeesHere
    <3>6. Behold(i)'
      <4>1. \A j : Dealt(j)' = Dealt(j)
        BY <1>1, SameDealt
      <4>2. Behold(i)
        BY <1>2, <3>2 DEF JoinIn
      <4>. QED  BY <1>1, <4>1, <4>2, JobSame DEF Behold
    <3>7. at' \in 1 .. MaxIi + 1 /\ \A j \in Inputs : j < at' => j < at \/ j = i
      BY <1>2, <3>1, <3>2
    <3>8. \A j \in Inputs \ exist : Behold(j)'
      BY <1>2, <3>4, <3>6 DEF JoinIn
    <3>9. \A j \in Inputs : j < at' => SeesHere(j)'
      BY <1>2, <3>4, <3>5, <3>7 DEF JoinIn
    <3>10. \A j \in exist : start[j] \in With(j, key) /\ \A n \in With(j, key) : start[j] <= n
      BY <1>2 DEF JoinIn
    <3>. QED  BY <1>1, <1>3, <3>1, <3>4, <3>7, <3>8, <3>9, <3>10, JobSame DEF JoinIn
  <2>2. CASE JoinBack \/ (JoinWrite /\ empty)
    <3>1. /\ pc' = "up" /\ UNCHANGED <<rec, empty>>
          /\ \/ pc = "up" /\ at \in Inputs \ exist /\ at' = at - 1
             \/ pc = "down" /\ at > MaxIi /\ at' = MaxIi /\ empty
      BY <2>2 DEF JoinBack, JoinWrite
    <3>2. /\ \A j \in Inputs : /\ Behold(j) => Behold(j)'
                               /\ SeesHere(j) => SeesHere(j)'
                               /\ SeesLast(j) => SeesLast(j)'
          /\ \A j : With(j, key)' = With(j, key)
      <4>1. 0 \notin Inputs
        BY <1>2
      <4>. QED  BY <1>1, <3>1, <4>1, JoinOthers
    <3>3. /\ at' \in 0 .. MaxIi
          /\ \A j \in Inputs : j < at' \/ j = at' => j < at
          /\ \A j \in exist : j > at' => pc = "up" /\ j > at
      BY <1>2, <3>1
    <3>4. \A j \in Inputs \ exist : Behold(j)'
      BY <1>2, <3>2 DEF JoinIn
    <3>5. \A j \in Inputs : j < at' \/ j = at' => SeesHere(j)'
      BY <1>2, <3>2, <3>3 DEF JoinIn
    <3>6. \A j \in exist : j > at' => Behold(j)' /\ SeesLast(j)'
      BY <1>2, <3>2, <3>3 DEF JoinIn
    <3>7. \A j \in exist : start[j] \in With(j, key) /\ \A n \in With(j, key) : start[j] <= n
      BY <1>2 DEF JoinIn
    <3>8. empty \/ Inputs \ exist = {}
      <4>1. pc = "up" \/ empty
        BY <3>1
      <4>. QED  BY <1>2, <4>1 DEF JoinIn
    <3>. QED  BY <1>1, <1>3, <3>1, <3>2, <3>3, <3>4, <3>5, <3>6, <3>7, <3>8, JobSame DEF JoinIn
  <2>. QED  BY <2>1, <2>2
<1>. QED  BY <1>1, <1>3, <1>4, <1>5, JoinQuiet

(* A call for an input: the first record of the group.                     *)
LEMMA JoinedFirst ==
  ASSUME OrderInv, JoinedInv, job.kind = "join", AllInOrder, JoinFirst
  PROVE  JoinedInv'
<1>1. /\ pc = "down" /\ pc' = "down" /\ at \in exist /\ at' = at + 1
      /\ UNCHANGED <<job, exist, key, group, sum, out, start, empty>>
  BY DEF JoinFirst
<1>2. /\ job \in Jobs /\ MaxIi \in 1 .. 9 /\ Inputs = 1 .. MaxIi /\ key \in Tuple(job.nm) /\ at \in Nat
      /\ exist \subseteq Inputs /\ JoinIn /\ Values /\ scan \in [Inputs -> [irec : Nat, eof : BOOLEAN]]
  BY <1>1, JoinHere
<1>3. PICK i \in exist : i = at /\ i \in Inputs /\ i \in Nat /\ i - 1 \in Nat /\ i <= MaxIi
  BY <1>1, <1>2
<1>. DEFINE r == start[i]
<1>4. /\ r \in With(i, key) /\ r \in Wanted(i) /\ r \in Nat /\ Of(i, r).m = key
      /\ \A n \in With(i, key) : r <= n
  <2>1. r \in With(i, key) /\ \A n \in With(i, key) : r <= n
    BY <1>2 DEF JoinIn
  <2>. QED  BY <1>2, <1>3, <2>1, WithFacts
<1>5. /\ scan' = [scan EXCEPT ![i] = [irec |-> r, eof |-> FALSE]]
      /\ rec' = [rec EXCEPT ![i] = [n |-> r, m |-> key]]
      /\ count' = [count EXCEPT ![i] = 1]
  <2>1. scan' = [scan EXCEPT ![i] = [irec |-> r, eof |-> FALSE]]
    BY <1>3, <1>4, FirstOfGroupFacts DEF JoinFirst
  <2>2. scan'[i].irec = r /\ Forw(scan', i).m = key
    BY <1>2, <1>3, <1>4, <2>1 DEF Forw, Of
  <2>. QED  BY <1>3, <2>1, <2>2 DEF JoinFirst
<1>. HIDE DEF r
<1>6. /\ rec' \in [Inputs -> [n : Nat, m : Tuple(job.nm) \cup {<<>>}]] /\ count' \in [Inputs -> Nat]
      /\ rec'[i] = [n |-> r, m |-> key] /\ count'[i] = 1 /\ scan'[i].irec = r
      /\ \A j \in Inputs : j # i => scan'[j] = scan[j] /\ rec'[j] = rec[j] /\ count'[j] = count[j]
  BY <1>2, <1>3, <1>4, <1>5 DEF Values
<1>7. /\ \A j \in Inputs : j # i => (Behold(j) => Behold(j)') /\ (SeesHere(j) => SeesHere(j)')
      /\ \A j : With(j, key)' = With(j, key)
  BY <1>1, <1>6, JoinOthers
<1>8. SeesHere(i)'
  <2>1. {p \in With(i, key) : p <= r} = {r}
    BY <1>2, <1>3, <1>4, WithFacts
  <2>2. CountTo(i, key, r) = 1
    BY <2>1, FS_Singleton DEF CountTo
  <2>. QED  BY <1>1, <1>6, <2>2, JobSaysSame DEF SeesHere
<1>9. JoinIn'
  <2>1. at' \in 1 .. MaxIi + 1 /\ \A j \in Inputs : j < at' => j < at \/ j = i
    BY <1>1, <1>2, <1>3
  <2>2. \A j \in Inputs \ exist : Behold(j)' /\ (empty \/ j >= at')
    <3>1. \A j \in Inputs \ exist : j # i /\ (j >= at => j >= at + 1)
      BY <1>2, <1>3
    <3>. QED  BY <1>1, <1>2, <1>7, <3>1 DEF JoinIn
  <2>3. \A j \in Inputs : j < at' => SeesHere(j)'
    BY <1>1, <1>2, <1>7, <1>8, <2>1 DEF JoinIn
  <2>4. \A j \in exist : start[j] \in With(j, key) /\ \A n \in With(j, key) : start[j] <= n
    BY <1>2 DEF JoinIn
  <2>5. empty => exist # Inputs
    BY <1>2 DEF JoinIn
  <2>. QED  BY <1>1, <1>7, <2>1, <2>2, <2>3, <2>4, <2>5, JobSame DEF JoinIn
<1>10. \A c \in Picks(key) : Shown(c)' <=> Shown(c)
  <2>. SUFFICES ASSUME NEW c \in Picks(key) PROVE Shown(c)' <=> Shown(c)
    OBVIOUS
  <2>1. c[i] \in Nat /\ ~(c[i] < r)
    BY <1>2, <1>3, <1>4, PickFacts
  <2>2. rec' = [rec EXCEPT ![i] = [n |-> r, m |-> key]] /\ \A j \in 1 .. i - 1 : rec'[j] = rec[j]
    BY <1>2, <1>3, <1>5, <1>6
  <2>3. Shown(c) <=> Under(c, i - 1)
    BY <1>1, <1>3 DEF Shown
  <2>4. Shown(c)' <=> Under(c, i)'
    BY <1>1, <1>3 DEF Shown
  <2>5. Under(c, i)' <=> Under(c, i - 1)
    <3>. DEFINE U == \E j \in 1 .. i : c[j] < rec'[j].n /\ \A h \in 1 .. j - 1 : c[h] = rec'[h].n
    <3>1. Under(c, i)' <=> U
      BY DEF Under
    <3>2. U <=> Under(c, i - 1)
      <4>1. \A j \in 1 .. i : j \in 1 .. i - 1 \/ j = i
        BY <1>3
      <4>2. \A j \in 1 .. i - 1 : j \in 1 .. i /\ \A h \in 1 .. j - 1 : h \in 1 .. i - 1
        BY <1>3
      <4>3. rec'[i].n = r
        BY <1>6
      <4>. QED  BY <2>1, <2>2, <4>1, <4>2, <4>3 DEF Under
    <3>. QED  BY <3>1, <3>2
  <2>. QED  BY <2>3, <2>4, <2>5
<1>. QED  BY <1>1, <1>6, <1>9, <1>10, JoinQuiet

(* The return to the call for an input: its next record, or the way back.  *)
LEMMA JoinedNext ==
  ASSUME OrderInv, OrderInv', JoinedInv, job.kind = "join", AllInOrder, JoinNext
  PROVE  JoinedInv'
<1>1. /\ pc = "up" /\ pc # "open" /\ at \in exist /\ scan' = ReadInpFile(at)
      /\ UNCHANGED <<job, exist, key, group, sum, out, start, empty>>
  BY DEF JoinNext
<1>2. /\ job \in Jobs /\ MaxIi \in 1 .. 9 /\ Inputs = 1 .. MaxIi /\ key \in Tuple(job.nm) /\ at \in Nat
      /\ job.nm \in Nat /\ exist \subseteq Inputs /\ JoinIn /\ Values
      /\ scan \in [Inputs -> [irec : Nat, eof : BOOLEAN]]
  BY <1>1, JoinHere, JobFacts
<1>3. PICK i \in exist : i = at /\ i \in Inputs /\ i \in Nat /\ i - 1 \in Nat /\ i <= MaxIi
  BY <1>1, <1>2
<1>. DEFINE r == scan[i].irec
            s == scan'[i].irec
<1>4. /\ ~scan[i].eof /\ Forw(scan, i).m = key /\ Of(i, r).m = key
      /\ r \in Wanted(i) \ Dealt(i) /\ r \in Nat /\ r \in With(i, key)
      /\ Dealt(i) \subseteq Wanted(i)
      /\ \A n \in Dealt(i) : n < r /\ ~Less(key, Of(i, n).m)
  <2>1. ~scan[i].eof /\ Forw(scan, i).m = key
    BY <1>1, <1>3 DEF OrderInv, Standing, InTheGroup, Stays
  <2>2. /\ r \in Wanted(i) \ Dealt(i) /\ Forw(scan, i).m = Of(i, r).m
        /\ Dealt(i) \subseteq Wanted(i)
        /\ \A n \in Dealt(i) : n < r /\ ~Less(Forw(scan, i).m, Of(i, n).m)
    BY <1>1, <1>3, <2>1, DealtFacts
  <2>. QED  BY <1>2, <1>3, <2>1, <2>2, WantedFacts DEF With
<1>5. Dealt(i)' = Dealt(i) \cup {r}
  BY <1>1, <1>3, <1>4, ReadDealt
<1>6. /\ \A j \in Inputs : j # i => scan'[j] = scan[j]
      /\ ~scan'[i].eof => /\ s \in Wanted(i) /\ r < s
                          /\ \A n \in Wanted(i) : n <= r \/ s <= n
  BY <1>1, <1>3, <1>4, ReadFacts DEF OrderInv
<1>7. rec[i] = [n |-> r, m |-> key] /\ count[i] = CountTo(i, key, r)
  BY <1>1, <1>2, <1>3 DEF JoinIn, SeesHere
<1>8. \A n \in Dealt(i)' : Of(i, n).m = key \/ Less(Of(i, n).m, key)
  BY <1>2, <1>3, <1>4, <1>5, WantedFacts, LessOrder
<1>9. ~Behind(scan', i)
  <2>1. AllInOrder'
    BY <1>1, JobSame
  <2>2. pc' # "refused"
    BY <2>1 DEF OrderInv, Ends
  <2>3. Behind(scan', i) => ~Passed(scan', i) /\ ~Stays(scan', i)
    BY <1>1, <1>2, <1>3, <1>4, BehindOnly DEF OrderInv, Stays
  <2>. QED  BY <1>3, <2>2, <2>3 DEF JoinNext
<1>. HIDE DEF r, s
<1>10. CASE Passed(scan', i)
  <2>1. at' = i - 1 /\ pc' = "up" /\ UNCHANGED <<rec, count>>
    <3>1. ~Stays(scan', i)
      BY <1>2, <1>10, LessOrder DEF Passed, Stays
    <3>. QED  BY <1>1, <1>3, <1>9, <3>1 DEF JoinNext
  <2>2. rec' \in [Inputs -> [n : Nat, m : Tuple(job.nm) \cup {<<>>}]] /\ count' \in [Inputs -> Nat]
    BY <1>2, <2>1 DEF Values
  <2>3. Behold(i)'
    <3>1. PassedSays'
      BY PassedFacts, PTL
    <3>2. pc' # "open" /\ key' \in Tuple(job'.nm) /\ \A n \in Dealt(i)' : Of(i, n)'.m = key' \/ Less(Of(i, n)'.m, key')
      BY <1>1, <1>2, <1>8, <2>1, JobSame
    <3>3. Passed(scan, i)'
      BY <1>1, <1>10 DEF Passed, Forw
    <3>4. AllInOrder' /\ i \in Inputs'
      BY <1>1, <1>3, JobSame
    <3>. QED  BY <3>1, <3>2, <3>3, <3>4 DEF PassedSays
  <2>4. LastOf(i, key) = r
    <3>1. \A n \in Wanted(i) : n \in Dealt(i)' \/ Less(key, Of(i, n).m)
      BY <1>1, <2>3, JobSame DEF Behold
    <3>2. \A n \in With(i, key) : n \in Dealt(i)'
      BY <1>2, <1>3, <3>1, WantedFacts, LessOrder DEF With
    <3>3. \A n \in With(i, key) : n <= r
      BY <1>2, <1>3, <1>4, <1>5, <3>2, WithFacts
    <3>4. LastOf(i, key) \in With(i, key) /\ r <= LastOf(i, key) /\ LastOf(i, key) \in Nat
      BY <1>2, <1>3, <1>4, WithFacts
    <3>. QED  BY <1>4, <3>3, <3>4
  <2>5. SeesLast(i)'
    <3>1. CountTo(i, key, r) = Cardinality(With(i, key))
      BY <1>2, <1>3, <2>4, CountFacts
    <3>. QED  BY <1>1, <1>7, <2>1, <2>4, <3>1, JobSaysSame DEF SeesLast
  <2>6. /\ \A j \in Inputs : j # i => /\ Behold(j) => Behold(j)'
                                      /\ SeesHere(j) => SeesHere(j)'
                                      /\ SeesLast(j) => SeesLast(j)'
        /\ \A j : With(j, key)' = With(j, key)
    BY <1>1, <1>6, <2>1, JoinOthers
  <2>7. JoinIn'
    <3>1. /\ at' \in 0 .. MaxIi
          /\ \A j \in Inputs : j < at' \/ j = at' => j < at /\ j # i
          /\ \A j \in exist : j > at' => j > at \/ j = i
      BY <1>2, <1>3, <2>1
    <3>2. \A j \in Inputs \ exist : Behold(j)' /\ empty
      BY <1>1, <1>2, <1>3, <2>6 DEF JoinIn
    <3>3. \A j \in Inputs : j < at' \/ j = at' => SeesHere(j)'
      BY <1>2, <2>6, <3>1 DEF JoinIn
    <3>4. \A j \in exist : j > at' => Behold(j)' /\ SeesLast(j)'
      <4>. SUFFICES ASSUME NEW j \in exist, j > at' PROVE Behold(j)' /\ SeesLast(j)'
        OBVIOUS
      <4>1. CASE j = i
        BY <2>3, <2>5, <4>1
      <4>2. CASE j # i
        BY <1>1, <1>2, <2>6, <3>1, <4>2 DEF JoinIn
      <4>. QED  BY <4>1, <4>2
    <3>5. \A j \in exist : start[j] \in With(j, key) /\ \A n \in With(j, key) : start[j] <= n
      BY <1>2 DEF JoinIn
    <3>6. empty => exist # Inputs
      BY <1>2 DEF JoinIn
    <3>. QED  BY <1>1, <2>1, <2>6, <3>1, <3>2, <3>3, <3>4, <3>5, <3>6, JobSame DEF JoinIn
  <2>8. \A c \in Picks(key) : Shown(c)' <=> Shown(c)
    <3>. SUFFICES ASSUME NEW c \in Picks(key) PROVE Shown(c)' <=> Shown(c)
      OBVIOUS
    <3>1. c[i] \in Nat /\ c[i] <= r
      BY <1>2, <1>3, <2>4, PickFacts, WithFacts
    <3>2. PICK a \in Nat : i = a + 1
      BY <1>3, i - 1 \in Nat, i = (i - 1) + 1
    <3>3. Shown(c) <=> Under(c, i) \/ Same(c, i)
      BY <1>1, <1>3 DEF Shown
    <3>4. Shown(c)' <=> Under(c, a)' \/ Same(c, a)'
      <4>1. at' = a
        BY <2>1, <3>2
      <4>. QED  BY <2>1, <4>1 DEF Shown, Under, Same
    <3>5. (Under(c, a)' <=> Under(c, a)) /\ (Same(c, a)' <=> Same(c, a))
      BY <2>1 DEF Under, Same
    <3>6. /\ Under(c, i) <=> Under(c, a) \/ (Same(c, a) /\ c[i] < rec[i].n)
          /\ Same(c, i) <=> Same(c, a) /\ c[i] = rec[i].n
      BY <3>2, UnderSteps
    <3>7. rec[i].n = r
      BY <1>7
    <3>. QED  BY <1>4, <3>1, <3>3, <3>4, <3>5, <3>6, <3>7
  <2>. QED  BY <1>1, <2>1, <2>2, <2>7, <2>8, JoinQuiet
<1>11. CASE Stays(scan', i)
  <2>1. /\ at' = i + 1 /\ pc' = "down"
        /\ rec' = [rec EXCEPT ![i] = [n |-> s, m |-> key]]
        /\ count' = [count EXCEPT ![i] = @ + 1]
    <3>1. ~Passed(scan', i) /\ Forw(scan', i).m = key
      BY <1>2, <1>11, LessOrder DEF Passed, Stays
    <3>. QED  BY <1>1, <1>3, <1>9, <3>1 DEF JoinNext, MoveForwToRec, s
  <2>2. /\ ~scan'[i].eof /\ s \in Wanted(i) /\ s \in Nat /\ r < s /\ s \in With(i, key)
        /\ \A n \in Wanted(i) : n <= r \/ s <= n
    <3>1. ~scan'[i].eof /\ Forw(scan', i).m = key
      BY <1>11 DEF Stays
    <3>2. Of(i, s).m = key
      BY <3>1 DEF Forw, Of, s
    <3>. QED  BY <1>2, <1>3, <1>6, <3>1, <3>2, WantedFacts DEF With
  <2>3. /\ rec' \in [Inputs -> [n : Nat, m : Tuple(job.nm) \cup {<<>>}]] /\ count' \in [Inputs -> Nat]
        /\ rec'[i] = [n |-> s, m |-> key] /\ count'[i] = count[i] + 1
        /\ \A j \in Inputs : j # i => rec'[j] = rec[j] /\ count'[j] = count[j]
    BY <1>2, <1>3, <2>1, <2>2 DEF Values
  <2>4. count'[i] = CountTo(i, key, s)
    <3>1. \A p \in With(i, key) : p \in Wanted(i) /\ p \in Nat
      BY <1>2, <1>3, WithFacts
    <3>2. \A p \in With(i, key) : p <= s <=> (p <= r \/ p = s)
      BY <1>4, <2>2, <3>1
    <3>3. {p \in With(i, key) : p <= s} = {p \in With(i, key) : p <= r} \cup {s}
      <4>1. s <= s
        BY <2>2
      <4>. QED  BY <2>2, <3>2, <4>1
    <3>4. IsFiniteSet({p \in With(i, key) : p <= r})
      BY <1>2, <1>3, CountFacts
    <3>5. s \notin {p \in With(i, key) : p <= r}
      BY <1>4, <2>2
    <3>6. CountTo(i, key, s) = CountTo(i, key, r) + 1
      <4>. DEFINE T == {p \in With(i, key) : p <= r}
      <4>1. CountTo(i, key, s) = Cardinality(T \cup {s}) /\ CountTo(i, key, r) = Cardinality(T)
        BY <3>3 DEF CountTo
      <4>2. IsFiniteSet(T) /\ s \notin T
        BY <3>4, <3>5
      <4>. HIDE DEF T
      <4>. QED  BY <4>1, <4>2, FS_AddElement
    <3>. QED  BY <1>7, <2>3, <3>6
  <2>5. SeesHere(i)'
    BY <1>1, <2>3, <2>4, JobSaysSame DEF SeesHere, s
  <2>6. /\ \A j \in Inputs : j # i => (Behold(j) => Behold(j)') /\ (SeesHere(j) => SeesHere(j)')
        /\ \A j : With(j, key)' = With(j, key)
    BY <1>1, <1>6, <2>3, JoinOthers
  <2>7. JoinIn'
    <3>1. at' \in 1 .. MaxIi + 1 /\ \A j \in Inputs : j < at' => j < at \/ j = i
      BY <1>2, <1>3, <2>1
    <3>2. \A j \in Inputs \ exist : Behold(j)' /\ empty
      BY <1>1, <1>2, <1>3, <2>6 DEF JoinIn
    <3>3. \A j \in Inputs : j < at' => SeesHere(j)'
      BY <1>2, <2>5, <2>6, <3>1 DEF JoinIn
    <3>4. \A j \in exist : start[j] \in With(j, key) /\ \A n \in With(j, key) : start[j] <= n
      BY <1>2 DEF JoinIn
    <3>5. empty => exist # Inputs
      BY <1>2 DEF JoinIn
    <3>. QED  BY <1>1, <2>1, <2>6, <3>1, <3>2, <3>3, <3>4, <3>5, JobSame DEF JoinIn
  <2>8. \A c \in Picks(key) : Shown(c)' <=> Shown(c)
    <3>. SUFFICES ASSUME NEW c \in Picks(key) PROVE Shown(c)' <=> Shown(c)
      OBVIOUS
    <3>1. c[i] \in Nat /\ (c[i] < s <=> c[i] <= r)
      <4>1. c[i] \in With(i, key) /\ c[i] \in Nat /\ c[i] \in Wanted(i)
        BY <1>2, <1>3, PickFacts, WithFacts
      <4>. QED  BY <1>4, <2>2, <4>1
    <3>2. PICK a \in Nat : i = a + 1
      BY <1>3, i - 1 \in Nat, i = (i - 1) + 1
    <3>3. Shown(c) <=> Under(c, i) \/ Same(c, i)
      BY <1>1, <1>3 DEF Shown
    <3>4. Shown(c)' <=> Under(c, i)'
      BY <1>3, <2>1 DEF Shown
    <3>5. /\ Under(c, i) <=> Under(c, a) \/ (Same(c, a) /\ c[i] < rec[i].n)
          /\ Same(c, i) <=> Same(c, a) /\ c[i] = rec[i].n
      BY <3>2, UnderSteps
    <3>6. Under(c, i)' <=> Under(c, a) \/ (Same(c, a) /\ c[i] < s)
      <4>. DEFINE U == \E j \in 1 .. i : c[j] < rec'[j].n /\ \A h \in 1 .. j - 1 : c[h] = rec'[h].n
      <4>1. Under(c, i)' <=> U
        BY DEF Under
      <4>2. \A j \in 1 .. i : j \in 1 .. a \/ j = i
        BY <3>2
      <4>3. \A j \in 1 .. a : /\ j \in 1 .. i /\ rec'[j] = rec[j]
                              /\ \A h \in 1 .. j - 1 : h \in 1 .. a
        <5>1. \A j \in 1 .. a : j \in Inputs /\ j # i
          BY <1>2, <1>3, <3>2
        <5>. QED  BY <2>3, <3>2, <5>1
      <4>4. rec'[i].n = s /\ i \in 1 .. i /\ i - 1 = a
        BY <1>3, <2>3, <3>2
      <4>5. U <=> Under(c, a) \/ (Same(c, a) /\ c[i] < s)
        BY <4>2, <4>3, <4>4 DEF Under, Same
      <4>. QED  BY <4>1, <4>5
    <3>7. rec[i].n = r
      BY <1>7
    <3>. QED  BY <1>4, <3>1, <3>3, <3>4, <3>5, <3>6, <3>7
  <2>. QED  BY <1>1, <2>1, <2>3, <2>7, <2>8, JoinQuiet
<1>. QED  BY <1>1, <1>3, <1>9, <1>10, <1>11 DEF JoinNext

(* The sums of a step that sums up one record of every input.              *)
LEMMA SumsOfAll ==
  ASSUME NEW s, sum = [i \in Inputs |-> <<s[i]>>], NEW i \in Inputs, NEW n
  PROVE  SumUp(sum, i, n)[i] = <<s[i] + Of(i, n).v>>
<1>. DEFINE v == Of(i, n).v
<1>1. SumUp(sum, i, n) = [sum EXCEPT ![i][1] = @ + v]
  BY DEF SumUp, Of
<1>. HIDE DEF v
<1>2. [sum EXCEPT ![i][1] = @ + v][i] = [sum[i] EXCEPT ![1] = @ + v]
  OBVIOUS
<1>3. sum[i] = <<s[i]>>
  OBVIOUS
<1>4. [<<s[i]>> EXCEPT ![1] = @ + v] = <<s[i] + v>>
  BY SumOfOne
<1>5. SumUp(sum, i, n)[i] = <<s[i] + v>>
  BY <1>1, <1>2, <1>3, <1>4
<1>. QED  BY <1>5 DEF v

(* The innermost call writes the combination at hand.                      *)
LEMMA JoinedWrite ==
  ASSUME OrderInv, JoinedInv, job.kind = "join", AllInOrder, JoinWrite, ~empty
  PROVE  JoinedInv'
<1>. DEFINE e == OutO(MaxIi, rec, count)
            c0 == [i \in Inputs |-> rec[i].n]
<1>1. /\ pc = "down" /\ at > MaxIi /\ pc' = "up" /\ at' = MaxIi
      /\ sum' = [i \in Inputs |-> SumUp(sum, i, rec[i].n)[i]]
      /\ out' = Append(out, e)
      /\ UNCHANGED <<job, scan, rec, exist, count, key, group, start, empty>>
  BY DEF JoinWrite
<1>2. /\ job \in Jobs /\ MaxIi \in 1 .. 9 /\ Inputs = 1 .. MaxIi /\ key \in Tuple(job.nm) /\ at \in Nat
      /\ exist \subseteq Inputs /\ JoinIn /\ Values /\ Always /\ Right(out, Joined) /\ GroupOpen
      /\ ShowsRecords /\ EndSums
      /\ key \in GroupKeys <=> exist = Inputs
      /\ NoneOf <=> exist # Inputs
      /\ KeysDone = {k \in GroupKeys : Less(k, key)}
      /\ pc \notin Outside /\ pc' \notin Outside
  BY <1>1, JoinHere DEF Always, Outside
<1>3. at = MaxIi + 1 /\ exist = Inputs /\ \A i \in Inputs : i < at /\ SeesHere(i)
  <2>1. at = MaxIi + 1
    BY <1>1, <1>2 DEF JoinIn
  <2>2. \A i \in Inputs : i < at /\ ~(i >= at)
    BY <1>2, <2>1
  <2>. QED  BY <1>1, <1>2, <2>1, <2>2 DEF JoinIn
<1>4. ASSUME NEW i \in Inputs
      PROVE  /\ rec[i] = [n |-> c0[i], m |-> key] /\ rec[i].n = c0[i]
             /\ c0[i] \in With(i, key) /\ c0[i] \in Nat
             /\ count[i] = CountTo(i, key, c0[i])
  <2>1. rec[i] = [n |-> scan[i].irec, m |-> key] /\ count[i] = CountTo(i, key, scan[i].irec)
    BY <1>3 DEF SeesHere
  <2>2. ~scan[i].eof /\ Forw(scan, i).m = key
    BY <1>1, <1>3 DEF OrderInv, Standing, InTheGroup, Stays
  <2>3. scan[i].irec \in Wanted(i) /\ Forw(scan, i).m = Of(i, scan[i].irec).m
    BY <1>1, <2>2, DealtFacts
  <2>4. c0[i] = scan[i].irec
    BY <2>1
  <2>5. scan[i].irec \in With(i, key) /\ scan[i].irec \in Nat
    BY <1>2, <2>2, <2>3, WantedFacts DEF With
  <2>6. rec[i].n = scan[i].irec
    BY <2>1
  <2>. HIDE DEF c0
  <2>. QED  BY <2>1, <2>4, <2>5, <2>6
<1>5. c0 \in Picks(key) /\ DOMAIN c0 = Inputs
  <2>1. DOMAIN c0 = Inputs /\ c0 = [i \in Inputs |-> c0[i]]
    OBVIOUS
  <2>. HIDE DEF c0
  <2>2. c0 \in [Inputs -> UNION {With(i, key) : i \in Inputs}]
    BY <1>4, <2>1
  <2>. QED  BY <1>4, <2>1, <2>2 DEF Picks
<1>6. group = Nr(key) /\ group \in Nat
  BY <1>2, <1>3, NrFacts DEF Always, Values
<1>7. /\ e.o = MaxIi /\ e.group = group /\ e.recs = rec /\ e.count = count
  <2>1. MaxIi \in Nat /\ MaxIi \in 1 .. MaxIi /\ rec \in [1 .. MaxIi -> [n : Nat, m : Tuple(job.nm) \cup {<<>>}]]
        /\ count \in [1 .. MaxIi -> Nat]
    BY <1>2 DEF Values
  <2>2. SubSeq(rec, 1, MaxIi) = [j \in 1 .. MaxIi |-> rec[j]] /\ SubSeq(count, 1, MaxIi) = [j \in 1 .. MaxIi |-> count[j]]
    BY <2>1, FirstOnes
  <2>3. SubSeq(rec, 1, MaxIi) = rec /\ SubSeq(count, 1, MaxIi) = count
    BY <2>1, <2>2
  <2>. QED  BY <2>3 DEF OutO
<1>. HIDE DEF e, c0
<1>8. Bare(e) = Entry(MaxIi, key, c0)
  <2>1. rec = [i \in Inputs |-> [n |-> c0[i], m |-> key]] /\ count = [i \in Inputs |-> CountTo(i, key, c0[i])]
    BY <1>2, <1>4 DEF Values
  <2>2. /\ e.group = Nr(key)
        /\ e.recs = [i \in DOMAIN c0 |-> [n |-> c0[i], m |-> key]]
        /\ e.count = [i \in DOMAIN c0 |-> CountTo(i, key, c0[i])]
    BY <1>5, <1>6, <1>7, <2>1
  <2>3. Bare(e) = Entry(e.o, key, c0)
    BY <2>2, BareIs
  <2>. QED  BY <1>7, <2>3
<1>9. \A c \in Picks(key) :
        /\ Shown(c) <=> Under(c, MaxIi)
        /\ Shown(c)' <=> Shown(c) \/ c = c0
  <2>. SUFFICES ASSUME NEW c \in Picks(key)
                PROVE  /\ Shown(c) <=> Under(c, MaxIi)
                       /\ Shown(c)' <=> Shown(c) \/ c = c0
    OBVIOUS
  <2>1. Shown(c) <=> Under(c, MaxIi)
    BY <1>1, <1>2, <1>3 DEF Shown
  <2>2. Shown(c)' <=> Under(c, MaxIi) \/ Same(c, MaxIi)
    <3>1. Shown(c)' <=> Under(c, MaxIi)' \/ Same(c, MaxIi)'
      BY <1>1, JobSame DEF Shown
    <3>. QED  BY <1>1, <3>1, JobSame DEF Under, Same
  <2>3. Same(c, MaxIi) <=> c = c0
    <3>1. c = [i \in Inputs |-> c[i]] /\ c0 = [i \in Inputs |-> c0[i]]
      BY <1>2, <1>5, PickFacts
    <3>2. \A i \in Inputs : rec[i].n = c0[i]
      BY <1>4
    <3>. QED  BY <1>2, <3>1, <3>2 DEF Same
  <2>. QED  BY <2>1, <2>2, <2>3
<1>10. ASSUME NEW d \in Joined PROVE Before(d, Entry(MaxIi, key, c0))
  <2>1. /\ Entry(MaxIi, key, c0).o = MaxIi /\ Entry(MaxIi, key, c0).group = Nr(key)
        /\ Numbers(Entry(MaxIi, key, c0)) = c0
        /\ MaxIi # 0 /\ key \in GroupKeys
    <3>1. [i \in DOMAIN c0 |-> c0[i]] = c0
      BY <1>2, <1>5, PickFacts
    <3>. QED  BY <1>2, <1>3, <3>1, EntryFacts
  <2>2. CASE \E k \in KeysDone : d.group = Nr(k)
    <3>1. PICK k \in KeysDone : d.group = Nr(k)
      BY <2>2
    <3>2. Nr(k) < Nr(key)
      BY <1>2, <2>1, <3>1, NrFacts
    <3>. QED  BY <2>1, <3>1, <3>2 DEF Before
  <2>3. CASE \E c \in Picks(key) : Shown(c) /\ d = Entry(MaxIi, key, c)
    <3>1. PICK c \in Picks(key) : Shown(c) /\ d = Entry(MaxIi, key, c)
      BY <2>3
    <3>2. DOMAIN c = Inputs /\ [i \in DOMAIN c |-> c[i]] = c
      BY <1>2, PickFacts
    <3>3. d.o = MaxIi /\ d.group = Nr(key) /\ Numbers(d) = c
      BY <3>1, <3>2, EntryFacts
    <3>4. Less(c, c0)
      <4>1. Under(c, MaxIi)
        BY <1>9, <3>1
      <4>2. \A i \in Inputs : rec[i].n = c0[i]
        BY <1>4
      <4>3. \A j \in 1 .. MaxIi : \A h \in 1 .. j - 1 : h \in Inputs
        BY <1>2
      <4>. QED  BY <1>2, <3>2, <4>1, <4>2, <4>3 DEF Under, Less
    <3>. QED  BY <2>1, <3>3, <3>4 DEF Before
  <2>4. \A k, c : Entry(MaxIi, k, c).group = Nr(k)
    BY EntryFacts
  <2>5. \A k : End(k).group = Nr(k)
    BY EndFacts
  <2>. QED  BY <2>2, <2>3, <2>4, <2>5, InJoined
<1>11. KeysDone' = KeysDone
  BY <1>1, <1>2, JobSaysSame DEF KeysDone
<1>12. Right(out', Joined')
  <2>1. Joined' = Joined \cup {Entry(MaxIi, key, c0)}
    <3>. DEFINE A == (UNION {{Entry(MaxIi, k, c) : c \in Picks(k)} : k \in KeysDone}) \cup {End(k) : k \in KeysDone}
                C == {d \in Picks(key) : Shown(d)}
                D == {d \in Picks(key) : Shown(d)'}
    <3>1. ~NoneOf /\ ~NoneOf'
      BY <1>1, <1>2, <1>3, JobSaysSame DEF NoneOf
    <3>2. D = C \cup {c0}
      BY <1>5, <1>9
    <3>3. Joined = A \cup {Entry(MaxIi, key, c) : c \in C}
      BY <3>1 DEF Joined, NoneOf
    <3>4. Joined' = A \cup {Entry(MaxIi, key, c) : c \in D}
      BY <1>1, <1>11, <3>1, JobSame, JobSaysSame DEF Joined, NoneOf
    <3>. HIDE DEF A, C, D
    <3>. QED  BY <3>2, <3>3, <3>4
  <2>2. PICK S : out \in Seq(S)
    BY <1>2 DEF Values
  <2>3. Right(out', Joined \cup {Bare(e)})
    BY <1>1, <1>2, <1>8, <1>10, <2>2, OutGrows
  <2>. QED  BY <1>8, <2>1, <2>3
<1>13. PICK S : out \in Seq(S)
  BY <1>2 DEF Values
<1>14. out' \in Seq(S \cup {e}) /\ DOMAIN out = 1 .. Len(out) /\ DOMAIN out' = 1 .. Len(out) + 1
       /\ Len(out') = Len(out) + 1 /\ Len(out) \in Nat
       /\ (\A p \in 1 .. Len(out) : out'[p] = out[p]) /\ out'[Len(out) + 1] = e
  BY <1>1, <1>13, AppendFacts
<1>15. \A j \in Inputs : e.o = OutputOf(j) /\ e.recs[j].n = c0[j] /\ c0[j] \in Wanted(j)
  <2>. TAKE j \in Inputs
  <2>1. rec[j].n = c0[j] /\ c0[j] \in With(j, key)
    BY <1>4
  <2>2. With(j, key) \subseteq Wanted(j)
    BY <1>2, WithFacts
  <2>. QED  BY <1>7, <2>1, <2>2 DEF OutputOf
<1>16. \A q \in DOMAIN out : \A j \in Inputs : out[q].o = OutputOf(j) => out[q].recs[j].n \in Wanted(j)
  BY <1>2 DEF ShowsRecords
<1>17. ShowsRecords'
  <2>. SUFFICES ASSUME NEW q \in DOMAIN out'
                PROVE  /\ out'[q].group \in Nat /\ out'[q].group <= group
                       /\ \A j \in Inputs : out'[q].o = OutputOf(j) => out'[q].recs[j].n \in Wanted(j)
    <3>1. ~NoneOf'
      BY <1>1, <1>2, <1>3, JobSaysSame DEF NoneOf
    <3>. QED  BY <1>1, <3>1, JobSame DEF ShowsRecords, OutputOf
  <2>1. CASE q \in 1 .. Len(out)
    BY <1>2, <1>14, <2>1 DEF ShowsRecords
  <2>2. CASE q = Len(out) + 1
    <3>1. out'[q] = e
      BY <1>14, <2>2
    <3>. QED  BY <1>6, <1>7, <1>15, <3>1
  <2>. QED  BY <1>14, <2>1, <2>2
<1>18. EndSums'
  <2>1. e.o # 0
    BY <1>2, <1>7
  <2>2. \A j \in Inputs : e.o = OutputOf(j) => e.recs[j].n \in Wanted(j)
    BY <1>15
  <2>. QED  BY <1>1, <1>2, <1>13, <1>16, <2>1, <2>2, EndSumsGrow
<1>19. GroupOpen'
  <2>0. \A j \in Inputs : e.o = OutputOf(j) => e.recs[j].n \in Wanted(j)
    BY <1>15
  <2>1. \A g : \A j \in Inputs :
          /\ \A p \in 0 .. Len(out) : SumTo(ShownOf(j, g)', p) = SumTo(ShownOf(j, g), p)
          /\ \A p \in Nat : SumTo(ShownOf(j, g), p) \in Nat
          /\ SumTo(ShownOf(j, g)', Len(out) + 1) =
               SumTo(ShownOf(j, g), Len(out)) + (IF e.group = g /\ e.o = OutputOf(j) THEN Of(j, e.recs[j].n).v ELSE 0)
    BY <1>1, <1>2, <1>13, <1>16, <2>0, SumGrows
  <2>2. \A j \in Inputs : SumTo(ShownOf(j, group)', Len(out) + 1) = SumTo(ShownOf(j, group), Len(out)) + Of(j, c0[j]).v
    <3>. TAKE j \in Inputs
    <3>1. e.group = group /\ e.o = OutputOf(j) /\ e.recs[j].n = c0[j]
      BY <1>7, <1>15
    <3>2. SumTo(ShownOf(j, group)', Len(out) + 1) =
            SumTo(ShownOf(j, group), Len(out)) +
              (IF e.group = group /\ e.o = OutputOf(j) THEN Of(j, e.recs[j].n).v ELSE 0)
      BY <1>1, <2>1
    <3>. QED  BY <3>1, <3>2
  <2>3. sum' = [j \in Inputs |-> <<SumTo(ShownOf(j, group)', Len(out) + 1)>>]
    <3>. DEFINE s == [j \in Inputs |-> SumTo(ShownOf(j, group), Len(out))]
    <3>1. sum = [j \in Inputs |-> <<s[j]>>]
      BY <1>2 DEF GroupOpen
    <3>2. \A j \in Inputs : SumTo(ShownOf(j, group)', Len(out) + 1) = s[j] + Of(j, c0[j]).v
      BY <2>2
    <3>. HIDE DEF s
    <3>3. \A j \in Inputs : SumUp(sum, j, c0[j])[j] = <<s[j] + Of(j, c0[j]).v>>
      BY <3>1, SumsOfAll
    <3>4. sum' = [j \in Inputs |-> SumUp(sum, j, c0[j])[j]]
      <4>1. \A j \in Inputs : rec[j].n = c0[j]
        BY <1>4
      <4>. QED  BY <1>1, <4>1
    <3>. QED  BY <3>2, <3>3, <3>4
  <2>. QED  BY <1>1, <1>2, <1>14, <2>3, JobSame, JobSaysSame DEF GroupOpen
<1>20. Values'
  <2>1. \E T : out' \in Seq(T)
    BY <1>14
  <2>. QED  BY <1>1, <1>2, <2>1, JobSame DEF Values
<1>21. Always'
  BY <1>1, <1>2, <1>11, <1>17, <1>18, <1>19, <1>20 DEF Always, Outside
<1>22. JoinIn'
  <2>1. /\ \A j \in Inputs : SeesHere(j) => SeesHere(j)'
        /\ \A j : With(j, key)' = With(j, key)
    <3>1. 0 \notin Inputs
      BY <1>2
    <3>. QED  BY <1>1, <3>1, JoinOthers
  <2>2. at' \in 0 .. MaxIi /\ \A j \in Inputs : ~(j > at')
    BY <1>1, <1>2
  <2>3. \A j \in exist : start[j] \in With(j, key) /\ \A n \in With(j, key) : start[j] <= n
    BY <1>2 DEF JoinIn
  <2>4. ~empty'
    BY <1>1
  <2>. QED  BY <1>1, <1>3, <2>1, <2>2, <2>3, <2>4, JobSame DEF JoinIn
<1>. QED  BY <1>1, <1>12, <1>21, <1>22 DEF JoinedInv

(* The end of a group of a join.                                           *)
LEMMA JoinedEnd ==
  ASSUME OrderInv, JoinedInv, job.kind = "join", AllInOrder, JoinGroupEnds
  PROVE  JoinedInv'
<1>1. /\ pc = "up" /\ at = 0 /\ pc' = "group" /\ pc # "open"
      /\ UNCHANGED <<job, at, scan, rec, exist, count, key, sum, start, empty>>
  BY DEF JoinGroupEnds
<1>2. /\ job \in Jobs /\ MaxIi \in 1 .. 9 /\ Inputs = 1 .. MaxIi /\ key \in Tuple(job.nm)
      /\ JoinIn /\ Values /\ Always /\ Right(out, Joined) /\ GroupOpen
      /\ exist \subseteq Inputs /\ key \in AllKeys
      /\ key \in GroupKeys <=> exist = Inputs
      /\ NoneOf <=> exist # Inputs
      /\ KeysDone = {k \in GroupKeys : Less(k, key)}
      /\ pc \notin Outside /\ pc' \in Outside
  BY <1>1, JoinHere DEF Outside
<1>3. \A i \in Inputs : Behold(i) /\ (i \in exist => SeesLast(i))
  <2>1. \A i \in Inputs : i > at
    BY <1>1, <1>2
  <2>. QED  BY <1>1, <1>2, <2>1 DEF JoinIn
<1>4. NoneOf'
  BY <1>2 DEF NoneOf
<1>. DEFINE A(ks) == (UNION {{Entry(MaxIi, k, c) : c \in Picks(k)} : k \in ks}) \cup {End(k) : k \in ks}
<1>5. Joined' = A(KeysDone')
  BY <1>1, <1>4, JobSame, JobSaysSame DEF Joined, NoneOf
<1>6. CASE empty
  <2>1. exist # Inputs /\ UNCHANGED <<out, group>> /\ NoneOf
    BY <1>1, <1>2, <1>6 DEF JoinIn, JoinGroupEnds
  <2>2. /\ \A i, j \in Inputs : \A g \in Dealt(i), h \in Wanted(j) \ Dealt(j) : Less(Of(i, g).m, Of(j, h).m)
        /\ \A i \in Inputs : With(i, key) \subseteq Dealt(i)
        /\ \A k \in GroupKeys :
             (\E i \in Inputs : \E n \in Dealt(i) : Of(i, n).m = k) <=> (Less(k, key) \/ k = key)
    BY <1>1, <1>2, <1>3, GroupEndFacts
  <2>3. \A i : Dealt(i)' = Dealt(i)
    BY <1>1, SameDealt
  <2>4. KeysDone' = KeysDone
    <3>1. KeysDone' = {k \in GroupKeys : \E i \in Inputs : \E n \in Dealt(i) : Of(i, n).m = k}
      BY <1>1, <1>2, <2>3, JobSame, JobSaysSame DEF KeysDone
    <3>. QED  BY <1>2, <2>1, <2>2, <3>1
  <2>5. ShowsRecords' /\ EndSums' /\ \A D : Right(out, D) => Right(out', D)
    BY <1>1, <1>2, <2>1, SameOut DEF Always
  <2>6. Values'
    BY <1>1, <1>2, <2>1, JobSame DEF Values
  <2>7. Between'
    <3>1. PICK i \in Inputs : With(i, key) # {}
      BY <1>2, KeyFacts
    <3>2. Dealt(i) # {}
      BY <2>2, <3>1
    <3>. QED  BY <1>1, <2>2, <2>3, <3>2, JobSame DEF Between
  <2>8. Always'
    BY <1>1, <1>2, <2>1, <2>4, <2>5, <2>6, <2>7 DEF Always
  <2>9. Joined = A(KeysDone)
    BY <2>1 DEF Joined, NoneOf
  <2>. HIDE DEF A
  <2>10. Right(out', Joined')
    BY <1>2, <1>5, <2>4, <2>5, <2>9
  <2>. QED  BY <1>1, <1>2, <2>8, <2>10 DEF JoinedInv
<1>7. CASE ~empty
  <2>1. exist = Inputs /\ key \in GroupKeys /\ ~NoneOf /\ WriteGroup(sum)
    BY <1>1, <1>2, <1>7 DEF JoinIn, JoinGroupEnds
  <2>2. /\ Always' /\ KeysDone' = KeysDone \cup {key}
        /\ \A D : Right(out, D) /\ (\A d \in D : Before(d, End(key))) => Right(out', D \cup {End(key)})
    <3>1. \A i \in Inputs : Behold(i) /\ SeesLast(i)
      BY <1>3, <2>1
    <3>2. KeyOK
      BY <1>2 DEF KeyOK
    <3>. QED  BY <1>1, <1>2, <2>1, <3>1, <3>2, GroupCloses
  <2>3. ASSUME NEW d \in Joined PROVE Before(d, End(key))
    <3>1. End(key).o = 0 /\ End(key).group = Nr(key)
      BY EndFacts
    <3>2. CASE \E k \in KeysDone : d.group = Nr(k)
      <4>1. PICK k \in KeysDone : d.group = Nr(k)
        BY <3>2
      <4>2. Nr(k) < Nr(key)
        BY <1>2, <2>1, <4>1, NrFacts
      <4>. QED  BY <3>1, <4>1, <4>2 DEF Before
    <3>3. CASE \E c \in Picks(key) : Shown(c) /\ d = Entry(MaxIi, key, c)
      <4>1. PICK c \in Picks(key) : d = Entry(MaxIi, key, c)
        BY <3>3
      <4>2. d.o = MaxIi /\ d.group = Nr(key) /\ MaxIi # 0
        BY <1>2, <4>1, EntryFacts
      <4>. QED  BY <3>1, <4>2 DEF Before
    <3>4. \A k, c : Entry(MaxIi, k, c).group = Nr(k)
      BY EntryFacts
    <3>5. \A k : End(k).group = Nr(k)
      BY EndFacts
    <3>. QED  BY <3>2, <3>3, <3>4, <3>5, InJoined
  <2>4. Joined' = Joined \cup {End(key)}
    <3>1. \A c : Shown(c)
      BY <1>1 DEF Shown, Same
    <3>2. Joined = A(KeysDone) \cup {Entry(MaxIi, key, c) : c \in Picks(key)}
      BY <2>1, <3>1 DEF Joined, NoneOf
    <3>3. ASSUME NEW x PROVE x \in A(KeysDone \cup {key}) <=>
            x \in A(KeysDone) \/ x \in {Entry(MaxIi, key, c) : c \in Picks(key)} \/ x = End(key)
      <4>1. \A ks : x \in A(ks) <=> \/ \E k \in ks : x \in {Entry(MaxIi, k, c) : c \in Picks(k)}
                                    \/ \E k \in ks : x = End(k)
        OBVIOUS
      <4>. HIDE DEF A
      <4>. QED  BY <4>1
    <3>. HIDE DEF A
    <3>. QED  BY <1>5, <2>2, <3>2, <3>3
  <2>5. Right(out', Joined')
    BY <1>2, <2>2, <2>3, <2>4
  <2>. QED  BY <1>1, <1>2, <2>2, <2>5 DEF JoinedInv
<1>. QED  BY <1>6, <1>7

(* Every step of a join keeps the invariant.                               *)
LEMMA JoinedStep == OrderInv /\ OrderInv' /\ JoinedInv /\ [MRNext]_vars => JoinedInv'
<1>. SUFFICES ASSUME OrderInv, OrderInv', JoinedInv, [MRNext]_vars PROVE JoinedInv'
  OBVIOUS
<1>0. job' = job
  BY NextJob
<1>. SUFFICES ASSUME job.kind = "join", AllInOrder PROVE JoinedInv'
  BY <1>0, JobSame DEF JoinedInv
<1>1. pc \in Outside \cup {"down", "up"} /\ Always /\ Right(out, Joined)
  BY DEF JoinedInv
<1>2. CASE MergeBegins \/ MergeEnds
  <2>1. /\ KeysDone' = KeysDone /\ Always'
        /\ \A D : Right(out, D) => Right(out', D)
    BY <1>1, <1>2, BeginsFacts, EndsFacts
  <2>2. pc \in Outside /\ pc' \in Outside /\ pc' \notin {"down", "up"} /\ job' = job
    BY <1>2 DEF MergeBegins, MergeEnds, Outside
  <2>3. Joined' = Joined
    BY <2>1, <2>2, JobSame, JobSaysSame DEF Joined
  <2>4. Right(out', Joined')
    BY <1>1, <2>1, <2>3
  <2>. QED  BY <2>1, <2>2, <2>4 DEF JoinedInv
<1>3. CASE NextGroup
  BY <1>3, JoinedGroup
<1>4. CASE JoinFirst
  BY <1>4, JoinedFirst
<1>5. CASE JoinNone \/ JoinBack \/ (JoinWrite /\ empty)
  BY <1>5, JoinedNone
<1>6. CASE JoinWrite /\ ~empty
  BY <1>6, JoinedWrite
<1>7. CASE JoinNext
  BY <1>7, JoinedNext
<1>8. CASE JoinGroupEnds
  BY <1>8, JoinedEnd
<1>9. CASE MergeRec \/ MergeNone \/ MergeGroupEnds
  BY <1>1, <1>9 DEF MergeRec, MergeNone, MergeGroupEnds, Outside
<1>10. CASE ReportNext
  BY <1>1, <1>10 DEF ReportNext, ReportBegins, GroupHeads, InputBegins, InputSkipped, PrintLine,
       InputEnds,
                    SameSort, SortChanges, SortBegins, GroupEnds, ReportEnds, Outside
<1>11. CASE UNCHANGED vars
  <2>1. UNCHANGED <<job, pc, at, scan, rec, exist, count, key, group, sum, out, start, empty>>
    BY <1>11 DEF vars, inVars, mVars
  <2>2. CASE pc \in Outside
    <3>1. \A i : Dealt(i)' = Dealt(i)
      BY <2>1, SameDealt
    <3>2. KeysDone' = KeysDone
      BY <2>1, <3>1, JobSame, JobSaysSame DEF KeysDone
    <3>3. Joined' = Joined
      BY <2>1, <2>2, <3>2, JobSame, JobSaysSame DEF Joined
    <3>5. Values' /\ ShowsRecords' /\ EndSums' /\ Between'
      <4>1. ShowsRecords' /\ EndSums'
        BY <1>1, <2>1, <2>2, SameOut DEF Always, NoneOf
      <4>2. Values' /\ Between'
        BY <1>1, <2>1, <2>2, <3>1, JobSame DEF Always, Values, Between
      <4>. QED  BY <4>1, <4>2
    <3>6. Always'
      BY <1>1, <2>1, <2>2, <3>1, <3>2, <3>5, JobSame DEF Always
    <3>7. Right(out', Joined')
      BY <1>1, <2>1, <3>3
    <3>. QED  BY <2>1, <2>2, <3>6, <3>7 DEF JoinedInv, Outside
  <2>3. CASE pc \in {"down", "up"}
    <3>1. job \in Jobs /\ Inputs = 1 .. MaxIi /\ MaxIi \in 1 .. 9 /\ JoinIn /\ Values
      BY <2>3, JoinHere
    <3>2. /\ \A j \in Inputs : /\ Behold(j) => Behold(j)'
                               /\ SeesHere(j) => SeesHere(j)'
                               /\ SeesLast(j) => SeesLast(j)'
          /\ \A j : With(j, key)' = With(j, key)
      <4>1. 0 \notin Inputs
        BY <3>1
      <4>. QED  BY <2>1, <4>1, JoinOthers
    <3>3. JoinIn'
      <4>1. \A j \in Inputs \ exist : Behold(j)' /\ (empty \/ (pc = "down" /\ j >= at))
        BY <3>1, <3>2 DEF JoinIn
      <4>2. \A j \in Inputs : j < at \/ (pc = "up" /\ j = at) => SeesHere(j)'
        BY <3>1, <3>2 DEF JoinIn
      <4>3. pc = "up" => \A j \in exist : j > at => Behold(j)' /\ SeesLast(j)'
        <5>1. exist \subseteq Inputs
          BY DEF OrderInv, Shape
        <5>. QED  BY <3>1, <3>2, <5>1 DEF JoinIn
      <4>4. \A j \in exist : start[j] \in With(j, key) /\ \A n \in With(j, key) : start[j] <= n
        BY <3>1 DEF JoinIn
      <4>5. /\ IF pc = "down" THEN at \in 1 .. MaxIi + 1 ELSE at \in 0 .. MaxIi
            /\ empty => exist # Inputs
        BY <3>1 DEF JoinIn
      <4>. QED  BY <2>1, <3>2, <4>1, <4>2, <4>3, <4>4, <4>5, JobSame DEF JoinIn
    <3>4. \A c : Shown(c)' <=> Shown(c)
      BY <2>1 DEF Shown, Under, Same
    <3>5. rec' \in [Inputs -> [n : Nat, m : Tuple(job.nm) \cup {<<>>}]] /\ count' \in [Inputs -> Nat]
      BY <2>1, <3>1 DEF Values
    <3>. QED  BY <2>1, <2>3, <3>3, <3>4, <3>5, JoinQuiet
  <2>. QED  BY <1>1, <2>2, <2>3
<1>. QED  BY <1>2, <1>3, <1>4, <1>5, <1>6, <1>7, <1>8, <1>9, <1>10, <1>11 DEF MRNext, MergeNext, Ended

(* The invariant says at the end what a join must have written.            *)
LEMMA JoinedSays ==
  ASSUME OrderInv, JoinedInv, job.kind = "join", pc = "done"
  PROVE  MergeFollowsInputs
<1>1. AllInOrder
  BY OrderSays DEF UnsortedRefused
<1>2. Always /\ Right(out, Joined) /\ pc \in Outside /\ job \in Jobs
  BY <1>1 DEF JoinedInv, Outside, OrderInv, Shape
<1>3. \A i \in Inputs : Dealt(i) = Wanted(i)
  BY DEF OrderInv, Ends, Open, Dealt
<1>4. KeysDone = GroupKeys
  <2>1. \A k \in GroupKeys : \E i \in Inputs : \E n \in Wanted(i) : Of(i, n).m = k
    BY <1>2, KeyFacts DEF With
  <2>. QED  BY <1>2, <1>3, <2>1 DEF KeysDone
<1>5. Joined = Entries
  <2>. DEFINE A == UNION {{Entry(MaxIi, k, c) : c \in Picks(k)} : k \in GroupKeys}
              B == {End(k) : k \in GroupKeys}
  <2>1. Joined = A \cup B
    BY <1>2, <1>4 DEF Joined
  <2>2. Entries = B \cup A
    BY DEF Entries
  <2>. HIDE DEF A, B
  <2>. QED  BY <2>1, <2>2
<1>6. \A p \in DOMAIN out : out[p].o = 0 =>
        out[p].sum = [i \in Inputs |-> <<SumTo(ShownOf(i, out[p].group), p)>>]
  BY <1>2 DEF Always, EndSums, ShowsRecords
<1>. QED  BY <1>2, <1>5, <1>6 DEF MergeFollowsInputs, Right

(* What merges and joins write at their end is told by their inputs, for   *)
(* any jobs: every record once, or every combination, in order, with the   *)
(* sums of what the group shows (Merge.cpp MergeProc, JoinProc).           *)
THEOREM MergesFollowInputs == Spec => []MergeFollowsInputs
<1>1. OrderInv /\ MergedInv /\ JoinedInv => MergeFollowsInputs
  <2>1. ~(pc = "done" /\ IsMerge) => MergeFollowsInputs
    BY DEF MergeFollowsInputs
  <2>. QED  BY <2>1, MergedSays, JoinedSays DEF IsMerge
<1>. QED  BY <1>1, OrderAlways, MergedInit, MergedStep, JoinedStep, PTL DEF Spec
=============================================================================
