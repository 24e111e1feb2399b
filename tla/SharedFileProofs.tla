--------------------------- MODULE SharedFileProofs ---------------------------
(***************************************************************************)
(* Proofs about SharedFile for every set of users, keys and operations and *)
(* every number of records: the type invariant, that one user at most      *)
(* works on the index pages, and, when nobody calls SaveFiles, that the    *)
(* copies of the number of records are current and that appended records   *)
(* go behind the end of the file.                                          *)
(***************************************************************************)
EXTENDS SharedFile, FiniteSetTheorems, TLAPS

(***************************************************************************)
(* Types.                                                                  *)
(***************************************************************************)

(* What the argument of an operation is good for where it is used.         *)
ArgsOf(u) ==
  /\ pc[u] \in {"insert", "write"} => arg[u].n \in Slots /\ arg[u].k \in Keys
  /\ pc[u] = "mark" => arg[u].n \in Slots /\ mem[u].nrecs > -MaxDrift
  /\ pc[u] = "build" => /\ arg[u].n \in 1 .. mem[u].n + 1
                        /\ mem[u].nrecs \in 0 .. arg[u].n - 1

TypeInv == TypeOK /\ \A u \in Users : ArgsOf(u)

(* The values that are used by name.                                       *)
LEMMA NamedTypes ==
  /\ Fresh \in Memory /\ Zeros \in Prefix /\ NoArg \in Args
  /\ HoldModes \cup {NullMode} \subseteq LockMode
  /\ \A op \in DOMAIN ModeOf : ModeOf[op] \in LockMode
BY SharedFileAssumption
   DEF Fresh, Zeros, NoArg, Memory, Prefix, Counts, Args, AllOps, LockMode, NullMode, RdMode,
       WrMode, CrMode, DelMode, ExclMode, ModeOf

(* A copy of the prefixes stays one when they are read, and what is        *)
(* written from it is an index prefix.                                     *)
LEMMA ReadTypes ==
  ASSUME TypeOK, NEW u \in Users, NEW m \in Memory
  PROVE  /\ XRead(u, m) \in Memory /\ XRead(u, m).n = m.n
         /\ NotValid(m) \in Memory /\ NotValid(m).n = m.n
         /\ XPrefix(m) \in Prefix
         /\ XRead(u, [m EXCEPT !.n = dN]) \in Memory
         /\ XRead(u, [m EXCEPT !.n = dN]).n = dN
<1>1. m.n \in 0 .. MaxRecs /\ m.nv \in BOOLEAN /\ m.nrecs \in Counts
  BY DEF Memory
<1>2. dN \in 0 .. MaxRecs /\ xpfx.nv \in BOOLEAN /\ xpfx.nrecs \in Counts
  BY DEF TypeOK, Prefix
<1>. QED  BY <1>1, <1>2 DEF XRead, NotValid, XPrefix, Memory, Prefix

(* What the changes of a copy and of an argument leave and give.           *)
LEMMA SetCount ==
  ASSUME mem \in [Users -> Memory], NEW u \in Users, NEW c \in Counts,
         mem' = [mem EXCEPT ![u] = [mem[u] EXCEPT !.nrecs = c]]
  PROVE  /\ mem' \in [Users -> Memory]
         /\ mem'[u].n = mem[u].n /\ mem'[u].nrecs = c /\ mem'[u].nv = mem[u].nv
<1>1. PICK m \in Memory : m = mem[u]
  OBVIOUS
<1>2. /\ [m EXCEPT !.nrecs = c] \in Memory
      /\ [m EXCEPT !.nrecs = c].n = m.n
      /\ [m EXCEPT !.nrecs = c].nrecs = c
      /\ [m EXCEPT !.nrecs = c].nv = m.nv
  BY DEF Memory
<1>3. PICK new \in Memory : /\ new = [m EXCEPT !.nrecs = c]
                         /\ new.n = m.n /\ new.nrecs = c /\ new.nv = m.nv
  BY <1>2, Zenon
<1>4. mem' = [mem EXCEPT ![u] = new]
  BY <1>1, <1>3, Zenon
<1>. QED  BY <1>1, <1>3, <1>4

(* The same for the mark of the index.                                     *)
LEMMA SetValid ==
  ASSUME mem \in [Users -> Memory], NEW u \in Users, NEW b \in BOOLEAN,
         mem' = [mem EXCEPT ![u] = [mem[u] EXCEPT !.nv = b]]
  PROVE  /\ mem' \in [Users -> Memory]
         /\ mem'[u].n = mem[u].n /\ mem'[u].nrecs = mem[u].nrecs /\ mem'[u].nv = b
<1>1. PICK m \in Memory : m = mem[u]
  OBVIOUS
<1>2. /\ [m EXCEPT !.nv = b] \in Memory
      /\ [m EXCEPT !.nv = b].n = m.n
      /\ [m EXCEPT !.nv = b].nrecs = m.nrecs
      /\ [m EXCEPT !.nv = b].nv = b
  BY DEF Memory
<1>3. PICK new \in Memory : /\ new = [m EXCEPT !.nv = b]
                         /\ new.n = m.n /\ new.nrecs = m.nrecs /\ new.nv = b
  BY <1>2, Zenon
<1>4. mem' = [mem EXCEPT ![u] = new]
  BY <1>1, <1>3, Zenon
<1>. QED  BY <1>1, <1>3, <1>4

(* The same for both counts, as an append changes them.                    *)
LEMMA SetCounts ==
  ASSUME mem \in [Users -> Memory], NEW u \in Users, NEW n \in 0 .. MaxRecs, NEW c \in Counts,
         mem' = [mem EXCEPT ![u] = [mem[u] EXCEPT !.n = n, !.nrecs = c]]
  PROVE  /\ mem' \in [Users -> Memory]
         /\ mem'[u].n = n /\ mem'[u].nrecs = c /\ mem'[u].nv = mem[u].nv
<1>1. PICK m \in Memory : m = mem[u]
  OBVIOUS
<1>2. /\ [m EXCEPT !.n = n, !.nrecs = c] \in Memory
      /\ [m EXCEPT !.n = n, !.nrecs = c].n = n
      /\ [m EXCEPT !.n = n, !.nrecs = c].nrecs = c
      /\ [m EXCEPT !.n = n, !.nrecs = c].nv = m.nv
  BY DEF Memory
<1>3. PICK new \in Memory : /\ new = [m EXCEPT !.n = n, !.nrecs = c]
                         /\ new.n = n /\ new.nrecs = c /\ new.nv = m.nv
  BY <1>2, Zenon
<1>4. mem' = [mem EXCEPT ![u] = new]
  BY <1>1, <1>3, Zenon
<1>. QED  BY <1>1, <1>3, <1>4

(* The record number of an operation is set.                               *)
LEMMA SetArg ==
  ASSUME arg \in [Users -> Args], NEW u \in Users, NEW n \in 0 .. MaxRecs + 1,
         arg' = [arg EXCEPT ![u] = [arg[u] EXCEPT !.n = n]]
  PROVE  /\ arg' \in [Users -> Args]
         /\ arg'[u].n = n /\ arg'[u].op = arg[u].op /\ arg'[u].k = arg[u].k
<1>1. PICK a \in Args : a = arg[u]
  OBVIOUS
<1>2. /\ [a EXCEPT !.n = n] \in Args
      /\ [a EXCEPT !.n = n].n = n
      /\ [a EXCEPT !.n = n].op = a.op
      /\ [a EXCEPT !.n = n].k = a.k
  BY DEF Args
<1>3. PICK new \in Args : /\ new = [a EXCEPT !.n = n]
                         /\ new.n = n /\ new.op = a.op /\ new.k = a.k
  BY <1>2, Zenon
<1>4. arg' = [arg EXCEPT ![u] = new]
  BY <1>1, <1>3, Zenon
<1>. QED  BY <1>1, <1>3, <1>4

(* Record number and key of an operation are set.                          *)
LEMMA SetArgs ==
  ASSUME arg \in [Users -> Args], NEW u \in Users, NEW n \in 0 .. MaxRecs + 1, NEW k \in Keys,
         arg' = [arg EXCEPT ![u] = [arg[u] EXCEPT !.n = n, !.k = k]]
  PROVE  /\ arg' \in [Users -> Args]
         /\ arg'[u].n = n /\ arg'[u].op = arg[u].op /\ arg'[u].k = k
<1>1. PICK a \in Args : a = arg[u]
  OBVIOUS
<1>2. /\ [a EXCEPT !.n = n, !.k = k] \in Args
      /\ [a EXCEPT !.n = n, !.k = k].n = n
      /\ [a EXCEPT !.n = n, !.k = k].op = a.op
      /\ [a EXCEPT !.n = n, !.k = k].k = k
  BY DEF Args
<1>3. PICK new \in Args : /\ new = [a EXCEPT !.n = n, !.k = k]
                         /\ new.n = n /\ new.op = a.op /\ new.k = k
  BY <1>2, Zenon
<1>4. arg' = [arg EXCEPT ![u] = new]
  BY <1>1, <1>3, Zenon
<1>. QED  BY <1>1, <1>3, <1>4

(* The file is told that it has no records.                                *)
LEMMA SetNone ==
  ASSUME mem \in [Users -> Memory], NEW u \in Users,
         mem' = [mem EXCEPT ![u] = NotValid([mem[u] EXCEPT !.n = 0])]
  PROVE  mem' \in [Users -> Memory] /\ mem'[u].n = 0 /\ mem'[u].nv
<1>1. PICK m \in Memory : m = mem[u]
  OBVIOUS
<1>2. /\ [[m EXCEPT !.n = 0] EXCEPT !.nv = TRUE] \in Memory
      /\ [[m EXCEPT !.n = 0] EXCEPT !.nv = TRUE].n = 0
      /\ [[m EXCEPT !.n = 0] EXCEPT !.nv = TRUE].nv
  <2>1. PICK k \in Memory : k = [m EXCEPT !.n = 0] /\ k.n = 0
    <3>1. [m EXCEPT !.n = 0] \in Memory /\ [m EXCEPT !.n = 0].n = 0
      BY SharedFileAssumption DEF Memory
    <3>. QED  BY <3>1, Zenon
  <2>2. /\ [k EXCEPT !.nv = TRUE] \in Memory /\ [k EXCEPT !.nv = TRUE].n = k.n
        /\ [k EXCEPT !.nv = TRUE].nv
    BY DEF Memory
  <2>. QED  BY <2>1, <2>2, Zenon
<1>3. PICK new \in Memory : new = NotValid([m EXCEPT !.n = 0]) /\ new.n = 0 /\ new.nv
  BY <1>2, Zenon DEF NotValid
<1>4. mem' = [mem EXCEPT ![u] = new]
  BY <1>1, <1>3, Zenon
<1>. QED  BY <1>1, <1>3, <1>4

(* An operation begins without a record and a key.                         *)
LEMMA StartArg ==
  ASSUME NEW op \in AllOps
  PROVE  [NoArg EXCEPT !.op = op] \in Args /\ [NoArg EXCEPT !.op = op].op = op
BY SharedFileAssumption DEF NoArg, Args

(* What a change of mode does to the copy of the prefixes.                 *)
LEMMA RdTypes ==
  ASSUME TypeOK, NEW u \in Users, RdPrefixes(u)
  PROVE  mem' \in [Users -> Memory] /\ mem'[u].n = dN
BY ReadTypes DEF RdPrefixes, TypeOK

(* The same for the whole of NewLockMode.                                  *)
LEMMA NewLockTypes ==
  ASSUME TypeOK, NEW u \in Users, NEW m \in LockMode, NewLockMode(u, m)
  PROVE  mem' \in [Users -> Memory] /\ mode' \in [Users -> LockMode]
BY RdTypes DEF NewLockMode, TypeOK

(* The table of lock modes in closed form: two modes go together exactly   *)
(* when the sum of their ranks in enum LockMode is at most 8.              *)
LEMMA CompatibleSum ==
  ASSUME NEW m1 \in LockMode, NEW m2 \in LockMode
  PROVE  Table!Compatible(m1, m2) <=> m1 + m2 <= 8
<1>1. m1 \in 0..8 /\ m2 \in 0..8
  BY DEF LockMode, NullMode, ExclMode
<1>2. /\ m1 = 0 => Table!Refused(m1) = {}
      /\ m1 = 1 => Table!Refused(m1) = {8}
      /\ m1 = 2 => Table!Refused(m1) = {7, 8}
      /\ m1 = 3 => Table!Refused(m1) = {6, 7, 8}
      /\ m1 = 4 => Table!Refused(m1) = {5, 6, 7, 8}
      /\ m1 = 5 => Table!Refused(m1) = {4, 5, 6, 7, 8}
      /\ m1 = 6 => Table!Refused(m1) = {3, 4, 5, 6, 7, 8}
      /\ m1 = 7 => Table!Refused(m1) = {2, 3, 4, 5, 6, 7, 8}
      /\ m1 = 8 => Table!Refused(m1) = (0..8) \ {0}
  BY DEF Table!Refused, Table!NullMode, Table!NoExclMode, Table!NoDelMode, Table!NoCrMode,
         Table!RdMode, Table!WrMode, Table!CrMode, Table!DelMode, Table!ExclMode,
         Table!LockMode
<1>. QED
  BY <1>1, <1>2 DEF Table!Compatible

(***************************************************************************)
(* The mode that a user has in each place, and that the modes of two users *)
(* go together.                                                            *)
(***************************************************************************)
PlaceMode(u) ==
  /\ held[u] <= mode[u]
  /\ pc[u] \in {"closed", "marking", "mounted"} => mode[u] = NullMode
  /\ pc[u] = "repair" => mode[u] = RdMode /\ held[u] = NullMode
  /\ pc[u] = "trunc" => mode[u] = RdMode /\ held[u] = NullMode
  /\ pc[u] = "idle" => mode[u] = held[u]
  /\ pc[u] \in {"work", "lock0", "empty", "build"} =>
       arg[u].op \in DOMAIN ModeOf /\ mode[u] >= ModeOf[arg[u].op]
  /\ pc[u] \in {"insert", "write", "mark"} => mode[u] >= WrMode
  /\ pc[u] = "leave2" => mode[u] >= WrMode /\ held[u] < WrMode
  /\ pc[u] \in {"empty", "build"} => lock0 = u

ModesExclude == \A u, v \in Users : u # v => mode[u] + mode[v] <= 8

ModeInv == (\A u \in Users : PlaceMode(u)) /\ ModesExclude

USE DEF NullMode, RdMode, WrMode, CrMode, DelMode, ExclMode

(* A step of u that does not raise its mode leaves the others compatible.  *)
LEMMA LoweredExcludes ==
  ASSUME NEW u \in Users, mode \in [Users -> LockMode], ModesExclude, NEW m \in LockMode,
         m <= mode[u] \/ Free(u, m),
         mode' = [mode EXCEPT ![u] = m]
  PROVE  ModesExclude'
<1>. SUFFICES ASSUME NEW a \in Users, NEW b \in Users, a # b
              PROVE  mode'[a] + mode'[b] <= 8
  BY DEF ModesExclude
<1>1. \A v \in Users \ {u} : mode[v] + m <= 8
  <2>1. CASE m <= mode[u]
    BY <2>1 DEF ModesExclude, LockMode
  <2>2. CASE Free(u, m)
    BY <2>2, CompatibleSum DEF Free
  <2>. QED  BY <2>1, <2>2
<1>2. mode[a] \in 0..8 /\ mode[b] \in 0..8 /\ m \in 0..8
  BY DEF LockMode
<1>3. CASE a = u
  BY <1>1, <1>2, <1>3
<1>4. CASE b = u
  BY <1>1, <1>2, <1>4
<1>5. CASE a # u /\ b # u
  BY <1>5 DEF ModesExclude
<1>. QED  BY <1>3, <1>4, <1>5

(* One step of user u, as in Next.                                         *)
UserStep(u) ==
  \/ OpenClose(u) \/ Crash(u)
  \/ \E op \in Ops : Start(u, op)
  \/ \E m \in HoldModes : Hold(u, m)
  \/ Unhold(u)
  \/ Index(u) \/ Work(u)

(* A step of u leaves everything of the other users alone, and record lock *)
(* 0 when another user has it.                                             *)
OnlyOwn(u) ==
  /\ \A v \in Users \ {u} :
       /\ pc'[v] = pc[v] /\ mode'[v] = mode[v] /\ held'[v] = held[v]
       /\ arg'[v] = arg[v] /\ mem'[v] = mem[v] /\ df'[v] = df[v]
  /\ lock0' = lock0 \/ lock0 \in {NoUser, u}

(* Its mode changes to one that the others allow, or goes down.            *)
ModeChange(u) ==
  \/ mode' = mode
  \/ \E m \in LockMode : /\ m <= mode[u] \/ Free(u, m)
                         /\ mode' = [mode EXCEPT ![u] = m]

(* Each action changes what belongs to its user.                           *)
LEMMA OwnStep ==
  ASSUME TypeOK, NEW u \in Users, PlaceMode(u), UserStep(u)
  PROVE  OnlyOwn(u)
<1>. USE DEF TypeOK, OnlyOwn, Goto
<1>1. CASE OpenF1(u)
  BY <1>1 DEF OpenF1
<1>2. CASE MarkNotValid(u)
  BY <1>2 DEF MarkNotValid
<1>3. CASE OpenF2(u)
  BY <1>3 DEF OpenF2, RdPrefixes
<1>4. CASE Repair(u)
  BY <1>4 DEF Repair
<1>5. CASE Close(u)
  BY <1>5 DEF Close, NewLockMode, RdPrefixes
<1>6. CASE TruncFile(u)
  BY <1>6 DEF TruncFile, Gone
<1>7. CASE Save(u)
  BY <1>7 DEF Save
<1>8. CASE Crash(u)
  BY <1>8 DEF Crash, Gone, disk
<1>9. CASE \E op \in Ops : Start(u, op)
  BY <1>9 DEF Start, NewLockMode, RdPrefixes
<1>10. CASE \E m \in HoldModes : Hold(u, m)
  BY <1>10 DEF Hold, NewLockMode, RdPrefixes
<1>11. CASE Unhold(u)
  BY <1>11 DEF Unhold
<1>12. CASE TestXFExist(u)
  BY <1>12 DEF TestXFExist
<1>13. CASE LockForIndex(u)
  BY <1>13 DEF LockForIndex
<1>14. CASE SetEmpty(u)
  BY <1>14 DEF SetEmpty
<1>15. CASE BuildNext(u)
  BY <1>15 DEF BuildNext
<1>16. CASE IndexBuilt(u)
  BY <1>16 DEF IndexBuilt, PlaceMode
<1>17. CASE Find(u)
  BY <1>17 DEF Find
<1>18. CASE AssignNRecs(u)
  BY <1>18 DEF AssignNRecs
<1>19. CASE NoSuchRecord(u)
  BY <1>19 DEF NoSuchRecord
<1>20. CASE \E k \in Keys : Append(u, k)
  BY <1>20 DEF Append
<1>21. CASE \E n \in Slots, k \in Keys : Recall(u, n, k)
  BY <1>21 DEF Recall
<1>22. CASE \E n \in Slots, k \in Keys : Rekey(u, n, k)
  BY <1>22 DEF Rekey
<1>23. CASE \E n \in Slots : DeleteRec(u, n)
  BY <1>23 DEF DeleteRec
<1>24. CASE InsertFails(u)
  BY <1>24 DEF InsertFails, Gone
<1>25. CASE Insert(u)
  BY <1>25 DEF Insert
<1>26. CASE WriteRec(u)
  BY <1>26 DEF WriteRec
<1>27. CASE MarkDeleted(u)
  BY <1>27 DEF MarkDeleted
<1>28. CASE Leave(u)
  BY <1>28 DEF Leave, Lower
<1>29. CASE LeaveIndex(u)
  BY <1>29 DEF LeaveIndex, Lower
<1>. QED
  BY <1>1, <1>2, <1>3, <1>4, <1>5, <1>6, <1>7, <1>8, <1>9, <1>10, <1>11, <1>12, <1>13, <1>14,
     <1>15, <1>16, <1>17, <1>18, <1>19, <1>20, <1>21, <1>22, <1>23, <1>24, <1>25, <1>26, <1>27, <1>28, <1>29
  DEF UserStep, OpenClose, Index, Work

(* A step takes the user from a place to one where its mode is right.      *)
LEMMA PlaceStep ==
  ASSUME TypeOK, ModeInv, NEW u \in Users, UserStep(u)
  PROVE  PlaceMode(u)' /\ ModeChange(u)
<1>. USE NamedTypes DEF TypeOK, ModeInv, PlaceMode, ModeChange, Goto
<1>0. /\ mode[u] \in 0 .. 8 /\ held[u] \in 0 .. 8
      /\ \A m \in HoldModes : m \in 1 .. 8
      /\ LockMode = 0 .. 8
  <2>1. LockMode = 0 .. 8
    BY DEF LockMode
  <2>2. mode[u] \in LockMode /\ held[u] \in HoldModes \cup {0}
    OBVIOUS
  <2>3. \A m \in HoldModes : m \in 1 .. 8
    BY <2>1, SharedFileAssumption
  <2>. QED  BY <2>1, <2>2, <2>3
<1>1. CASE OpenF1(u)
  BY <1>0, <1>1 DEF OpenF1
<1>2. CASE MarkNotValid(u)
  BY <1>0, <1>2 DEF MarkNotValid
<1>3. CASE OpenF2(u)
  BY <1>0, <1>3 DEF OpenF2
<1>4. CASE Repair(u)
  BY <1>0, <1>4 DEF Repair
<1>5. CASE Close(u)
  BY <1>0, <1>5 DEF Close, NewLockMode
<1>6. CASE TruncFile(u)
  BY <1>0, <1>6 DEF TruncFile, Gone
<1>7. CASE Save(u)
  BY <1>0, <1>7 DEF Save
<1>8. CASE Crash(u)
  BY <1>0, <1>8 DEF Crash, Gone, disk
<1>9. CASE \E op \in Ops : Start(u, op)
  BY <1>0, <1>9 DEF Start, NewLockMode, ModeOf
<1>10. CASE \E m \in HoldModes : Hold(u, m)
  BY <1>0, <1>10 DEF Hold, NewLockMode
<1>11. CASE Unhold(u)
  BY <1>0, <1>11 DEF Unhold
<1>12. CASE TestXFExist(u)
  BY <1>0, <1>12 DEF TestXFExist
<1>13. CASE LockForIndex(u)
  BY <1>0, <1>13 DEF LockForIndex
<1>14. CASE SetEmpty(u)
  BY <1>0, <1>14 DEF SetEmpty
<1>15. CASE BuildNext(u)
  BY <1>0, <1>15 DEF BuildNext
<1>16. CASE IndexBuilt(u)
  BY <1>0, <1>16 DEF IndexBuilt
<1>17. CASE Find(u)
  BY <1>0, <1>17 DEF Find, Ready
<1>18. CASE AssignNRecs(u)
  BY <1>0, <1>18 DEF AssignNRecs
<1>19. CASE NoSuchRecord(u)
  BY <1>0, <1>19 DEF NoSuchRecord
<1>20. CASE \E k \in Keys : Append(u, k)
  BY <1>0, <1>20 DEF Append, Ready, ModeOf
<1>21. CASE \E n \in Slots, k \in Keys : Recall(u, n, k)
  BY <1>0, <1>21 DEF Recall, Ready, ModeOf
<1>22. CASE \E n \in Slots, k \in Keys : Rekey(u, n, k)
  BY <1>0, <1>22 DEF Rekey, Ready, ModeOf
<1>23. CASE \E n \in Slots : DeleteRec(u, n)
  BY <1>0, <1>23 DEF DeleteRec, Ready, ModeOf
<1>24. CASE InsertFails(u)
  BY <1>0, <1>24 DEF InsertFails, Gone
<1>25. CASE Insert(u)
  BY <1>0, <1>25 DEF Insert
<1>26. CASE WriteRec(u)
  BY <1>0, <1>26 DEF WriteRec
<1>27. CASE MarkDeleted(u)
  BY <1>0, <1>27 DEF MarkDeleted
<1>28. CASE Leave(u)
  BY <1>0, <1>28 DEF Leave, Lower, Writes
<1>29. CASE LeaveIndex(u)
  <2>1. /\ mode' = [mode EXCEPT ![u] = held[u]] /\ held' = held
        /\ pc' = [pc EXCEPT ![u] = "idle"]
    BY <1>29 DEF LeaveIndex, Lower
  <2>2. ModeChange(u)
    BY <1>0, <2>1
  <2>3. PlaceMode(u)'
    BY <1>0, <2>1
  <2>. QED  BY <2>2, <2>3
<1>. QED
  BY <1>1, <1>2, <1>3, <1>4, <1>5, <1>6, <1>7, <1>8, <1>9, <1>10, <1>11, <1>12, <1>13, <1>14,
     <1>15, <1>16, <1>17, <1>18, <1>19, <1>20, <1>21, <1>22, <1>23, <1>24, <1>25, <1>26, <1>27, <1>28, <1>29
  DEF UserStep, OpenClose, Index, Work

(* Together: the modes stay in their places and exclude each other.        *)
LEMMA ModeStep ==
  ASSUME TypeOK, ModeInv, Next
  PROVE  ModeInv'
<1>1. PICK u \in Users : UserStep(u)
  BY DEF Next, UserStep
<1>2. OnlyOwn(u) /\ PlaceMode(u)' /\ ModeChange(u)
  BY <1>1, OwnStep, PlaceStep DEF ModeInv
<1>3. ModesExclude'
  <2>1. CASE mode' = mode
    BY <2>1 DEF ModeInv, ModesExclude
  <2>2. CASE mode' # mode
    BY <1>2, <2>2, LoweredExcludes DEF ModeChange, ModeInv, TypeOK
  <2>. QED  BY <2>1, <2>2
<1>4. ASSUME NEW v \in Users, v # u  PROVE PlaceMode(v)'
  BY <1>2, <1>4, SharedFileAssumption DEF OnlyOwn, ModeInv, PlaceMode
<1>. QED  BY <1>2, <1>3, <1>4 DEF ModeInv

(* Two users who work on the index: both would have record lock 0, or one  *)
(* of them a mode that excludes the other's.                               *)
LEMMA OneWriter ==
  ASSUME TypeOK, ModeInv
  PROVE  OneIndexWriter
<1>. DEFINE writers == {u \in Users : pc[u] \in {"empty", "build", "insert"}}
<1>1. ASSUME NEW u \in writers, NEW v \in writers, u # v  PROVE FALSE
  <2>1. /\ PlaceMode(u) /\ PlaceMode(v) /\ mode[u] + mode[v] <= 8
        /\ mode[u] \in 0 .. 8 /\ mode[v] \in 0 .. 8
    BY <1>1 DEF ModeInv, ModesExclude, TypeOK, LockMode
  <2>2. \A op \in DOMAIN ModeOf : ModeOf[op] \in 4 .. 8
    BY DEF ModeOf
  <2>3. mode[u] >= RdMode /\ mode[v] >= RdMode
    BY <2>1, <2>2 DEF PlaceMode
  <2>4. CASE pc[u] = "insert" \/ pc[v] = "insert"
    BY <2>1, <2>3, <2>4 DEF PlaceMode
  <2>5. CASE pc[u] # "insert" /\ pc[v] # "insert"
    BY <1>1, <2>1, <2>5 DEF PlaceMode
  <2>. QED  BY <2>4, <2>5
<1>2. CASE writers = {}
  <2>1. Cardinality(writers) = 0
    BY <1>2, FS_EmptySet
  <2>. QED  BY <2>1 DEF OneIndexWriter
<1>3. CASE writers # {}
  <2>1. PICK u \in writers : writers = {u}
    BY <1>1, <1>3
  <2>2. Cardinality(writers) = 1
    BY <2>1, FS_Singleton
  <2>. QED  BY <2>2 DEF OneIndexWriter
<1>. QED  BY <1>2, <1>3

(***************************************************************************)
(* Every step keeps the types.                                             *)
(***************************************************************************)

(* A step of u, and what its argument has to be in the next place.         *)
LEMMA TypeStepOf ==
  ASSUME TypeInv, ModeInv, NEW u \in Users, UserStep(u)
  PROVE  TypeOK' /\ ArgsOf(u)'
<1>. USE NamedTypes DEF TypeOK, ArgsOf, TypeInv, Goto, Places
<1>0. mem[u] \in Memory /\ arg[u] \in Args /\ held[u] \in LockMode
  OBVIOUS
<1>1. CASE OpenF1(u)
  BY <1>0, <1>1 DEF OpenF1, disk
<1>2. CASE MarkNotValid(u)
  BY <1>0, <1>2, ReadTypes DEF MarkNotValid, WrXPrefix
<1>3. CASE OpenF2(u)
  <2>1. mem' \in [Users -> Memory]
    BY <1>3, RdTypes DEF OpenF2
  <2>2. mode' \in [Users -> LockMode]
    BY <1>3 DEF OpenF2, LockMode
  <2>3. pc' \in [Users -> Places] /\ pc'[u] \in {"repair", "idle"}
    BY <1>3 DEF OpenF2
  <2>. QED  BY <1>3, <2>1, <2>2, <2>3 DEF OpenF2, disk
<1>4. CASE Repair(u)
  BY <1>0, <1>4, ReadTypes DEF Repair, WrXPrefix
<1>5. CASE Close(u)
  <2>1. mem' \in [Users -> Memory] /\ mode' \in [Users -> LockMode]
    BY <1>5, NewLockTypes DEF Close, LockMode
  <2>. QED  BY <1>0, <1>5, <2>1 DEF Close, disk
<1>6. CASE TruncFile(u)
  BY <1>0, <1>6 DEF TruncFile, Gone
<1>7. CASE Save(u)
  BY <1>0, <1>7, ReadTypes DEF Save, WrXPrefix, Memory
<1>8. CASE Crash(u)
  BY <1>0, <1>8 DEF Crash, Gone, disk
<1>9. CASE \E op \in Ops : Start(u, op)
  <2>1. PICK op \in Ops : Start(u, op)
    BY <1>9
  <2>2. op \in DOMAIN ModeOf /\ op \in AllOps
    BY <2>1, SharedFileAssumption DEF Start
  <2>3. mem' \in [Users -> Memory] /\ mode' \in [Users -> LockMode]
    BY <2>1, <2>2, NewLockTypes DEF Start
  <2>4. arg' \in [Users -> Args]
    BY <2>1, <2>2, StartArg DEF Start
  <2>. QED  BY <1>0, <2>1, <2>3, <2>4 DEF Start, disk
<1>10. CASE \E m \in HoldModes : Hold(u, m)
  <2>1. PICK m \in HoldModes : Hold(u, m)
    BY <1>10
  <2>2. mem' \in [Users -> Memory] /\ mode' \in [Users -> LockMode]
    BY <2>1, NewLockTypes DEF Hold
  <2>. QED  BY <1>0, <2>1, <2>2 DEF Hold, disk
<1>11. CASE Unhold(u)
  BY <1>0, <1>11 DEF Unhold, disk
<1>12. CASE TestXFExist(u)
  BY <1>0, <1>12 DEF TestXFExist, disk
<1>13. CASE LockForIndex(u)
  BY <1>0, <1>13, ReadTypes DEF LockForIndex, disk
<1>14. CASE SetEmpty(u)
  <2>1. 0 \in Counts /\ 1 \in 0 .. MaxRecs + 1
    BY SharedFileAssumption DEF Counts
  <2>2. /\ mem' = [mem EXCEPT ![u] = [mem[u] EXCEPT !.nrecs = 0]]
        /\ arg' = [arg EXCEPT ![u] = [arg[u] EXCEPT !.n = 1]]
    BY <1>14 DEF SetEmpty
  <2>3. /\ mem' \in [Users -> Memory] /\ mem'[u].n = mem[u].n /\ mem'[u].nrecs = 0
        /\ arg' \in [Users -> Args] /\ arg'[u].n = 1 /\ mem[u].n \in Nat
    <3>1. /\ mem' \in [Users -> Memory] /\ mem'[u].n = mem[u].n /\ mem'[u].nrecs = 0
      BY <2>1, <2>2, SetCount
    <3>2. arg' \in [Users -> Args] /\ arg'[u].n = 1
      BY <2>1, <2>2, SetArg
    <3>3. mem[u].n \in Nat
      BY <1>0 DEF Memory
    <3>. QED  BY <3>1, <3>2, <3>3
  <2>4. XPrefix(mem'[u]) \in Prefix
    BY <2>3, ReadTypes
  <2>. QED  BY <1>0, <1>14, <2>3, <2>4 DEF SetEmpty, WrPages
<1>15. CASE BuildNext(u)
  <2>1. /\ arg[u].n \in 1 .. mem[u].n /\ mem[u].n \in 0 .. MaxRecs
        /\ mem[u].nrecs \in 0 .. arg[u].n - 1
    BY <1>0, <1>15 DEF BuildNext, Memory
  <2>2. /\ arg[u].n \in Slots /\ arg[u].n + 1 \in 0 .. MaxRecs + 1
        /\ mem[u].nrecs + 1 \in Counts /\ arg[u].n + 1 \in 1 .. mem[u].n + 1
    BY <2>1, SharedFileAssumption DEF Slots, Counts
  <2>3. /\ arg' = [arg EXCEPT ![u] = [arg[u] EXCEPT !.n = arg[u].n + 1]]
        /\ mem' = mem \/ mem' = [mem EXCEPT ![u] = [mem[u] EXCEPT !.nrecs = mem[u].nrecs + 1]]
    BY <1>15 DEF BuildNext
  <2>4. arg' \in [Users -> Args] /\ arg'[u].n = arg[u].n + 1
    BY <2>2, <2>3, SetArg
  <2>5. /\ mem' \in [Users -> Memory] /\ mem'[u].n = mem[u].n
        /\ mem'[u].nrecs \in {mem[u].nrecs, mem[u].nrecs + 1}
    BY <2>2, <2>3, SetCount
  <2>6. ArgsOf(u)'
    BY <2>1, <2>2, <2>4, <2>5, <1>15 DEF BuildNext
  <2>7. rec' \in [Slots -> Keys \cup {Deleted}] /\ idx' \subseteq Keys \X Slots
        /\ xsize' \in {"empty", "prefix", "pages"} /\ df' \in [Users -> BOOLEAN]
    <3>1. CASE rec[arg[u].n] = Deleted
      BY <3>1, <1>15 DEF BuildNext
    <3>2. CASE rec[arg[u].n] # Deleted
      <4>1. rec[arg[u].n] \in Keys
        BY <2>2, <3>2
      <4>2. {<<rec[arg[u].n], arg[u].n>>} \subseteq Keys \X Slots
        BY <2>2, <4>1
      <4>3. \/ /\ idx' = idx \cup {<<rec[arg[u].n], arg[u].n>>} /\ xsize' = "pages"
               /\ rec' = rec /\ df' = df
            \/ /\ rec' = [rec EXCEPT ![arg[u].n] = Deleted] /\ df' = [df EXCEPT ![u] = TRUE]
               /\ idx' = idx /\ xsize' = xsize
        BY <3>2, <1>15 DEF BuildNext, WrPages
      <4>. QED  BY <2>2, <4>2, <4>3
    <3>. QED  BY <3>1, <3>2
  <2>. QED  BY <2>4, <2>5, <2>6, <2>7, <1>15 DEF BuildNext
<1>16. CASE IndexBuilt(u)
  <2>1. mem' = [mem EXCEPT ![u] = [mem[u] EXCEPT !.nv = FALSE]]
    BY <1>16 DEF IndexBuilt
  <2>2. mem' \in [Users -> Memory]
    BY <2>1, SetValid
  <2>3. XPrefix(mem'[u]) \in Prefix
    BY <2>2, ReadTypes
  <2>. QED  BY <2>2, <2>3, <1>16 DEF IndexBuilt, WrXPrefix
<1>17. CASE Find(u)
  BY <1>0, <1>17 DEF Find, disk
<1>18. CASE AssignNRecs(u)
  <2>1. mem' = [mem EXCEPT ![u] = NotValid([mem[u] EXCEPT !.n = 0])]
    BY <1>18 DEF AssignNRecs
  <2>2. mem' \in [Users -> Memory]
    BY <2>1, SetNone
  <2>3. mem'[u] \in Memory
    BY <2>2
  <2>4. XPrefix(mem'[u]) \in Prefix
    BY <2>3, ReadTypes
  <2>. QED  BY <2>2, <2>4, <1>18 DEF AssignNRecs, WrXPrefix
<1>19. CASE NoSuchRecord(u)
  BY <1>0, <1>19 DEF NoSuchRecord, disk
<1>20. CASE \E k \in Keys : Append(u, k)
  <2>1. PICK k \in Keys : Append(u, k)
    BY <1>20
  <2>2. /\ mem[u].n + 1 \in Slots /\ mem[u].n + 1 \in 0 .. MaxRecs
        /\ mem[u].n + 1 \in 0 .. MaxRecs + 1 /\ mem[u].nrecs + 1 \in Counts
    BY <1>0, <2>1, SharedFileAssumption DEF Append, Memory, Slots, Counts
  <2>3. mem' = [mem EXCEPT ![u] = [mem[u] EXCEPT !.n = mem[u].n + 1, !.nrecs = mem[u].nrecs + 1]]
    BY <2>1 DEF Append
  <2>4. mem' \in [Users -> Memory] /\ mem'[u].n = mem[u].n + 1
    BY <2>2, <2>3, SetCounts
  <2>5. arg' = [arg EXCEPT ![u] = [arg[u] EXCEPT !.n = mem[u].n + 1, !.k = k]]
    BY <2>1, <2>4 DEF Append
  <2>6. arg' \in [Users -> Args] /\ arg'[u].n = mem[u].n + 1 /\ arg'[u].k = k
    BY <2>2, <2>5, SetArgs
  <2>. QED  BY <2>1, <2>2, <2>4, <2>6 DEF Append, disk
<1>21. CASE \E n \in Slots, k \in Keys : Recall(u, n, k)
  <2>1. PICK n \in Slots, k \in Keys : Recall(u, n, k)
    BY <1>21
  <2>2. n \in 0 .. MaxRecs + 1 /\ mem[u].nrecs + 1 \in Counts
    BY <1>0, <2>1, SharedFileAssumption DEF Recall, Memory, Slots, Counts
  <2>3. /\ mem' = [mem EXCEPT ![u] = [mem[u] EXCEPT !.nrecs = mem[u].nrecs + 1]]
        /\ arg' = [arg EXCEPT ![u] = [arg[u] EXCEPT !.n = n, !.k = k]]
    BY <2>1 DEF Recall
  <2>4. mem' \in [Users -> Memory]
    BY <2>2, <2>3, SetCount
  <2>5. arg' \in [Users -> Args] /\ arg'[u].n = n /\ arg'[u].k = k
    BY <2>2, <2>3, SetArgs
  <2>. QED  BY <2>1, <2>4, <2>5 DEF Recall, disk
<1>22. CASE \E n \in Slots, k \in Keys : Rekey(u, n, k)
  <2>1. PICK n \in Slots, k \in Keys : Rekey(u, n, k)
    BY <1>22
  <2>2. n \in 0 .. MaxRecs + 1
    BY SharedFileAssumption DEF Slots
  <2>3. arg' = [arg EXCEPT ![u] = [arg[u] EXCEPT !.n = n, !.k = k]]
    BY <2>1 DEF Rekey
  <2>4. arg' \in [Users -> Args] /\ arg'[u].n = n /\ arg'[u].k = k
    BY <2>2, <2>3, SetArgs
  <2>5. idx' \subseteq Keys \X Slots /\ xsize' \in {"empty", "prefix", "pages"}
        /\ xf' \in [Users -> BOOLEAN] /\ pc' \in [Users -> Places]
        /\ pc'[u] \in {"insert", "write"}
    BY <2>1 DEF Rekey, WrPages
  <2>. QED  BY <2>1, <2>4, <2>5 DEF Rekey
<1>23. CASE \E n \in Slots : DeleteRec(u, n)
  <2>1. PICK n \in Slots : DeleteRec(u, n)
    BY <1>23
  <2>2. n \in 0 .. MaxRecs + 1
    BY SharedFileAssumption DEF Slots
  <2>3. arg' = [arg EXCEPT ![u] = [arg[u] EXCEPT !.n = n]]
    BY <2>1 DEF DeleteRec
  <2>4. arg' \in [Users -> Args] /\ arg'[u].n = n
    BY <2>2, <2>3, SetArg
  <2>5. idx' \subseteq Keys \X Slots /\ xsize' = "pages"
        /\ xf' \in [Users -> BOOLEAN] /\ pc' = [pc EXCEPT ![u] = "mark"]
    BY <2>1 DEF DeleteRec, WrPages
  <2>6. mem' = mem /\ mem[u].nrecs > -MaxDrift
    BY <2>1 DEF DeleteRec
  <2>. QED  BY <2>1, <2>4, <2>5, <2>6 DEF DeleteRec
<1>24. CASE InsertFails(u)
  BY <1>0, <1>24, ReadTypes DEF InsertFails, Gone, WrXPrefix
<1>25. CASE Insert(u)
  BY <1>0, <1>25 DEF Insert, WrPages
<1>26. CASE WriteRec(u)
  BY <1>0, <1>26 DEF WriteRec
<1>27. CASE MarkDeleted(u)
  <2>1. mem[u].nrecs - 1 \in Counts
    BY <1>0, <1>27, SharedFileAssumption DEF MarkDeleted, Memory, Counts
  <2>2. mem' = [mem EXCEPT ![u] = [mem[u] EXCEPT !.nrecs = mem[u].nrecs - 1]]
    BY <1>27 DEF MarkDeleted
  <2>3. mem' \in [Users -> Memory]
    BY <2>1, <2>2, SetCount
  <2>. QED  BY <2>3, <1>27 DEF MarkDeleted
<1>28. CASE Leave(u)
  <2>1. mem[u].n \in 0 .. MaxRecs
    BY <1>0 DEF Memory
  <2>2. dN' \in 0 .. MaxRecs /\ mode' \in [Users -> LockMode] /\ arg' \in [Users -> Args]
    BY <1>0, <2>1, <1>28 DEF Leave, Lower
  <2>3. pc' \in [Users -> Places] /\ pc'[u] \in {"idle", "leave2"}
    BY <1>28 DEF Leave, Lower
  <2>. QED  BY <2>2, <2>3, <1>28 DEF Leave
<1>29. CASE LeaveIndex(u)
  BY <1>0, <1>29, ReadTypes DEF LeaveIndex, Lower, WrXPrefix
<1>. QED
  BY <1>1, <1>2, <1>3, <1>4, <1>5, <1>6, <1>7, <1>8, <1>9, <1>10, <1>11, <1>12, <1>13, <1>14,
     <1>15, <1>16, <1>17, <1>18, <1>19, <1>20, <1>21, <1>22, <1>23, <1>24, <1>25, <1>26, <1>27, <1>28, <1>29
  DEF UserStep, OpenClose, Index, Work

(* The types after a step of anybody.                                      *)
LEMMA TypeStep ==
  ASSUME TypeInv, ModeInv, Next
  PROVE  TypeInv'
<1>1. PICK u \in Users : UserStep(u)
  BY DEF Next, UserStep
<1>2. TypeOK' /\ ArgsOf(u)' /\ OnlyOwn(u)
  BY <1>1, TypeStepOf, OwnStep DEF ModeInv, TypeInv
<1>3. ASSUME NEW v \in Users, v # u  PROVE ArgsOf(v)'
  BY <1>2, <1>3 DEF OnlyOwn, TypeInv, ArgsOf
<1>. QED  BY <1>2, <1>3 DEF TypeInv

(* The empty file that nobody has open.                                    *)
LEMMA InitInv == Init => TypeInv /\ ModeInv
<1>. SUFFICES ASSUME Init  PROVE TypeInv /\ ModeInv
  OBVIOUS
<1>1. TypeOK
  BY NamedTypes, SharedFileAssumption DEF Init, TypeOK, LockMode, Places, Slots
<1>2. \A u \in Users : ArgsOf(u)
  BY DEF Init, ArgsOf
<1>3. ModeInv
  BY DEF Init, ModeInv, PlaceMode, ModesExclude
<1>. QED  BY <1>1, <1>2, <1>3 DEF TypeInv

(***************************************************************************)
(* The number of records, when nobody calls SaveFiles.                     *)
(***************************************************************************)

(* Only a user above Rd writes the data prefix.                            *)
LEMMA DataPrefixStep ==
  ASSUME "save" \notin Ops, TypeOK, NEW u \in Users, UserStep(u)
  PROVE  dN' = dN \/ mode[u] >= WrMode
<1>. USE DEF disk
<1>1. CASE OpenF1(u)
  BY <1>1 DEF OpenF1
<1>2. CASE MarkNotValid(u)
  BY <1>2 DEF MarkNotValid
<1>3. CASE OpenF2(u)
  BY <1>3 DEF OpenF2
<1>4. CASE Repair(u)
  BY <1>4 DEF Repair
<1>5. CASE Close(u)
  BY <1>5 DEF Close
<1>6. CASE TruncFile(u)
  BY <1>6 DEF TruncFile
<1>7. CASE Save(u)
  BY <1>7 DEF Save
<1>8. CASE Crash(u)
  BY <1>8 DEF Crash
<1>9. CASE \E op \in Ops : Start(u, op)
  BY <1>9 DEF Start
<1>10. CASE \E m \in HoldModes : Hold(u, m)
  BY <1>10 DEF Hold
<1>11. CASE Unhold(u)
  BY <1>11 DEF Unhold
<1>12. CASE TestXFExist(u)
  BY <1>12 DEF TestXFExist
<1>13. CASE LockForIndex(u)
  BY <1>13 DEF LockForIndex
<1>14. CASE SetEmpty(u)
  BY <1>14 DEF SetEmpty
<1>15. CASE BuildNext(u)
  BY <1>15 DEF BuildNext
<1>16. CASE IndexBuilt(u)
  BY <1>16 DEF IndexBuilt
<1>17. CASE Find(u)
  BY <1>17 DEF Find
<1>18. CASE AssignNRecs(u)
  BY <1>18 DEF AssignNRecs
<1>19. CASE NoSuchRecord(u)
  BY <1>19 DEF NoSuchRecord
<1>20. CASE \E k \in Keys : Append(u, k)
  BY <1>20 DEF Append
<1>21. CASE \E n \in Slots, k \in Keys : Recall(u, n, k)
  BY <1>21 DEF Recall
<1>22. CASE \E n \in Slots, k \in Keys : Rekey(u, n, k)
  BY <1>22 DEF Rekey
<1>23. CASE \E n \in Slots : DeleteRec(u, n)
  BY <1>23 DEF DeleteRec
<1>24. CASE InsertFails(u)
  BY <1>24 DEF InsertFails
<1>25. CASE Insert(u)
  BY <1>25 DEF Insert
<1>26. CASE WriteRec(u)
  BY <1>26 DEF WriteRec
<1>27. CASE MarkDeleted(u)
  BY <1>27 DEF MarkDeleted
<1>28. CASE Leave(u)
  BY <1>28 DEF Leave, Writes
<1>29. CASE LeaveIndex(u)
  BY <1>29 DEF LeaveIndex
<1>. QED
  BY <1>1, <1>2, <1>3, <1>4, <1>5, <1>6, <1>7, <1>8, <1>9, <1>10, <1>11, <1>12, <1>13, <1>14,
     <1>15, <1>16, <1>17, <1>18, <1>19, <1>20, <1>21, <1>22, <1>23, <1>24, <1>25, <1>26, <1>27, <1>28, <1>29
  DEF UserStep, OpenClose, Index, Work

(* The copy of the number in one place of the program.                     *)
CountOf(u) ==
  /\ mode[u] = RdMode => mem[u].n = dN
  /\ mode[u] >= WrMode /\ ~df[u] => mem[u].n = dN
  /\ pc[u] = "leave2" => mem[u].n = dN

(* With modes below Wr only around the operations, it is current until an  *)
(* operation changes it.                                                   *)
EndOf(u) ==
  /\ pc[u] \in {"idle", "work", "lock0", "empty", "build"} /\ mode[u] >= RdMode =>
       mem[u].n = dN
  /\ pc[u] \in {"insert", "write"} /\ arg[u].op = "append" => arg[u].n = dN + 1

(* A change of mode upwards: the number is read from the file, or the mode *)
(* was strong enough to have it already, or is too weak to need it.        *)
LEMMA RaisedMode ==
  ASSUME TypeOK, NEW u \in Users, NEW m \in LockMode, NewLockMode(u, m)
  PROVE  \/ mode'[u] = mode[u] /\ mem'[u] = mem[u]
         \/ mode'[u] = m /\ mode[u] < m /\ mode[u] >= RdMode /\ mem'[u] = mem[u]
         \/ mode'[u] = m /\ mode[u] < m /\ mem'[u].n = dN
         \/ mode'[u] = m /\ m < RdMode
<1>. USE DEF TypeOK, NewLockMode
<1>0. mode[u] \in 0 .. 8 /\ m \in 0 .. 8
  BY DEF LockMode
<1>1. CASE mode[u] >= m
  BY <1>0, <1>1
<1>2. CASE mode[u] < m /\ mode[u] < RdMode /\ m >= RdMode
  BY <1>0, <1>2, RdTypes
<1>3. CASE mode[u] < m /\ ~ (mode[u] < RdMode /\ m >= RdMode)
  BY <1>0, <1>3
<1>. QED  BY <1>0, <1>1, <1>2, <1>3

(* A step of u keeps its own copy of the number right.                     *)
LEMMA CountStepOf ==
  ASSUME "save" \notin Ops, TypeOK, ModeInv, NEW u \in Users, UserStep(u), CountOf(u)
  PROVE  CountOf(u)'
<1>. USE DEF TypeOK, CountOf, Goto, disk
<1>0. mode[u] \in 0 .. 8 /\ held[u] \in 0 .. 8 /\ PlaceMode(u)
  BY NamedTypes DEF LockMode, ModeInv
<1>1. CASE OpenF1(u)
  BY <1>0, <1>1 DEF OpenF1, PlaceMode
<1>2. CASE MarkNotValid(u)
  BY <1>0, <1>2 DEF MarkNotValid, PlaceMode
<1>3. CASE OpenF2(u)
  BY <1>0, <1>3, RdTypes DEF OpenF2
<1>4. CASE Repair(u)
  BY <1>0, <1>4 DEF Repair
<1>5. CASE Close(u)
  BY <1>0, <1>5, RdTypes DEF Close, NewLockMode
<1>6. CASE TruncFile(u)
  BY <1>0, <1>6 DEF TruncFile, Gone
<1>7. CASE Save(u)
  BY <1>0, <1>7 DEF Save
<1>8. CASE Crash(u)
  BY <1>0, <1>8 DEF Crash, Gone
<1>9. CASE \E op \in Ops : Start(u, op)
  <2>1. PICK op \in Ops : Start(u, op)
    BY <1>9
  <2>2. ModeOf[op] \in LockMode /\ NewLockMode(u, ModeOf[op])
    BY <2>1, NamedTypes DEF Start
  <2>3. dN' = dN /\ df' = df /\ pc'[u] = "work"
    BY <2>1 DEF Start
  <2>. QED  BY <1>0, <2>2, <2>3, RaisedMode DEF LockMode
<1>10. CASE \E m \in HoldModes : Hold(u, m)
  <2>1. PICK m \in HoldModes : Hold(u, m)
    BY <1>10
  <2>2. m \in LockMode /\ NewLockMode(u, m)
    BY <2>1, NamedTypes DEF Hold
  <2>3. dN' = dN /\ df' = df /\ pc'[u] = "idle"
    BY <2>1 DEF Hold
  <2>. QED  BY <1>0, <2>2, <2>3, RaisedMode DEF LockMode
<1>11. CASE Unhold(u)
  BY <1>0, <1>11 DEF Unhold
<1>12. CASE TestXFExist(u)
  BY <1>0, <1>12 DEF TestXFExist
<1>13. CASE LockForIndex(u)
  BY <1>0, <1>13, ReadTypes DEF LockForIndex
<1>14. CASE SetEmpty(u)
  BY <1>0, <1>14 DEF SetEmpty
<1>15. CASE BuildNext(u)
  <2>1. \/ mem' = mem
        \/ mem' = [mem EXCEPT ![u] = [mem[u] EXCEPT !.nrecs = mem[u].nrecs + 1]]
    BY <1>15 DEF BuildNext
  <2>2. mem'[u].n = mem[u].n
    BY <2>1 DEF Memory
  <2>3. df'[u] = df[u] \/ df'[u]
    BY <1>15 DEF BuildNext
  <2>4. dN' = dN /\ mode' = mode /\ pc' = pc
    BY <1>15 DEF BuildNext
  <2>. QED  BY <2>2, <2>3, <2>4
<1>16. CASE IndexBuilt(u)
  BY <1>0, <1>16 DEF IndexBuilt
<1>17. CASE Find(u)
  BY <1>0, <1>17 DEF Find
<1>18. CASE AssignNRecs(u)
  BY <1>0, <1>18 DEF AssignNRecs, PlaceMode, ModeOf
<1>19. CASE NoSuchRecord(u)
  BY <1>0, <1>19 DEF NoSuchRecord
<1>20. CASE \E k \in Keys : Append(u, k)
  BY <1>0, <1>20 DEF Append, Ready, PlaceMode, ModeOf
<1>21. CASE \E n \in Slots, k \in Keys : Recall(u, n, k)
  BY <1>0, <1>21 DEF Recall
<1>22. CASE \E n \in Slots, k \in Keys : Rekey(u, n, k)
  BY <1>0, <1>22 DEF Rekey
<1>23. CASE \E n \in Slots : DeleteRec(u, n)
  BY <1>0, <1>23 DEF DeleteRec
<1>24. CASE InsertFails(u)
  BY <1>0, <1>24 DEF InsertFails, Gone
<1>25. CASE Insert(u)
  BY <1>0, <1>25 DEF Insert
<1>26. CASE WriteRec(u)
  BY <1>0, <1>26 DEF WriteRec
<1>27. CASE MarkDeleted(u)
  BY <1>0, <1>27 DEF MarkDeleted
<1>28. CASE Leave(u)
  BY <1>0, <1>28 DEF Leave, Writes, Lower, PlaceMode
<1>29. CASE LeaveIndex(u)
  BY <1>0, <1>29 DEF LeaveIndex, Lower, PlaceMode
<1>. QED
  BY <1>1, <1>2, <1>3, <1>4, <1>5, <1>6, <1>7, <1>8, <1>9, <1>10, <1>11, <1>12, <1>13, <1>14,
     <1>15, <1>16, <1>17, <1>18, <1>19, <1>20, <1>21, <1>22, <1>23, <1>24, <1>25, <1>26, <1>27, <1>28, <1>29
  DEF UserStep, OpenClose, Index, Work

(* A step of u leaves it right until an operation changes it, and an       *)
(* append then goes behind the end.                                        *)
LEMMA EndStepOf ==
  ASSUME "save" \notin Ops, \A m \in HoldModes : m < WrMode,
         TypeOK, ModeInv, NEW u \in Users, UserStep(u), CountOf(u), EndOf(u)
  PROVE  EndOf(u)'
<1>. USE DEF TypeOK, EndOf, Goto, disk
<1>0. mode[u] \in 0 .. 8 /\ held[u] \in 0 .. 8 /\ PlaceMode(u) /\ held[u] < WrMode
  BY NamedTypes DEF LockMode, ModeInv
<1>1. CASE OpenF1(u)
  BY <1>0, <1>1 DEF OpenF1
<1>2. CASE MarkNotValid(u)
  BY <1>0, <1>2 DEF MarkNotValid
<1>3. CASE OpenF2(u)
  BY <1>0, <1>3, RdTypes DEF OpenF2
<1>4. CASE Repair(u)
  BY <1>0, <1>4 DEF Repair
<1>5. CASE Close(u)
  BY <1>0, <1>5 DEF Close
<1>6. CASE TruncFile(u)
  BY <1>0, <1>6 DEF TruncFile, Gone
<1>7. CASE Save(u)
  BY <1>0, <1>7 DEF Save
<1>8. CASE Crash(u)
  BY <1>0, <1>8 DEF Crash, Gone
<1>9. CASE \E op \in Ops : Start(u, op)
  <2>1. PICK op \in Ops : Start(u, op)
    BY <1>9
  <2>2. ModeOf[op] \in LockMode /\ NewLockMode(u, ModeOf[op])
    BY <2>1, NamedTypes DEF Start
  <2>3. dN' = dN /\ pc[u] = "idle" /\ pc'[u] = "work"
    BY <2>1 DEF Start
  <2>. QED  BY <1>0, <2>2, <2>3, RaisedMode DEF LockMode
<1>10. CASE \E m \in HoldModes : Hold(u, m)
  <2>1. PICK m \in HoldModes : Hold(u, m)
    BY <1>10
  <2>2. m \in LockMode /\ NewLockMode(u, m)
    BY <2>1, NamedTypes DEF Hold
  <2>3. dN' = dN /\ pc[u] = "idle" /\ pc'[u] = "idle"
    BY <2>1 DEF Hold
  <2>. QED  BY <1>0, <2>2, <2>3, RaisedMode DEF LockMode
<1>11. CASE Unhold(u)
  BY <1>0, <1>11 DEF Unhold
<1>12. CASE TestXFExist(u)
  BY <1>0, <1>12 DEF TestXFExist
<1>13. CASE LockForIndex(u)
  <2>1. mem'[u] = XRead(u, mem[u])
    BY <1>13 DEF LockForIndex
  <2>2. mem'[u].n = mem[u].n
    <3>1. PICK m \in Memory : m = mem[u]
      OBVIOUS
    <3>2. XRead(u, m).n = m.n
      BY ReadTypes
    <3>. QED  BY <2>1, <3>1, <3>2, Zenon
  <2>3. dN' = dN /\ mode' = mode /\ pc[u] = "lock0" /\ pc'[u] \in {"empty", "work"}
    BY <1>13 DEF LockForIndex
  <2>. QED  BY <2>2, <2>3
<1>14. CASE SetEmpty(u)
  BY <1>0, <1>14 DEF SetEmpty
<1>15. CASE BuildNext(u)
  <2>1. \/ mem' = mem
        \/ mem' = [mem EXCEPT ![u] = [mem[u] EXCEPT !.nrecs = mem[u].nrecs + 1]]
    BY <1>15 DEF BuildNext
  <2>2. mem'[u].n = mem[u].n
    BY <2>1 DEF Memory
  <2>3. dN' = dN /\ mode' = mode /\ pc' = pc /\ pc[u] = "build"
    BY <1>15 DEF BuildNext
  <2>. QED  BY <2>2, <2>3
<1>16. CASE IndexBuilt(u)
  BY <1>0, <1>16 DEF IndexBuilt
<1>17. CASE Find(u)
  BY <1>0, <1>17 DEF Find
<1>18. CASE AssignNRecs(u)
  BY <1>0, <1>18 DEF AssignNRecs
<1>19. CASE NoSuchRecord(u)
  BY <1>0, <1>19 DEF NoSuchRecord
<1>20. CASE \E k \in Keys : Append(u, k)
  <2>1. PICK k \in Keys : Append(u, k)
    BY <1>20
  <2>2. /\ mem[u].n + 1 \in 0 .. MaxRecs /\ mem[u].n + 1 \in 0 .. MaxRecs + 1
        /\ mem[u].nrecs + 1 \in Counts
    BY <2>1, SharedFileAssumption DEF Append, Memory, Counts
  <2>3. mem' = [mem EXCEPT ![u] = [mem[u] EXCEPT !.n = mem[u].n + 1, !.nrecs = mem[u].nrecs + 1]]
    BY <2>1 DEF Append
  <2>4. mem'[u].n = mem[u].n + 1
    BY <2>2, <2>3, SetCounts
  <2>5. arg' = [arg EXCEPT ![u] = [arg[u] EXCEPT !.n = mem[u].n + 1, !.k = k]]
    BY <2>1, <2>4 DEF Append
  <2>6. arg'[u].n = mem[u].n + 1
    BY <2>2, <2>5, SetArgs
  <2>7. /\ pc[u] = "work" /\ pc'[u] = "insert" /\ dN' = dN /\ mode[u] >= RdMode
    BY <1>0, <2>1 DEF Append, Ready, PlaceMode, ModeOf
  <2>. QED  BY <2>6, <2>7
<1>21. CASE \E n \in Slots, k \in Keys : Recall(u, n, k)
  <2>1. PICK n \in Slots, k \in Keys : Recall(u, n, k)
    BY <1>21
  <2>2. arg' = [arg EXCEPT ![u] = [arg[u] EXCEPT !.n = n, !.k = k]]
    BY <2>1 DEF Recall
  <2>3. n \in 0 .. MaxRecs + 1
    BY SharedFileAssumption DEF Slots
  <2>4. arg'[u].op = arg[u].op
    BY <2>2, <2>3, SetArgs
  <2>5. arg[u].op = "update" /\ pc'[u] \in {"insert", "write"}
    BY <2>1 DEF Recall, Ready
  <2>. QED  BY <2>4, <2>5
<1>22. CASE \E n \in Slots, k \in Keys : Rekey(u, n, k)
  <2>1. PICK n \in Slots, k \in Keys : Rekey(u, n, k)
    BY <1>22
  <2>2. arg' = [arg EXCEPT ![u] = [arg[u] EXCEPT !.n = n, !.k = k]]
    BY <2>1 DEF Rekey
  <2>3. n \in 0 .. MaxRecs + 1
    BY SharedFileAssumption DEF Slots
  <2>4. arg'[u].op = arg[u].op
    BY <2>2, <2>3, SetArgs
  <2>5. arg[u].op = "update" /\ pc'[u] \in {"insert", "write"}
    BY <2>1 DEF Rekey, Ready
  <2>. QED  BY <2>4, <2>5
<1>23. CASE \E n \in Slots : DeleteRec(u, n)
  BY <1>0, <1>23 DEF DeleteRec
<1>24. CASE InsertFails(u)
  BY <1>0, <1>24 DEF InsertFails, Gone
<1>25. CASE Insert(u)
  BY <1>0, <1>25 DEF Insert
<1>26. CASE WriteRec(u)
  BY <1>0, <1>26 DEF WriteRec
<1>27. CASE MarkDeleted(u)
  BY <1>0, <1>27 DEF MarkDeleted
<1>28. CASE Leave(u)
  BY <1>0, <1>28 DEF Leave, Writes, Lower, PlaceMode, CountOf
<1>29. CASE LeaveIndex(u)
  BY <1>0, <1>29 DEF LeaveIndex, Lower, CountOf
<1>. QED
  BY <1>1, <1>2, <1>3, <1>4, <1>5, <1>6, <1>7, <1>8, <1>9, <1>10, <1>11, <1>12, <1>13, <1>14,
     <1>15, <1>16, <1>17, <1>18, <1>19, <1>20, <1>21, <1>22, <1>23, <1>24, <1>25, <1>26, <1>27, <1>28, <1>29
  DEF UserStep, OpenClose, Index, Work

(* The other users: whoever writes the data prefix excludes those who rely *)
(* on it.                                                                  *)
LEMMA OthersCount ==
  ASSUME "save" \notin Ops, TypeOK, ModeInv, NEW u \in Users, UserStep(u),
         NEW v \in Users, v # u
  PROVE  /\ CountOf(v) => CountOf(v)'
         /\ EndOf(v) => EndOf(v)'
<1>1. OnlyOwn(u) /\ PlaceMode(v)
  BY OwnStep DEF ModeInv
<1>2. /\ mode[u] \in 0 .. 8 /\ mode[v] \in 0 .. 8 /\ mode[u] + mode[v] <= 8
      /\ held[v] \in 0 .. 8
  BY NamedTypes DEF ModeInv, ModesExclude, TypeOK, LockMode
<1>3. /\ pc'[v] = pc[v] /\ mode'[v] = mode[v] /\ arg'[v] = arg[v] /\ mem'[v] = mem[v]
      /\ df'[v] = df[v]
  BY <1>1 DEF OnlyOwn
<1>4. CASE dN' = dN
  BY <1>3, <1>4 DEF CountOf, EndOf
<1>5. CASE mode[u] >= WrMode
  <2>1. mode[v] < RdMode /\ pc[v] \notin {"leave2", "insert", "write"}
    BY <1>1, <1>2, <1>5 DEF PlaceMode
  <2>. QED  BY <1>2, <1>3, <2>1 DEF CountOf, EndOf
<1>. QED  BY <1>4, <1>5, DataPrefixStep

(***************************************************************************)
(* The theorems.                                                           *)
(***************************************************************************)

(* Types, places and modes, whatever the users do.                         *)
THEOREM Invariance == Spec => [](TypeInv /\ ModeInv)
<1>1. Init => TypeInv /\ ModeInv
  BY InitInv
<1>2. (TypeInv /\ ModeInv) /\ [Next]_vars => (TypeInv /\ ModeInv)'
  <2>. SUFFICES ASSUME TypeInv, ModeInv, [Next]_vars  PROVE (TypeInv /\ ModeInv)'
    OBVIOUS
  <2>1. CASE Next
    BY <2>1, TypeStep, ModeStep DEF TypeInv
  <2>2. CASE UNCHANGED vars
    BY <2>2 DEF vars, disk, TypeInv, TypeOK, ArgsOf, ModeInv, PlaceMode, ModesExclude
  <2>. QED  BY <2>1, <2>2
<1>. QED  BY <1>1, <1>2, PTL DEF Spec

(* Every variable keeps its type: the counts stay inside their bounds.     *)
THEOREM TypeCorrect == Spec => []TypeOK
<1>1. TypeInv /\ ModeInv => TypeOK
  BY DEF TypeInv
<1>. QED  BY <1>1, Invariance, PTL

(* At most one user at a time works on the pages of the index, with        *)
(* crashes, saves and closes at any point: record lock 0 keeps builders    *)
(* apart, the modes keep them from writers (CreateIndexFile, XKey::Insert).*)
THEOREM IndexExclusive == Spec => []OneIndexWriter
<1>1. TypeInv /\ ModeInv => OneIndexWriter
  BY OneWriter DEF TypeInv
<1>. QED  BY <1>1, Invariance, PTL

(* As long as nobody calls SaveFiles, who has Rd or more knows the number  *)
(* of records of the file: it was read after the mode was granted and is   *)
(* written before the mode is given up (ChangeLMode).                      *)
THEOREM CountCurrent == "save" \notin Ops => (Spec => []RecordCountCurrent)
<1>. SUFFICES ASSUME "save" \notin Ops  PROVE Spec => []RecordCountCurrent
  OBVIOUS
<1>. DEFINE CountInv == \A u \in Users : CountOf(u)
<1>1. Init => CountInv
  BY DEF Init, CountOf
<1>2. TypeInv /\ ModeInv /\ CountInv /\ [Next]_vars => CountInv'
  <2>. SUFFICES ASSUME TypeInv, ModeInv, CountInv, [Next]_vars, NEW v \in Users
                PROVE  CountOf(v)'
    OBVIOUS
  <2>1. CASE UNCHANGED vars
    BY <2>1 DEF vars, disk, CountOf
  <2>2. CASE Next
    <3>1. PICK u \in Users : UserStep(u)
      BY <2>2 DEF Next, UserStep
    <3>. QED  BY <3>1, CountStepOf, OthersCount DEF TypeInv
  <2>. QED  BY <2>1, <2>2
<1>3. CountInv => RecordCountCurrent
  BY DEF CountOf, RecordCountCurrent
<1>. QED  BY <1>1, <1>2, <1>3, Invariance, PTL DEF Spec

(* The copies of the number of records, and where an append goes.          *)
EndInv == \A u \in Users : CountOf(u) /\ EndOf(u)

(* They stay right while the modes around the operations do not write.     *)
LEMMA EndInvariance ==
  ASSUME "save" \notin Ops, \A m \in HoldModes : m < WrMode
  PROVE  Spec => [](TypeInv /\ ModeInv /\ EndInv)
<1>1. Init => EndInv
  BY DEF Init, EndInv, CountOf, EndOf
<1>2. TypeInv /\ ModeInv /\ EndInv /\ [Next]_vars => EndInv'
  <2>. SUFFICES ASSUME TypeInv, ModeInv, EndInv, [Next]_vars, NEW v \in Users
                PROVE  CountOf(v)' /\ EndOf(v)'
    BY DEF EndInv
  <2>1. CASE UNCHANGED vars
    BY <2>1 DEF vars, disk, EndInv, CountOf, EndOf
  <2>2. CASE Next
    <3>1. PICK u \in Users : UserStep(u)
      BY <2>2 DEF Next, UserStep
    <3>. QED  BY <3>1, CountStepOf, EndStepOf, OthersCount DEF TypeInv, EndInv
  <2>. QED  BY <2>1, <2>2
<1>. QED  BY <1>1, <1>2, Invariance, PTL DEF Spec

(* When also no "with shared" around the operations asks for a mode that   *)
(* writes, appended records go behind the end of the file, crashes and     *)
(* closes at any point included (IncNRecs, WriteNewRec).                   *)
THEOREM AppendsSafe ==
  "save" \notin Ops /\ (\A m \in HoldModes : m < WrMode) => (Spec => []AppendsBehindTheEnd)
<1>. SUFFICES ASSUME "save" \notin Ops, \A m \in HoldModes : m < WrMode
              PROVE  Spec => []AppendsBehindTheEnd
  OBVIOUS
<1>1. TypeInv /\ ModeInv /\ EndInv => AppendsBehindTheEnd
  <2>. SUFFICES ASSUME TypeInv, ModeInv, EndInv, NEW u \in Users
                PROVE  /\ pc[u] \in {"insert", "write"} /\ arg[u].op = "append" =>
                            arg[u].n = dN + 1
                       /\ \A v \in Users \ {u} : pc[u] = "write" => pc[v] \notin {"write", "mark"}
    BY DEF AppendsBehindTheEnd
  <2>1. \A v \in Users : mode[v] \in 0 .. 8 /\ PlaceMode(v)
    BY DEF TypeInv, TypeOK, ModeInv, LockMode
  <2>2. \A v \in Users \ {u} : mode[u] + mode[v] <= 8
    BY DEF ModeInv, ModesExclude
  <2>. QED  BY <2>1, <2>2 DEF EndInv, EndOf, PlaceMode
<1>. QED  BY <1>1, EndInvariance, PTL
===============================================================================
