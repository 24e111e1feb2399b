-------------------------- MODULE SharedIndexProofs --------------------------
(***************************************************************************)
(* The index of a shared file, for every set of users and keys and every   *)
(* number of records: as long as nobody dies, closes the file, calls       *)
(* SaveFiles or deletes by number, an index that claims to be valid lists  *)
(* exactly the records, no opener finds it damaged and a reader sees no    *)
(* change.                                                                 *)
(***************************************************************************)
EXTENDS SharedFileProofs

USE DEF NullMode, RdMode, WrMode, CrMode, DelMode, ExclMode

(* Records are found, written, deleted through the index and all of them   *)
(* forgotten; the modes around the operations do not write.                *)
GoodDays ==
  /\ Ops \subseteq {"find", "update", "append", "deletekey", "reset"}
  /\ \A m \in HoldModes : m < WrMode

(* The records in the first m slots that are not deleted, and their        *)
(* entries.                                                                *)
LiveIn(m) == {n \in 1 .. m : rec[n] # Deleted}
Entries(S) == {<<rec[n], n>> : n \in S}
Distinct(S) == \A i, j \in S : rec[i] = rec[j] => i = j

(* All but the record an operation is just writing.                        *)
Others(u) == {n \in LiveIn(mem[u].n) : n # arg[u].n}

Changing(u) == pc[u] \in {"insert", "write", "mark"}
Dirty(u)    == Changing(u) \/ df[u]

(* Nobody has half built the index.                                        *)
NotBuilding == \A u \in Users : pc[u] # "build"

(* Where u is, and what it has not yet written.                            *)
OpenOf(u) ==
  /\ pc[u] \notin {"closed", "marking"} => xsize # "empty"
  /\ pc[u] \notin {"repair", "trunc"}
  /\ df[u] => mode[u] >= WrMode /\ pc[u] \in {"insert", "write", "leave", "leave2"}
  /\ pc[u] = "leave2" => mem[u].n = dN

(* The builder.                                                            *)
BuildOf(u) ==
  /\ pc[u] \in {"empty", "build"} => xpfx.nv /\ mem[u].nv
  /\ pc[u] = "build" =>
       /\ xsize = "pages"
       /\ idx = Entries(LiveIn(arg[u].n - 1))
       /\ mem[u].nrecs = Cardinality(LiveIn(arg[u].n - 1))

(* A user who may rely on the index.                                       *)
KnowsOf(u) ==
  mode[u] >= RdMode =>
    /\ ~mem[u].nv => xsize = "pages"
    /\ ~mem[u].nv /\ ~Changing(u) => mem[u].nrecs = Cardinality(LiveIn(mem[u].n))
    /\ ~mem[u].nv /\ ~Changing(u) /\ NotBuilding => idx = Entries(LiveIn(mem[u].n))
    /\ pc[u] \notin {"insert", "write"} => Distinct(LiveIn(mem[u].n))

(* An operation between its first and its last write.                      *)
ChangeOf(u) ==
  /\ Changing(u) =>
       /\ ~mem[u].nv /\ arg[u].n \in 1 .. mem[u].n /\ dN <= mem[u].n
       /\ Distinct(Others(u)) /\ mem[u].nrecs = Cardinality(Others(u)) + 1
  /\ pc[u] \in {"insert", "mark"} => idx = Entries(Others(u))
  /\ pc[u] = "write" => /\ idx = Entries(Others(u)) \cup {<<arg[u].k, arg[u].n>>}
                        /\ \A n \in Others(u) : rec[n] # arg[u].k
  /\ pc[u] = "mark" => rec[arg[u].n] # Deleted

UserInv(u) == OpenOf(u) /\ BuildOf(u) /\ KnowsOf(u) /\ ChangeOf(u)

(* The files, when nobody has something to write.                          *)
DiskInv ==
  /\ Distinct(LiveIn(dN))
  /\ xsize # "empty" /\ ~xpfx.nv /\ (\A u \in Users : ~Dirty(u)) =>
       /\ xsize = "pages" /\ xpfx.sig /\ xpfx.abs = dN
       /\ idx = Entries(LiveIn(dN)) /\ xpfx.nrecs = Cardinality(LiveIn(dN))

(* Nobody deletes by number.                                               *)
NoDelete == \A u \in Users : arg[u].op # "delete"

IndexInv == DiskInv /\ NoDelete /\ \A u \in Users : UserInv(u)

BaseInv == TypeInv /\ ModeInv /\ EndInv

(***************************************************************************)
(* Sets of records.                                                        *)
(***************************************************************************)

(* The types as the steps below need them.                                 *)
LEMMA UserTypes ==
  ASSUME BaseInv, NEW u \in Users
  PROVE  /\ mode[u] \in 0 .. 8 /\ held[u] \in 0 .. 8
         /\ mem[u] \in Memory /\ mem[u].n \in 0 .. MaxRecs
         /\ mem[u].nv \in BOOLEAN /\ mem[u].nrecs \in Counts
         /\ \A c \in Counts : c \in Int
         /\ arg[u] \in Args /\ arg[u].n \in 0 .. MaxRecs + 1
         /\ dN \in 0 .. MaxRecs /\ MaxRecs \in Nat /\ MaxDrift \in Nat /\ PlaceMode(u)
         /\ df[u] \in BOOLEAN /\ xf[u] \in BOOLEAN
<1>1. /\ mode[u] \in LockMode /\ held[u] \in LockMode /\ mem[u] \in Memory /\ arg[u] \in Args
      /\ dN \in 0 .. MaxRecs /\ PlaceMode(u) /\ df[u] \in BOOLEAN /\ xf[u] \in BOOLEAN
  BY NamedTypes DEF BaseInv, TypeInv, TypeOK, ModeInv
<1>2. MaxRecs \in Nat /\ MaxDrift \in Nat
  BY SharedFileAssumption
<1>3. /\ mem[u].n \in 0 .. MaxRecs /\ mem[u].nv \in BOOLEAN /\ mem[u].nrecs \in Counts
      /\ arg[u].n \in 0 .. MaxRecs + 1
  BY <1>1 DEF Memory, Args
<1>4. \A c \in Counts : c \in Int
  BY <1>2 DEF Counts
<1>. QED  BY <1>1, <1>2, <1>3, <1>4 DEF LockMode

(* The live records are finitely many.                                     *)
LEMMA LiveFinite ==
  ASSUME NEW m \in Nat
  PROVE  IsFiniteSet(LiveIn(m)) /\ LiveIn(m) \subseteq 1 .. m
<1>1. LiveIn(m) \subseteq 1 .. m
  BY DEF LiveIn
<1>2. IsFiniteSet(1 .. m)
  BY FS_Interval
<1>. QED  BY <1>1, <1>2, FS_Subset

(* A live record taken out of them.                                        *)
LEMMA LiveWithout ==
  ASSUME NEW m \in Nat, NEW n \in LiveIn(m), NEW S, S = {i \in LiveIn(m) : i # n}
  PROVE  /\ IsFiniteSet(S) /\ Cardinality(LiveIn(m)) = Cardinality(S) + 1
         /\ Cardinality(S) \in Nat
         /\ Entries(LiveIn(m)) = Entries(S) \cup {<<rec[n], n>>}
         /\ Entries(LiveIn(m)) \ {<<rec[n], n>>} = Entries(S)
<1>1. S = LiveIn(m) \ {n}
  OBVIOUS
<1>2. IsFiniteSet(LiveIn(m))
  BY LiveFinite
<1>3. /\ IsFiniteSet(S) /\ Cardinality(S) = Cardinality(LiveIn(m)) - 1
  BY <1>1, <1>2, FS_RemoveElement
<1>4. Cardinality(S) \in Nat /\ Cardinality(LiveIn(m)) \in Nat
  BY <1>2, <1>3, FS_CardinalityType
<1>. QED  BY <1>1, <1>3, <1>4 DEF Entries

(* No record at all.                                                       *)
LEMMA LiveZero == LiveIn(0) = {} /\ Cardinality(LiveIn(0)) = 0 /\ Entries(LiveIn(0)) = {}
<1>1. LiveIn(0) = {}
  BY DEF LiveIn
<1>. QED  BY <1>1, FS_EmptySet DEF Entries

(* What the builder has to add for one more slot.                          *)
LEMMA LiveNext ==
  ASSUME NEW n \in Nat \ {0}
  PROVE  /\ rec[n] = Deleted => LiveIn(n) = LiveIn(n - 1)
         /\ rec[n] # Deleted =>
              /\ Entries(LiveIn(n)) = Entries(LiveIn(n - 1)) \cup {<<rec[n], n>>}
              /\ Cardinality(LiveIn(n)) = Cardinality(LiveIn(n - 1)) + 1
<1>1. CASE rec[n] = Deleted
  BY <1>1 DEF LiveIn
<1>2. CASE rec[n] # Deleted
  <2>1. n \in LiveIn(n) /\ LiveIn(n - 1) = {i \in LiveIn(n) : i # n}
    BY <1>2 DEF LiveIn
  <2>. QED  BY <1>2, <2>1, LiveWithout
<1>. QED  BY <1>1, <1>2

(***************************************************************************)
(* Who is beside whom.                                                     *)
(***************************************************************************)

(* Beside a user above Rd the others have modes below it and change        *)
(* nothing.                                                                *)
LEMMA BesideWriter ==
  ASSUME BaseInv, IndexInv, NEW u \in Users, mode[u] >= WrMode, NEW v \in Users, v # u
  PROVE  /\ mode[v] < RdMode /\ ~Dirty(v)
         /\ pc[v] \in {"closed", "marking", "mounted", "idle", "leave"}
<1>1. mode[u] + mode[v] <= 8 /\ mode[u] \in 0 .. 8 /\ mode[v] \in 0 .. 8 /\ PlaceMode(v)
  BY UserTypes DEF BaseInv, ModeInv, ModesExclude
<1>2. mode[v] < RdMode
  BY <1>1
<1>3. pc[v] \in Places
  BY DEF BaseInv, TypeInv, TypeOK
<1>4. \A op \in DOMAIN ModeOf : ModeOf[op] \in 4 .. 8
  BY DEF ModeOf
<1>5. pc[v] \in {"closed", "marking", "mounted", "idle", "leave"}
  BY <1>1, <1>2, <1>3, <1>4 DEF PlaceMode, Places
<1>6. ~df[v]
  BY <1>1, <1>2 DEF IndexInv, UserInv, OpenOf
<1>. QED  BY <1>2, <1>5, <1>6 DEF Dirty, Changing

(* A user who changes the file has a mode above Rd.                        *)
LEMMA DirtyWrites ==
  ASSUME BaseInv, IndexInv, NEW u \in Users, Dirty(u)
  PROVE  mode[u] >= WrMode
<1>1. CASE df[u]
  BY <1>1 DEF IndexInv, UserInv, OpenOf
<1>2. CASE Changing(u)
  BY <1>2, UserTypes DEF Changing, PlaceMode
<1>. QED  BY <1>1, <1>2 DEF Dirty

(* While somebody has Rd, nobody else has anything to write.               *)
LEMMA BesideReader ==
  ASSUME BaseInv, IndexInv, NEW u \in Users, ~Dirty(u),
         mode[u] >= RdMode \/ Free(u, RdMode)
  PROVE  \A v \in Users : ~Dirty(v)
<1>. SUFFICES ASSUME NEW v \in Users, v # u PROVE ~Dirty(v)
  OBVIOUS
<1>1. mode[u] + mode[v] <= 8 /\ mode[u] \in 0 .. 8 /\ mode[v] \in 0 .. 8
  BY UserTypes DEF BaseInv, ModeInv, ModesExclude
<1>2. mode[v] < WrMode
  <2>1. CASE mode[u] >= RdMode
    BY <1>1, <2>1
  <2>2. CASE Free(u, RdMode)
    <3>1. Table!Compatible(mode[v], RdMode) /\ mode[v] \in LockMode /\ RdMode \in LockMode
      BY <1>1, <2>2 DEF Free, LockMode
    <3>2. mode[v] + RdMode <= 8
      BY <3>1, CompatibleSum
    <3>. QED  BY <1>1, <3>2
  <2>. QED  BY <2>1, <2>2
<1>. QED  BY <1>1, <1>2, DirtyWrites

(* Whoever is in an operation has Rd.                                      *)
LEMMA WorkMode ==
  ASSUME BaseInv, NEW u \in Users
  PROVE  /\ pc[u] \in {"work", "lock0", "empty", "build"} => mode[u] >= RdMode
         /\ pc[u] \in {"insert", "write", "mark", "leave2"} => mode[u] >= WrMode
         /\ pc[u] \in {"empty", "build"} => lock0 = u
<1>1. PlaceMode(u) /\ \A op \in DOMAIN ModeOf : ModeOf[op] \in 4 .. 8
  BY UserTypes DEF ModeOf
<1>. QED  BY <1>1, UserTypes DEF PlaceMode

(* What a user reads who gets Rd, when the index file exists.              *)
LEMMA ReadKnows ==
  ASSUME BaseInv, IndexInv, NEW u \in Users, \A v \in Users : ~Dirty(v), xsize # "empty"
  PROVE  LET m == XRead(u, [mem[u] EXCEPT !.n = dN]) IN
         /\ m.n = dN /\ m.nv = xpfx.nv /\ m.nrecs = xpfx.nrecs
         /\ ~m.nv => /\ xsize = "pages" /\ m.nrecs = Cardinality(LiveIn(m.n))
                     /\ idx = Entries(LiveIn(m.n)) /\ xpfx.sig /\ xpfx.abs = dN
         /\ Distinct(LiveIn(m.n))
<1>. DEFINE m == XRead(u, [mem[u] EXCEPT !.n = dN])
<1>1. PICK k \in Memory : k = mem[u]
  BY UserTypes
<1>2. [k EXCEPT !.n = dN] \in Memory /\ [k EXCEPT !.n = dN].n = dN
  BY UserTypes DEF Memory
<1>3. m.n = dN /\ m.nv = xpfx.nv /\ m.nrecs = xpfx.nrecs
  <2>1. PICK l \in Memory : l = [mem[u] EXCEPT !.n = dN] /\ l.n = dN
    BY <1>1, <1>2, Zenon
  <2>2. [l EXCEPT !.nv = xpfx.nv, !.nrecs = xpfx.nrecs].n = dN
        /\ [l EXCEPT !.nv = xpfx.nv, !.nrecs = xpfx.nrecs].nv = xpfx.nv
        /\ [l EXCEPT !.nv = xpfx.nv, !.nrecs = xpfx.nrecs].nrecs = xpfx.nrecs
    BY <2>1 DEF Memory
  <2>. QED  BY <2>1, <2>2, Zenon DEF XRead
<1>. HIDE DEF m
<1>4. /\ ~m.nv => /\ xsize = "pages" /\ m.nrecs = Cardinality(LiveIn(m.n))
                  /\ idx = Entries(LiveIn(m.n)) /\ xpfx.sig /\ xpfx.abs = dN
      /\ Distinct(LiveIn(m.n))
  BY <1>3 DEF IndexInv, DiskInv
<1>. QED  BY <1>3, <1>4 DEF m

(***************************************************************************)
(* What one step may change on disk.                                       *)
(***************************************************************************)

(* The steps that are left on good days.                                   *)
GoodStep(u) ==
  \/ OpenF1(u) \/ MarkNotValid(u) \/ OpenF2(u)
  \/ \E op \in Ops : Start(u, op)
  \/ \E m \in HoldModes : Hold(u, m)
  \/ Unhold(u)
  \/ Index(u) \/ Work(u)

(* No repair, no close and no crash.                                       *)
LEMMA GoodSteps ==
  ASSUME GoodDays, IndexInv, NEW u \in Users, UserStep(u)
  PROVE  GoodStep(u)
<1>1. ~Repair(u) /\ ~TruncFile(u)
  BY DEF IndexInv, UserInv, OpenOf, Repair, TruncFile
<1>2. ~Close(u) /\ ~Save(u) /\ ~Crash(u)
  BY DEF GoodDays, Close, Save, Crash
<1>. QED  BY <1>1, <1>2 DEF UserStep, OpenClose, GoodStep

(* A user below Wr changes the files only by marking or building the index.*)
LEMMA ReaderStep ==
  ASSUME GoodDays, BaseInv, NEW u \in Users, GoodStep(u), mode[u] < WrMode
  PROVE  \/ MarkNotValid(u) \/ SetEmpty(u) \/ BuildNext(u) \/ IndexBuilt(u)
         \/ disk' = disk /\ (pc'[u] # "build" => pc[u] # "build")
<1>. USE UserTypes, WorkMode DEF Goto
<1>1. CASE OpenF1(u) \/ OpenF2(u)
  BY <1>1 DEF OpenF1, OpenF2
<1>2. CASE \E op \in Ops : Start(u, op)
  BY <1>2 DEF Start
<1>3. CASE \E m \in HoldModes : Hold(u, m)
  BY <1>3 DEF Hold
<1>4. CASE Unhold(u)
  BY <1>4 DEF Unhold
<1>5. CASE TestXFExist(u) \/ LockForIndex(u)
  BY <1>5 DEF TestXFExist, LockForIndex
<1>6. CASE Find(u) \/ NoSuchRecord(u)
  <2>1. pc[u] = "work" /\ disk' = disk
    BY <1>6 DEF Find, NoSuchRecord, Ready
  <2>. QED  BY <2>1
<1>7. CASE AssignNRecs(u)
  BY <1>7 DEF AssignNRecs, PlaceMode, ModeOf
<1>8. CASE \E k \in Keys : Append(u, k)
  BY <1>8 DEF Append, Ready
<1>9. CASE \E n \in Slots, k \in Keys : Recall(u, n, k) \/ Rekey(u, n, k)
  BY <1>9 DEF Recall, Rekey, Ready, PlaceMode, ModeOf
<1>10. CASE \E n \in Slots : DeleteRec(u, n)
  BY <1>10 DEF DeleteRec, Ready, PlaceMode, ModeOf
<1>11. CASE InsertFails(u) \/ Insert(u) \/ WriteRec(u) \/ MarkDeleted(u) \/ LeaveIndex(u)
  BY <1>11 DEF InsertFails, Insert, WriteRec, MarkDeleted, LeaveIndex
<1>12. CASE Leave(u)
  BY <1>12 DEF Leave, Writes, disk
<1>. QED
  BY <1>1, <1>2, <1>3, <1>4, <1>5, <1>6, <1>7, <1>8, <1>9, <1>10, <1>11, <1>12
  DEF GoodStep, Index, Work

(* The index file never becomes empty again.                               *)
LEMMA IndexFileStays ==
  ASSUME BaseInv, NEW u \in Users, GoodStep(u), xsize # "empty"
  PROVE  xsize' # "empty"
<1>. USE DEF disk, WrXPrefix, WrPages
<1>1. CASE OpenF1(u) \/ OpenF2(u) \/ MarkNotValid(u) \/ Unhold(u)
  BY <1>1 DEF OpenF1, OpenF2, MarkNotValid, Unhold
<1>2. CASE \E op \in Ops : Start(u, op)
  BY <1>2 DEF Start
<1>3. CASE \E m \in HoldModes : Hold(u, m)
  BY <1>3 DEF Hold
<1>4. CASE Index(u)
  BY <1>4 DEF Index, TestXFExist, LockForIndex, SetEmpty, BuildNext, IndexBuilt
<1>5. CASE Find(u) \/ AssignNRecs(u) \/ NoSuchRecord(u)
  BY <1>5 DEF Find, AssignNRecs, NoSuchRecord
<1>6. CASE \E k \in Keys : Append(u, k)
  BY <1>6 DEF Append
<1>7. CASE \E n \in Slots, k \in Keys : Recall(u, n, k) \/ Rekey(u, n, k)
  BY <1>7 DEF Recall, Rekey
<1>8. CASE \E n \in Slots : DeleteRec(u, n)
  BY <1>8 DEF DeleteRec
<1>9. CASE InsertFails(u) \/ Insert(u) \/ WriteRec(u) \/ MarkDeleted(u) \/ Leave(u) \/ LeaveIndex(u)
  BY <1>9 DEF InsertFails, Insert, WriteRec, MarkDeleted, Leave, LeaveIndex
<1>. QED
  BY <1>1, <1>2, <1>3, <1>4, <1>5, <1>6, <1>7, <1>8, <1>9 DEF GoodStep, Work

(* Two builders would both have record lock 0.                             *)
LEMMA OneBuilder ==
  ASSUME BaseInv, NEW u \in Users, NEW v \in Users, u # v,
         pc[u] \in {"empty", "build"}
  PROVE  pc[v] \notin {"empty", "build"}
BY WorkMode

(* A builder meets each key once, so he deletes nothing.                   *)
LEMMA NoDoubles ==
  ASSUME BaseInv, IndexInv, NEW u \in Users, BuildNext(u)
  PROVE  /\ arg[u].n \in 1 .. mem[u].n /\ arg[u].n \in Nat \ {0}
         /\ arg[u].n + 1 \in 0 .. MaxRecs + 1
         /\ rec[arg[u].n] # Deleted => \A i \in 1 .. arg[u].n - 1 : rec[i] # rec[arg[u].n]
<1>1. pc[u] = "build" /\ arg[u].n <= mem[u].n
  BY DEF BuildNext
<1>2. arg[u].n \in 1 .. mem[u].n + 1
  BY <1>1 DEF BaseInv, TypeInv, ArgsOf
<1>3. arg[u].n \in 1 .. mem[u].n /\ arg[u].n \in Nat \ {0} /\ arg[u].n + 1 \in 0 .. MaxRecs + 1
  BY <1>1, <1>2, UserTypes
<1>4. Distinct(LiveIn(mem[u].n))
  BY <1>1, WorkMode DEF IndexInv, UserInv, KnowsOf
<1>5. ASSUME rec[arg[u].n] # Deleted, NEW i \in 1 .. arg[u].n - 1, rec[i] = rec[arg[u].n]
      PROVE  FALSE
  <2>1. i \in LiveIn(mem[u].n) /\ arg[u].n \in LiveIn(mem[u].n) /\ i # arg[u].n
    BY <1>3, <1>5, UserTypes DEF LiveIn
  <2>. QED  BY <1>4, <1>5, <2>1 DEF Distinct
<1>. QED  BY <1>3, <1>5

(***************************************************************************)
(* A step of u and what the others rely on.                                *)
(***************************************************************************)

(* A writer finds the others without a mode that relies on anything.       *)
LEMMA BesideWriterStep ==
  ASSUME GoodDays, BaseInv, IndexInv, NEW u \in Users, UserStep(u), mode[u] >= WrMode,
         NEW v \in Users, v # u
  PROVE  UserInv(v)'
<1>1. OnlyOwn(u) /\ GoodStep(u)
  BY GoodSteps, OwnStep, UserTypes DEF BaseInv, TypeInv
<1>2. /\ pc'[v] = pc[v] /\ mode'[v] = mode[v] /\ df'[v] = df[v]
      /\ mode[v] < RdMode /\ ~df[v] /\ mode[v] \in 0 .. 8
      /\ pc[v] \in {"closed", "marking", "mounted", "idle", "leave"}
  BY <1>1, BesideWriter, UserTypes DEF OnlyOwn, Dirty
<1>3. OpenOf(v)'
  BY <1>1, <1>2, IndexFileStays DEF OpenOf, IndexInv, UserInv
<1>4. BuildOf(v)' /\ ChangeOf(v)'
  BY <1>2 DEF BuildOf, ChangeOf, Changing
<1>5. KnowsOf(v)'
  BY <1>2 DEF KnowsOf
<1>. QED  BY <1>3, <1>4, <1>5 DEF UserInv

(* A user below Wr leaves the records alone; while he builds the index,    *)
(* the others do not rely on its entries.                                  *)
LEMMA BesideReaderStep ==
  ASSUME GoodDays, BaseInv, IndexInv, NEW u \in Users, UserStep(u), mode[u] < WrMode,
         NEW v \in Users, v # u
  PROVE  UserInv(v)'
<1>1. OnlyOwn(u) /\ GoodStep(u)
  BY GoodSteps, OwnStep, UserTypes DEF BaseInv, TypeInv
<1>2. /\ pc'[v] = pc[v] /\ mode'[v] = mode[v] /\ df'[v] = df[v]
      /\ mem'[v] = mem[v] /\ arg'[v] = arg[v]
  BY <1>1 DEF OnlyOwn
<1>3. UserInv(v)
  BY DEF IndexInv
<1>4. CASE disk' = disk /\ (pc'[u] # "build" => pc[u] # "build")
  <2>1. dN' = dN /\ rec' = rec /\ xsize' = xsize /\ xpfx' = xpfx /\ idx' = idx
    BY <1>4 DEF disk
  <2>2. NotBuilding' => NotBuilding
    BY <1>1, <1>4 DEF NotBuilding, OnlyOwn
  <2>3. OpenOf(v)' /\ BuildOf(v)'
    BY <1>2, <1>3, <2>1 DEF UserInv, OpenOf, BuildOf, LiveIn, Entries
  <2>4. KnowsOf(v)'
    BY <1>2, <1>3, <2>1, <2>2 DEF UserInv, KnowsOf, Changing, LiveIn, Entries, Distinct
  <2>5. ChangeOf(v)'
    BY <1>2, <1>3, <2>1 DEF UserInv, ChangeOf, Changing, Others, LiveIn, Entries, Distinct
  <2>. QED  BY <2>3, <2>4, <2>5 DEF UserInv
<1>5. CASE MarkNotValid(u)
  <2>1. dN' = dN /\ rec' = rec /\ idx' = idx /\ xpfx'.nv /\ xsize' # "empty"
        /\ (xsize = "pages" => xsize' = "pages")
    <3>1. PICK m \in Memory : m = mem[u]
      BY UserTypes
    <3>2. PICK k : k = NotValid(m) /\ k.nv
      <4>1. NotValid(m).nv
        BY <3>1 DEF NotValid, Memory
      <4>. QED  BY <4>1
    <3>3. mem' = [mem EXCEPT ![u] = k]
      BY <1>5, <3>1, <3>2, Zenon DEF MarkNotValid
    <3>4. mem'[u] = k
      BY <3>3 DEF BaseInv, TypeInv, TypeOK
    <3>5. xpfx'.nv
      BY <1>5, <3>2, <3>4 DEF MarkNotValid, WrXPrefix, XPrefix
    <3>. QED  BY <1>5, <3>5 DEF MarkNotValid, WrXPrefix
  <2>2. NotBuilding' <=> NotBuilding
    <3>1. pc[u] = "marking" /\ pc'[u] = "mounted"
      BY <1>5 DEF MarkNotValid, Goto, BaseInv, TypeInv, TypeOK
    <3>. QED  BY <1>1, <3>1 DEF NotBuilding, OnlyOwn
  <2>3. OpenOf(v)' /\ BuildOf(v)'
    BY <1>2, <1>3, <2>1 DEF UserInv, OpenOf, BuildOf, LiveIn, Entries
  <2>4. KnowsOf(v)'
    BY <1>2, <1>3, <2>1, <2>2 DEF UserInv, KnowsOf, Changing, LiveIn, Entries, Distinct
  <2>5. ChangeOf(v)'
    BY <1>2, <1>3, <2>1 DEF UserInv, ChangeOf, Changing, Others, LiveIn, Entries, Distinct
  <2>. QED  BY <2>3, <2>4, <2>5 DEF UserInv
<1>6. CASE SetEmpty(u) \/ BuildNext(u) \/ IndexBuilt(u)
  <2>1. pc[u] \in {"empty", "build"} /\ mode[u] >= RdMode
    BY <1>6, WorkMode DEF SetEmpty, BuildNext, IndexBuilt
  <2>2. ~Dirty(v) /\ mode[v] < WrMode
    <3>1. ~Dirty(u)
      BY <2>1, UserTypes DEF IndexInv, UserInv, OpenOf, Dirty, Changing
    <3>2. mode[u] + mode[v] <= 8 /\ mode[v] \in 0 .. 8 /\ mode[u] \in 0 .. 8
      BY UserTypes DEF BaseInv, ModeInv, ModesExclude
    <3>. QED  BY <2>1, <3>1, <3>2, BesideReader
  <2>3. pc[v] \notin {"empty", "build"}
    BY <2>1, OneBuilder
  <2>4. dN' = dN /\ rec' = rec
    BY <1>6, NoDoubles DEF SetEmpty, BuildNext, IndexBuilt
  <2>5. xsize = "pages" => xsize' = "pages"
    BY <1>6 DEF SetEmpty, BuildNext, IndexBuilt, WrPages, WrXPrefix
  <2>6. OpenOf(v)'
    BY <1>1, <1>2, <1>3, <2>4, IndexFileStays DEF UserInv, OpenOf
  <2>7. BuildOf(v)' /\ ChangeOf(v)'
    BY <1>2, <2>2, <2>3 DEF BuildOf, ChangeOf, Changing, Dirty
  <2>8. ~mem[v].nv /\ mode[v] >= RdMode /\ NotBuilding' => idx' = Entries(LiveIn(mem[v].n))'
    <3>1. SUFFICES ASSUME ~mem[v].nv, mode[v] >= RdMode, NotBuilding'
                   PROVE  idx' = Entries(LiveIn(mem[v].n))'
      OBVIOUS
    <3>2. IndexBuilt(u)
      <4>1. pc'[u] # "build"
        BY <3>1 DEF NotBuilding
      <4>2. ~SetEmpty(u) /\ ~BuildNext(u)
        BY <4>1 DEF SetEmpty, BuildNext, Goto, BaseInv, TypeInv, TypeOK
      <4>. QED  BY <1>6, <4>2
    <3>3. pc[u] = "build" /\ arg[u].n = mem[u].n + 1
      <4>1. pc[u] = "build" /\ arg[u].n > mem[u].n
        BY <3>2 DEF IndexBuilt
      <4>2. arg[u].n \in 1 .. mem[u].n + 1
        BY <4>1 DEF BaseInv, TypeInv, ArgsOf
      <4>. QED  BY <4>1, <4>2, UserTypes
    <3>4. idx = Entries(LiveIn(mem[u].n))
      <4>1. arg[u].n - 1 = mem[u].n
        BY <3>3, UserTypes
      <4>. QED  BY <3>3, <4>1 DEF IndexInv, UserInv, BuildOf
    <3>5. mem[u].n = dN /\ mem[v].n = dN
      <4>1. CountOf(u) /\ CountOf(v) /\ mode[u] \in 0 .. 8 /\ mode[v] \in 0 .. 8
        BY UserTypes DEF BaseInv, EndInv
      <4>. QED  BY <2>1, <2>2, <3>1, <4>1 DEF CountOf
    <3>6. idx' = idx
      BY <3>2 DEF IndexBuilt
    <3>. QED  BY <1>2, <2>4, <3>4, <3>5, <3>6 DEF Entries, LiveIn
  <2>9. KnowsOf(v)'
    BY <1>2, <1>3, <2>4, <2>5, <2>8 DEF UserInv, KnowsOf, Changing, LiveIn, Distinct, Entries
  <2>. QED  BY <2>6, <2>7, <2>9 DEF UserInv
<1>. QED  BY <1>1, <1>4, <1>5, <1>6, ReaderStep

(***************************************************************************)
(* A step of u and what it relies on itself.                               *)
(***************************************************************************)

(* A step that leaves the files alone, and what u still has to write.      *)
LEMMA DiskSame ==
  ASSUME IndexInv, NEW u \in Users, OnlyOwn(u), disk' = disk, Dirty(u) => Dirty(u)'
  PROVE  DiskInv'
<1>1. dN' = dN /\ rec' = rec /\ xsize' = xsize /\ xpfx' = xpfx /\ idx' = idx
  BY DEF disk
<1>2. (\A v \in Users : ~Dirty(v)') => \A v \in Users : ~Dirty(v)
  BY DEF OnlyOwn, Dirty, Changing
<1>. QED  BY <1>1, <1>2 DEF IndexInv, DiskInv, LiveIn, Entries, Distinct

(* While u has something to write, only the records count.                 *)
LEMMA DiskDirty ==
  ASSUME NEW u \in Users, Dirty(u)', Distinct(LiveIn(dN))'
  PROVE  DiskInv'
BY DEF DiskInv

(* An index that is marked not valid promises nothing.                     *)
LEMMA DiskMarked ==
  ASSUME xpfx'.nv, Distinct(LiveIn(dN))'
  PROVE  DiskInv'
BY DEF DiskInv

(* Places in which nothing is relied on but what a user knows.             *)
LEMMA PlainPlace ==
  ASSUME NEW u \in Users,
         pc'[u] \in {"mounted", "idle", "work", "lock0", "leave"}, xsize' # "empty",
         ~df'[u], KnowsOf(u)'
  PROVE  UserInv(u)'
<1>1. OpenOf(u)'
  BY DEF OpenOf
<1>2. BuildOf(u)' /\ ChangeOf(u)'
  BY DEF BuildOf, ChangeOf, Changing
<1>. QED  BY <1>1, <1>2 DEF UserInv

(* A user who goes on in an operation and has the same to rely on.         *)
LEMMA KnowsSame ==
  ASSUME NEW u \in Users, KnowsOf(u), ~Changing(u), disk' = disk, mode'[u] = mode[u],
         mem'[u] = mem[u], OnlyOwn(u), pc[u] # "build", pc'[u] # "build"
  PROVE  KnowsOf(u)'
<1>1. dN' = dN /\ rec' = rec /\ xsize' = xsize /\ xpfx' = xpfx /\ idx' = idx
  BY DEF disk
<1>2. NotBuilding' <=> NotBuilding
  BY DEF NotBuilding, OnlyOwn
<1>. QED  BY <1>1, <1>2 DEF KnowsOf, Changing, LiveIn, Entries, Distinct

(* Opening.                                                                *)
LEMMA OpenStep ==
  ASSUME GoodDays, BaseInv, IndexInv, NEW u \in Users, OnlyOwn(u),
         OpenF1(u) \/ MarkNotValid(u)
  PROVE  UserInv(u)' /\ DiskInv'
<1>. USE DEF Goto, BaseInv, TypeInv, TypeOK
<1>1. UserInv(u) /\ mode[u] = NullMode /\ mode' = mode /\ df' = df
  BY UserTypes DEF IndexInv, OpenF1, MarkNotValid, PlaceMode
<1>2. ~df[u]
  BY <1>1 DEF UserInv, OpenOf
<1>3. KnowsOf(u)'
  BY <1>1 DEF KnowsOf
<1>4. CASE OpenF1(u)
  <2>1. /\ disk' = disk /\ pc[u] = "closed"
        /\ pc'[u] = IF xsize = "pages" THEN "mounted" ELSE "marking"
    BY <1>4 DEF OpenF1
  <2>2. OpenOf(u)' /\ BuildOf(u)' /\ ChangeOf(u)'
    BY <1>1, <1>2, <2>1 DEF disk, OpenOf, BuildOf, ChangeOf, Changing
  <2>3. DiskInv'
    BY <1>2, <2>1, DiskSame DEF Dirty, Changing
  <2>. QED  BY <1>3, <2>2, <2>3 DEF UserInv
<1>5. CASE MarkNotValid(u)
  <2>1. PICK m \in Memory : m = mem[u]
    OBVIOUS
  <2>2. PICK k : k = NotValid(m) /\ k.nv
    <3>1. NotValid(m).nv
      BY <2>1 DEF NotValid, Memory
    <3>. QED  BY <3>1
  <2>3. mem' = [mem EXCEPT ![u] = k]
    BY <1>5, <2>1, <2>2, Zenon DEF MarkNotValid
  <2>4. xpfx'.nv /\ xsize' # "empty" /\ dN' = dN /\ rec' = rec /\ pc'[u] = "mounted"
    BY <1>5, <2>2, <2>3 DEF MarkNotValid, WrXPrefix, XPrefix
  <2>5. DiskInv'
    BY <2>4, DiskMarked DEF IndexInv, DiskInv, Distinct, LiveIn
  <2>. QED  BY <1>1, <1>2, <1>3, <2>4, <2>5, PlainPlace
<1>. QED  BY <1>4, <1>5

(* The opener reads the prefixes and finds them sound.                     *)
LEMMA CheckStep ==
  ASSUME GoodDays, BaseInv, IndexInv, NEW u \in Users, OnlyOwn(u), OpenF2(u)
  PROVE  UserInv(u)' /\ DiskInv'
<1>1. /\ pc[u] = "mounted" /\ Free(u, RdMode) /\ disk' = disk /\ df' = df
      /\ mode[u] = NullMode /\ xsize # "empty" /\ ~df[u]
  BY UserTypes DEF OpenF2, PlaceMode, IndexInv, UserInv, OpenOf
<1>2. ~Dirty(u) /\ \A v \in Users : ~Dirty(v)
  BY <1>1, BesideReader DEF Dirty, Changing
<1>3. ~Damaged(u)
  <2>1. PICK m \in Memory : m = mem[u]
    BY UserTypes
  <2>2. XRead(u, m).nv = xpfx.nv
    BY <1>1, <2>1 DEF XRead, Memory
  <2>3. ~xpfx.nv => xsize = "pages" /\ xpfx.sig /\ xpfx.abs = dN
    BY <1>1, <1>2 DEF IndexInv, DiskInv
  <2>4. XRead(u, mem[u]).nv = xpfx.nv
    BY <2>1, <2>2, Zenon
  <2>. QED  BY <2>3, <2>4 DEF Damaged
<1>4. mode' = mode /\ pc'[u] = "idle"
  BY <1>3 DEF OpenF2, Goto, BaseInv, TypeInv, TypeOK
<1>5. KnowsOf(u)'
  BY <1>1, <1>4 DEF KnowsOf
<1>6. DiskInv'
  BY <1>1, <1>2, DiskSame
<1>. QED  BY <1>1, <1>4, <1>5, <1>6, PlainPlace DEF disk

(* What a user knows after a change of mode upwards: what he has read, or  *)
(* what he knew.                                                           *)
LEMMA RaiseKnows ==
  ASSUME GoodDays, BaseInv, IndexInv, NEW u \in Users, OnlyOwn(u), pc[u] = "idle",
         NEW m \in LockMode, NewLockMode(u, m), disk' = disk, df' = df,
         pc'[u] \in {"idle", "work"}
  PROVE  UserInv(u)' /\ DiskInv'
<1>1. /\ UserInv(u) /\ mode[u] \in 0 .. 8 /\ m \in 0 .. 8 /\ xsize # "empty" /\ mode[u] = held[u]
      /\ held[u] < WrMode
  BY UserTypes, NamedTypes DEF IndexInv, UserInv, OpenOf, LockMode, PlaceMode, GoodDays,
     BaseInv, TypeInv, TypeOK
<1>2. ~df[u] /\ ~Dirty(u) /\ xsize' # "empty"
  BY <1>1 DEF UserInv, OpenOf, Dirty, Changing, disk
<1>3. dN' = dN /\ rec' = rec /\ xsize' = xsize /\ xpfx' = xpfx /\ idx' = idx
  BY DEF disk
<1>4. NotBuilding' <=> NotBuilding
  BY DEF NotBuilding, OnlyOwn
<1>5. KnowsOf(u)'
  <2>1. CASE mode[u] < m /\ mode[u] < RdMode /\ m >= RdMode
    <3>1. Free(u, RdMode)
      <4>1. SUFFICES ASSUME NEW v \in Users \ {u} PROVE Table!Compatible(mode[v], RdMode)
        BY DEF Free
      <4>2. Free(u, m) /\ mode[v] \in LockMode
        BY <1>1, <2>1 DEF NewLockMode, BaseInv, TypeInv, TypeOK
      <4>3. mode[v] + m <= 8
        BY <4>2, CompatibleSum DEF Free
      <4>4. mode[v] + RdMode <= 8 /\ RdMode \in LockMode
        BY <1>1, <2>1, <4>2, <4>3 DEF LockMode
      <4>. QED  BY <4>2, <4>4, CompatibleSum
    <3>2. \A v \in Users : ~Dirty(v)
      BY <1>2, <3>1, BesideReader
    <3>3. PICK k : k = XRead(u, [mem[u] EXCEPT !.n = dN])
      OBVIOUS
    <3>4. /\ ~k.nv => /\ xsize = "pages" /\ k.nrecs = Cardinality(LiveIn(k.n))
                       /\ idx = Entries(LiveIn(k.n))
          /\ Distinct(LiveIn(k.n))
      BY <1>1, <3>2, <3>3, ReadKnows, Zenon
    <3>5. mem' = [mem EXCEPT ![u] = k]
      <4>1. RdPrefixes(u)
        BY <1>1, <2>1 DEF NewLockMode
      <4>. QED  BY <3>3, <4>1, Zenon DEF RdPrefixes
    <3>6. mem'[u] = k
      BY <3>5 DEF BaseInv, TypeInv, TypeOK
    <3>. QED  BY <1>3, <3>4, <3>6 DEF KnowsOf, LiveIn, Entries, Distinct
  <2>2. CASE ~ (mode[u] < m /\ mode[u] < RdMode /\ m >= RdMode)
    <3>1. mem' = mem /\ (mode'[u] >= RdMode => mode[u] >= RdMode)
      BY <1>1, <2>2 DEF NewLockMode, BaseInv, TypeInv, TypeOK
    <3>. QED  BY <1>1, <1>3, <1>4, <3>1 DEF UserInv, KnowsOf, Changing, LiveIn, Entries, Distinct
  <2>. QED  BY <2>1, <2>2
<1>6. DiskInv'
  BY <1>2, DiskSame
<1>. QED  BY <1>2, <1>5, <1>6, PlainPlace

(* Steps on the way to and from an operation.                              *)
LEMMA WayStep ==
  ASSUME GoodDays, BaseInv, IndexInv, NEW u \in Users, OnlyOwn(u),
         \/ \E op \in Ops : Start(u, op)
         \/ \E m \in HoldModes : Hold(u, m)
         \/ Unhold(u) \/ TestXFExist(u) \/ Find(u) \/ NoSuchRecord(u)
  PROVE  UserInv(u)' /\ DiskInv'
<1>. USE DEF Goto
<1>1. CASE \E op \in Ops : Start(u, op)
  <2>1. PICK op \in Ops : Start(u, op)
    BY <1>1
  <2>2. ModeOf[op] \in LockMode /\ NewLockMode(u, ModeOf[op]) /\ pc[u] = "idle" /\ disk' = disk
        /\ df' = df /\ pc'[u] = "work"
    BY <2>1, NamedTypes DEF Start, BaseInv, TypeInv, TypeOK
  <2>. QED  BY <2>2, RaiseKnows
<1>2. CASE \E m \in HoldModes : Hold(u, m)
  <2>1. PICK m \in HoldModes : Hold(u, m)
    BY <1>2
  <2>2. m \in LockMode /\ NewLockMode(u, m) /\ pc[u] = "idle" /\ disk' = disk
        /\ df' = df /\ pc'[u] = "idle"
    BY <2>1, NamedTypes DEF Hold
  <2>. QED  BY <2>2, RaiseKnows
<1>3. CASE Unhold(u) \/ TestXFExist(u) \/ Find(u) \/ NoSuchRecord(u)
  <2>1. pc[u] \in {"idle", "work"} /\ pc'[u] \in {"leave", "lock0"} /\ disk' = disk /\ mem' = mem
        /\ mode' = mode /\ df' = df
    <3>1. CASE Unhold(u)
      BY <3>1 DEF Unhold, BaseInv, TypeInv, TypeOK
    <3>2. CASE TestXFExist(u)
      BY <3>2 DEF TestXFExist, BaseInv, TypeInv, TypeOK
    <3>3. CASE Find(u)
      BY <3>3 DEF Find, Ready, BaseInv, TypeInv, TypeOK
    <3>4. CASE NoSuchRecord(u)
      <4>1. pc[u] = "work" /\ pc' = [pc EXCEPT ![u] = "leave"] /\ disk' = disk /\ mem' = mem
            /\ mode' = mode /\ df' = df
        BY <3>4 DEF NoSuchRecord
      <4>. QED  BY <4>1 DEF BaseInv, TypeInv, TypeOK
    <3>. QED  BY <1>3, <3>1, <3>2, <3>3, <3>4
  <2>2. xsize' # "empty" /\ ~df[u]
    BY <2>1 DEF IndexInv, UserInv, OpenOf, disk
  <2>3. ~Changing(u) /\ ~Dirty(u)
    BY <2>1, <2>2 DEF Dirty, Changing
  <2>4. KnowsOf(u)'
    BY <2>1, <2>3, KnowsSame DEF IndexInv, UserInv
  <2>5. DiskInv'
    BY <2>1, <2>3, DiskSame
  <2>. QED  BY <2>1, <2>2, <2>4, <2>5, PlainPlace
<1>. QED  BY <1>1, <1>2, <1>3

(* Record lock 0, and the second look at the index prefix.                 *)
LEMMA LockStep ==
  ASSUME GoodDays, BaseInv, IndexInv, NEW u \in Users, OnlyOwn(u), LockForIndex(u)
  PROVE  UserInv(u)' /\ DiskInv'
<1>1. /\ pc[u] = "lock0" /\ mode[u] >= RdMode /\ mode' = mode /\ df' = df /\ disk' = disk
      /\ xsize # "empty" /\ ~df[u] /\ mem[u].n = dN
  BY WorkMode DEF LockForIndex, IndexInv, UserInv, OpenOf, BaseInv, EndInv, EndOf
<1>2. ~Dirty(u) /\ \A v \in Users : ~Dirty(v)
  BY <1>1, BesideReader DEF Dirty, Changing
<1>3. PICK m \in Memory : m = mem[u]
  BY UserTypes
<1>4. PICK k : k = XRead(u, m) /\ k.n = dN /\ k.nv = xpfx.nv /\ k.nrecs = xpfx.nrecs
  <2>1. m.n = dN
    BY <1>1, <1>3
  <2>2. LET l == [m EXCEPT !.nv = xpfx.nv, !.nrecs = xpfx.nrecs] IN
        l.n = m.n /\ l.nv = xpfx.nv /\ l.nrecs = xpfx.nrecs
    BY DEF Memory
  <2>. QED  BY <1>1, <2>1, <2>2, Zenon DEF XRead
<1>5. mem' = [mem EXCEPT ![u] = k]
  BY <1>3, <1>4, Zenon DEF LockForIndex
<1>6. mem'[u] = k /\ pc'[u] = IF k.nv THEN "empty" ELSE "work"
  BY <1>5 DEF LockForIndex, Goto, BaseInv, TypeInv, TypeOK
<1>7. dN' = dN /\ rec' = rec /\ xsize' = xsize /\ xpfx' = xpfx /\ idx' = idx
  BY <1>1 DEF disk
<1>8. KnowsOf(u)'
  <2>1. /\ ~xpfx.nv => /\ xsize = "pages" /\ idx = Entries(LiveIn(dN))
                       /\ xpfx.nrecs = Cardinality(LiveIn(dN))
        /\ Distinct(LiveIn(dN))
    BY <1>1, <1>2 DEF IndexInv, DiskInv
  <2>. QED  BY <1>4, <1>6, <1>7, <2>1 DEF KnowsOf, LiveIn, Entries, Distinct
<1>9. DiskInv'
  BY <1>1, <1>2, DiskSame
<1>10. CASE k.nv
  BY <1>1, <1>4, <1>6, <1>7, <1>8, <1>9, <1>10 DEF UserInv, OpenOf, BuildOf, ChangeOf, Changing
<1>11. CASE ~k.nv
  BY <1>1, <1>6, <1>7, <1>8, <1>9, <1>11, PlainPlace
<1>. QED  BY <1>10, <1>11

(* The builder empties the index.                                          *)
LEMMA EmptyStep ==
  ASSUME GoodDays, BaseInv, IndexInv, NEW u \in Users, SetEmpty(u)
  PROVE  UserInv(u)' /\ DiskInv'
<1>1. pc[u] = "empty" /\ xpfx.nv /\ mem[u].nv /\ mode[u] >= RdMode /\ ~df[u]
  BY WorkMode DEF SetEmpty, IndexInv, UserInv, OpenOf, BuildOf
<1>2. /\ mode' = mode /\ df' = df /\ dN' = dN /\ rec' = rec /\ idx' = {} /\ xsize' = "pages"
      /\ pc'[u] = "build" /\ xpfx' = XPrefix(mem'[u])
  BY DEF SetEmpty, WrPages, Goto, BaseInv, TypeInv, TypeOK
<1>3. 0 \in Counts /\ 1 \in 0 .. MaxRecs + 1
  BY SharedFileAssumption DEF Counts
<1>4. /\ mem' = [mem EXCEPT ![u] = [mem[u] EXCEPT !.nrecs = 0]]
      /\ arg' = [arg EXCEPT ![u] = [arg[u] EXCEPT !.n = 1]]
  BY DEF SetEmpty
<1>5. mem'[u].n = mem[u].n /\ mem'[u].nrecs = 0 /\ mem'[u].nv
  BY <1>1, <1>3, <1>4, SetCount DEF BaseInv, TypeInv, TypeOK
<1>6. arg'[u].n = 1
  BY <1>3, <1>4, SetArg DEF BaseInv, TypeInv, TypeOK
<1>7. xpfx'.nv
  BY <1>2, <1>5 DEF XPrefix
<1>8. Distinct(LiveIn(mem[u].n)) /\ Distinct(LiveIn(dN))
  BY <1>1 DEF IndexInv, UserInv, KnowsOf, DiskInv
<1>9. OpenOf(u)' /\ ChangeOf(u)'
  BY <1>1, <1>2 DEF OpenOf, ChangeOf, Changing
<1>10. BuildOf(u)'
  <2>1. arg'[u].n - 1 = 0
    BY <1>6
  <2>. QED  BY <1>2, <1>5, <1>7, <2>1, LiveZero DEF BuildOf, LiveIn, Entries
<1>11. KnowsOf(u)'
  BY <1>2, <1>5, <1>8 DEF KnowsOf, LiveIn, Distinct
<1>12. DiskInv'
  BY <1>2, <1>7, <1>8, DiskMarked DEF LiveIn, Distinct
<1>. QED  BY <1>9, <1>10, <1>11, <1>12 DEF UserInv

(* The builder takes the next record.                                      *)
LEMMA NextStep ==
  ASSUME GoodDays, BaseInv, IndexInv, NEW u \in Users, BuildNext(u)
  PROVE  UserInv(u)' /\ DiskInv'
<1>. DEFINE n == arg[u].n
<1>1. /\ pc[u] = "build" /\ xpfx.nv /\ mem[u].nv /\ mode[u] >= RdMode /\ ~df[u] /\ xsize = "pages"
      /\ idx = Entries(LiveIn(n - 1)) /\ mem[u].nrecs = Cardinality(LiveIn(n - 1))
  BY WorkMode DEF BuildNext, IndexInv, UserInv, OpenOf, BuildOf
<1>2. /\ n \in 1 .. mem[u].n /\ n \in Nat \ {0} /\ n + 1 \in 0 .. MaxRecs + 1
      /\ rec[n] # Deleted => \A i \in 1 .. n - 1 : rec[i] # rec[n]
  BY NoDoubles
<1>3. /\ mode' = mode /\ df' = df /\ dN' = dN /\ rec' = rec /\ xsize' = "pages" /\ xpfx' = xpfx
      /\ pc' = pc
      /\ rec[n] = Deleted => mem' = mem /\ idx' = idx
      /\ rec[n] # Deleted =>
           /\ mem' = [mem EXCEPT ![u] = [mem[u] EXCEPT !.nrecs = mem[u].nrecs + 1]]
           /\ idx' = idx \cup {<<rec[n], n>>}
  BY <1>1, <1>2 DEF BuildNext, WrPages
<1>4. arg'[u].n = n + 1
  <2>1. arg' = [arg EXCEPT ![u] = [arg[u] EXCEPT !.n = n + 1]]
    BY DEF BuildNext
  <2>. QED  BY <1>2, <2>1, SetArg DEF BaseInv, TypeInv, TypeOK
<1>5. /\ mem'[u].n = mem[u].n /\ mem'[u].nv
      /\ mem'[u].nrecs = IF rec[n] = Deleted THEN mem[u].nrecs ELSE mem[u].nrecs + 1
  <2>1. CASE rec[n] = Deleted
    BY <1>1, <1>3, <2>1
  <2>2. CASE rec[n] # Deleted
    <3>1. mem[u].nrecs + 1 \in Counts
      <4>1. mem[u].nrecs \in 0 .. n - 1
        BY <1>1 DEF BaseInv, TypeInv, ArgsOf
      <4>. QED  BY <1>2, <4>1, UserTypes DEF Counts
    <3>. QED  BY <1>1, <1>3, <2>2, <3>1, SetCount DEF BaseInv, TypeInv, TypeOK
  <2>. QED  BY <2>1, <2>2
<1>6. idx' = Entries(LiveIn(n)) /\ mem'[u].nrecs = Cardinality(LiveIn(n))
  BY <1>1, <1>2, <1>3, <1>5, LiveNext
<1>7. Distinct(LiveIn(mem[u].n)) /\ Distinct(LiveIn(dN))
  BY <1>1 DEF IndexInv, UserInv, KnowsOf, DiskInv
<1>8. OpenOf(u)' /\ ChangeOf(u)'
  BY <1>1, <1>3 DEF OpenOf, ChangeOf, Changing
<1>9. BuildOf(u)'
  <2>1. arg'[u].n - 1 = n
    BY <1>2, <1>4
  <2>. QED  BY <1>1, <1>3, <1>5, <1>6, <2>1 DEF BuildOf, LiveIn, Entries
<1>10. KnowsOf(u)'
  BY <1>1, <1>3, <1>5, <1>7 DEF KnowsOf, LiveIn, Distinct
<1>11. DiskInv'
  BY <1>1, <1>3, <1>7, DiskMarked DEF LiveIn, Distinct
<1>. QED  BY <1>8, <1>9, <1>10, <1>11 DEF UserInv

(* The index becomes valid.                                                *)
LEMMA BuiltStep ==
  ASSUME GoodDays, BaseInv, IndexInv, NEW u \in Users, IndexBuilt(u)
  PROVE  UserInv(u)' /\ DiskInv'
<1>1. /\ pc[u] = "build" /\ mode[u] >= RdMode /\ ~df[u] /\ xsize = "pages" /\ mem[u].n = dN
      /\ idx = Entries(LiveIn(arg[u].n - 1)) /\ mem[u].nrecs = Cardinality(LiveIn(arg[u].n - 1))
  BY WorkMode DEF IndexBuilt, IndexInv, UserInv, OpenOf, BuildOf, BaseInv, EndInv, EndOf
<1>2. arg[u].n - 1 = dN
  <2>1. arg[u].n \in 1 .. mem[u].n + 1 /\ arg[u].n > mem[u].n
    BY <1>1 DEF BaseInv, TypeInv, ArgsOf, IndexBuilt
  <2>. QED  BY <1>1, <2>1, UserTypes
<1>3. /\ mode' = mode /\ df' = df /\ dN' = dN /\ rec' = rec /\ idx' = idx
      /\ xsize' = "pages" /\ xpfx' = XPrefix(mem'[u]) /\ pc'[u] = "work"
  BY <1>1 DEF IndexBuilt, WrXPrefix, Goto, BaseInv, TypeInv, TypeOK
<1>4. mem'[u].n = mem[u].n /\ mem'[u].nrecs = mem[u].nrecs /\ ~mem'[u].nv
  <2>1. mem' = [mem EXCEPT ![u] = [mem[u] EXCEPT !.nv = FALSE]]
    BY DEF IndexBuilt
  <2>. QED  BY <2>1, SetValid DEF BaseInv, TypeInv, TypeOK
<1>5. xpfx'.sig /\ xpfx'.abs = dN /\ xpfx'.nrecs = mem[u].nrecs
  BY <1>1, <1>3, <1>4 DEF XPrefix
<1>6. Distinct(LiveIn(dN))
  BY DEF IndexInv, DiskInv
<1>7. KnowsOf(u)'
  BY <1>1, <1>2, <1>3, <1>4, <1>6 DEF KnowsOf, LiveIn, Entries, Distinct
<1>8. DiskInv'
  BY <1>1, <1>2, <1>3, <1>5, <1>6 DEF DiskInv, LiveIn, Entries, Distinct
<1>. QED  BY <1>1, <1>3, <1>7, <1>8, PlainPlace

(* What a writer knows before he changes anything.                         *)
LEMMA WriterKnows ==
  ASSUME BaseInv, IndexInv, NEW u \in Users, pc[u] = "work", mode[u] >= WrMode, ~mem[u].nv
  PROVE  /\ mem[u].n = dN /\ mem[u].n \in 0 .. MaxRecs /\ xsize = "pages" /\ ~df[u]
         /\ mem[u].nrecs = Cardinality(LiveIn(mem[u].n))
         /\ idx = Entries(LiveIn(mem[u].n)) /\ Distinct(LiveIn(mem[u].n))
<1>1. NotBuilding
  <2>. SUFFICES ASSUME NEW v \in Users PROVE pc[v] # "build"
    BY DEF NotBuilding
  <2>1. CASE v = u
    BY <2>1
  <2>2. CASE v # u
    BY <2>2, BesideWriter
  <2>. QED  BY <2>1, <2>2
<1>2. mem[u].n = dN /\ mode[u] >= RdMode /\ ~df[u] /\ ~Changing(u)
  BY UserTypes DEF BaseInv, EndInv, EndOf, IndexInv, UserInv, OpenOf, Changing
<1>. QED  BY <1>1, <1>2, UserTypes DEF IndexInv, UserInv, KnowsOf

(* An operation that has begun to write.                                   *)
LEMMA Begun ==
  ASSUME NEW u \in Users,
         pc'[u] \in {"insert", "write", "mark"}, xsize' = "pages", mode'[u] >= WrMode,
         ~mem'[u].nv, arg'[u].n \in 1 .. mem'[u].n, dN' <= mem'[u].n,
         Distinct(Others(u))', mem'[u].nrecs = Cardinality(Others(u)') + 1,
         pc'[u] \in {"insert", "mark"} => idx' = Entries(Others(u))',
         pc'[u] = "write" => /\ idx' = Entries(Others(u))' \cup {<<arg'[u].k, arg'[u].n>>}
                             /\ \A n \in Others(u)' : rec'[n] # arg'[u].k,
         pc'[u] = "mark" => /\ rec'[arg'[u].n] # Deleted /\ ~df'[u]
                            /\ Distinct(LiveIn(mem[u].n))',
         Distinct(LiveIn(dN))'
  PROVE  UserInv(u)' /\ DiskInv'
<1>1. OpenOf(u)'
  BY DEF OpenOf
<1>2. BuildOf(u)' /\ ChangeOf(u)'
  BY DEF BuildOf, ChangeOf, Changing
<1>3. KnowsOf(u)'
  BY DEF KnowsOf, Changing
<1>4. DiskInv'
  BY DiskDirty DEF Dirty, Changing
<1>. QED  BY <1>1, <1>2, <1>3, <1>4 DEF UserInv

(* What an append does to the counts and to the argument.                  *)
LEMMA AppendArg ==
  ASSUME BaseInv, NEW u \in Users, NEW k \in Keys, Append(u, k)
  PROVE  /\ mem'[u].n = mem[u].n + 1 /\ mem'[u].nrecs = mem[u].nrecs + 1
         /\ mem'[u].nv = mem[u].nv
         /\ arg'[u].n = mem[u].n + 1 /\ arg'[u].op = arg[u].op
<1>1. /\ mem[u].n + 1 \in 0 .. MaxRecs /\ mem[u].n + 1 \in 0 .. MaxRecs + 1
      /\ mem[u].nrecs + 1 \in Counts
  BY UserTypes DEF Append, Counts
<1>2. mem'[u].n = mem[u].n + 1 /\ mem'[u].nrecs = mem[u].nrecs + 1 /\ mem'[u].nv = mem[u].nv
  <2>1. mem' = [mem EXCEPT ![u] = [mem[u] EXCEPT !.n = mem[u].n + 1, !.nrecs = mem[u].nrecs + 1]]
    BY DEF Append
  <2>. QED  BY <1>1, <2>1, SetCounts DEF BaseInv, TypeInv, TypeOK
<1>3. arg'[u].n = mem[u].n + 1 /\ arg'[u].op = arg[u].op
  <2>1. arg' = [arg EXCEPT ![u] = [arg[u] EXCEPT !.n = mem[u].n + 1, !.k = k]]
    BY <1>2 DEF Append
  <2>. QED  BY <1>1, <2>1, SetArgs DEF BaseInv, TypeInv, TypeOK
<1>. QED  BY <1>2, <1>3

(* A new record.                                                           *)
LEMMA AppendStep ==
  ASSUME GoodDays, BaseInv, IndexInv, NEW u \in Users, NEW k \in Keys, Append(u, k)
  PROVE  UserInv(u)' /\ DiskInv'
<1>1. pc[u] = "work" /\ mode[u] >= WrMode /\ ~mem[u].nv
  BY UserTypes DEF Append, Ready, PlaceMode, ModeOf
<1>2. /\ mem[u].n = dN /\ mem[u].n \in 0 .. MaxRecs /\ xsize = "pages" /\ ~df[u]
      /\ mem[u].nrecs = Cardinality(LiveIn(mem[u].n))
      /\ idx = Entries(LiveIn(mem[u].n)) /\ Distinct(LiveIn(mem[u].n))
  BY <1>1, WriterKnows
<1>3. /\ mem'[u].n = mem[u].n + 1 /\ mem'[u].nrecs = mem[u].nrecs + 1 /\ ~mem'[u].nv
      /\ arg'[u].n = mem[u].n + 1
  BY <1>1, AppendArg
<1>4. pc'[u] = "insert" /\ mode' = mode /\ disk' = disk
  BY DEF Append, Goto, BaseInv, TypeInv, TypeOK
<1>5. dN' = dN /\ rec' = rec /\ xsize' = xsize /\ idx' = idx
  BY <1>4 DEF disk
<1>6. Others(u)' = LiveIn(mem[u].n)
  BY <1>2, <1>3, <1>5 DEF Others, LiveIn
<1>7. PICK S : S = LiveIn(mem[u].n)
  OBVIOUS
<1>8. /\ Others(u)' = S /\ Distinct(S) /\ idx = Entries(S) /\ mem[u].nrecs = Cardinality(S)
       /\ LiveIn(dN)' = S
  BY <1>2, <1>5, <1>6, <1>7 DEF LiveIn
<1>9. Distinct(Others(u))' /\ idx' = Entries(Others(u))' /\ Distinct(LiveIn(dN))'
  BY <1>5, <1>8 DEF Distinct, Entries
<1>. QED
  BY <1>1, <1>2, <1>3, <1>4, <1>5, <1>8, <1>9, Begun

(* A deleted record is used again.                                         *)
LEMMA RecallStep ==
  ASSUME GoodDays, BaseInv, IndexInv, NEW u \in Users, NEW n \in Slots, NEW k \in Keys,
         Recall(u, n, k)
  PROVE  UserInv(u)' /\ DiskInv'
<1>1. pc[u] = "work" /\ mode[u] >= WrMode /\ ~mem[u].nv
  BY UserTypes DEF Recall, Ready, PlaceMode, ModeOf
<1>2. /\ mem[u].n = dN /\ mem[u].n \in 0 .. MaxRecs /\ xsize = "pages" /\ ~df[u]
      /\ mem[u].nrecs = Cardinality(LiveIn(mem[u].n))
      /\ idx = Entries(LiveIn(mem[u].n)) /\ Distinct(LiveIn(mem[u].n))
  BY <1>1, WriterKnows
<1>3. /\ n \in 1 .. mem[u].n /\ rec[n] = Deleted /\ n \in 0 .. MaxRecs + 1
      /\ mem[u].nrecs + 1 \in Counts
  BY UserTypes DEF Recall, Slots, Counts
<1>4. /\ mem'[u].n = mem[u].n /\ mem'[u].nrecs = mem[u].nrecs + 1 /\ ~mem'[u].nv
  <2>1. mem' = [mem EXCEPT ![u] = [mem[u] EXCEPT !.nrecs = mem[u].nrecs + 1]]
    BY DEF Recall
  <2>. QED  BY <1>1, <1>3, <2>1, SetCount DEF BaseInv, TypeInv, TypeOK
<1>5. arg'[u].n = n
  <2>1. arg' = [arg EXCEPT ![u] = [arg[u] EXCEPT !.n = n, !.k = k]]
    BY DEF Recall
  <2>. QED  BY <1>3, <2>1, SetArgs DEF BaseInv, TypeInv, TypeOK
<1>6. pc'[u] = "insert" /\ mode' = mode /\ disk' = disk
  BY DEF Recall, Goto, BaseInv, TypeInv, TypeOK
<1>7. dN' = dN /\ rec' = rec /\ xsize' = xsize /\ idx' = idx
  BY <1>6 DEF disk
<1>8. Others(u)' = LiveIn(mem[u].n)
  BY <1>3, <1>4, <1>5, <1>7 DEF Others, LiveIn
<1>9. PICK S : S = LiveIn(mem[u].n)
  OBVIOUS
<1>10. /\ Others(u)' = S /\ Distinct(S) /\ idx = Entries(S) /\ mem[u].nrecs = Cardinality(S)
       /\ LiveIn(dN)' = S
  BY <1>2, <1>7, <1>8, <1>9 DEF LiveIn
<1>11. Distinct(Others(u))' /\ idx' = Entries(Others(u))' /\ Distinct(LiveIn(dN))'
  BY <1>7, <1>10 DEF Distinct, Entries
<1>. QED
  BY <1>1, <1>2, <1>3, <1>4, <1>5, <1>6, <1>7, <1>10, <1>11, Begun

(* A record is taken out of the index before it changes.                   *)
LEMMA RekeyStep ==
  ASSUME GoodDays, BaseInv, IndexInv, NEW u \in Users, NEW n \in Slots, NEW k \in Keys,
         Rekey(u, n, k)
  PROVE  UserInv(u)' /\ DiskInv'
<1>1. pc[u] = "work" /\ mode[u] >= WrMode /\ ~mem[u].nv
  BY UserTypes DEF Rekey, Ready, PlaceMode, ModeOf
<1>2. /\ mem[u].n = dN /\ mem[u].n \in 0 .. MaxRecs /\ xsize = "pages" /\ ~df[u]
      /\ mem[u].nrecs = Cardinality(LiveIn(mem[u].n))
      /\ idx = Entries(LiveIn(mem[u].n)) /\ Distinct(LiveIn(mem[u].n))
  BY <1>1, WriterKnows
<1>3. n \in 1 .. mem[u].n /\ rec[n] # Deleted /\ n \in 0 .. MaxRecs + 1 /\ n \in LiveIn(mem[u].n)
  BY UserTypes DEF Rekey, Slots, LiveIn
<1>4. arg'[u].n = n /\ arg'[u].k = k
  <2>1. arg' = [arg EXCEPT ![u] = [arg[u] EXCEPT !.n = n, !.k = k]]
    BY DEF Rekey
  <2>. QED  BY <1>3, <2>1, SetArgs DEF BaseInv, TypeInv, TypeOK
<1>5. /\ mode' = mode /\ mem' = mem /\ dN' = dN /\ rec' = rec /\ xsize' = "pages"
      /\ \/ pc'[u] = "write" /\ rec[n] = k /\ idx' = idx
         \/ pc'[u] = "insert" /\ idx' = idx \ {<<rec[n], n>>}
  BY <1>2 DEF Rekey, WrPages, Goto, BaseInv, TypeInv, TypeOK
<1>6. PICK S : S = {i \in LiveIn(mem[u].n) : i # n}
  OBVIOUS
<1>7. Others(u)' = S
  BY <1>4, <1>5, <1>6 DEF Others, LiveIn
<1>8. /\ Cardinality(LiveIn(mem[u].n)) = Cardinality(S) + 1
      /\ Entries(LiveIn(mem[u].n)) = Entries(S) \cup {<<rec[n], n>>}
      /\ Entries(LiveIn(mem[u].n)) \ {<<rec[n], n>>} = Entries(S)
  BY <1>2, <1>3, <1>6, LiveWithout
<1>9. Distinct(S) /\ \A i \in S : rec[i] # rec[n]
  BY <1>2, <1>3, <1>6 DEF Distinct
<1>. QED
  BY <1>1, <1>2, <1>3, <1>4, <1>5, <1>7, <1>8, <1>9, Begun DEF Distinct, Entries, LiveIn

(* A record is taken out of the index before it is marked.                 *)
LEMMA DeleteStep ==
  ASSUME GoodDays, BaseInv, IndexInv, NEW u \in Users, NEW n \in Slots, DeleteRec(u, n)
  PROVE  UserInv(u)' /\ DiskInv'
<1>1. pc[u] = "work" /\ mode[u] >= WrMode /\ ~mem[u].nv /\ \E k \in Keys : <<k, n>> \in idx
  BY UserTypes DEF DeleteRec, Ready, PlaceMode, ModeOf, IndexInv, NoDelete
<1>2. /\ mem[u].n = dN /\ mem[u].n \in 0 .. MaxRecs /\ xsize = "pages" /\ ~df[u]
      /\ mem[u].nrecs = Cardinality(LiveIn(mem[u].n))
      /\ idx = Entries(LiveIn(mem[u].n)) /\ Distinct(LiveIn(mem[u].n))
  BY <1>1, WriterKnows
<1>3. n \in LiveIn(mem[u].n)
  BY <1>1, <1>2 DEF Entries
<1>4. n \in 1 .. mem[u].n /\ rec[n] # Deleted /\ n \in 0 .. MaxRecs + 1
  BY <1>2, <1>3, UserTypes DEF LiveIn
<1>5. arg'[u].n = n
  <2>1. arg' = [arg EXCEPT ![u] = [arg[u] EXCEPT !.n = n]]
    BY DEF DeleteRec
  <2>. QED  BY <1>4, <2>1, SetArg DEF BaseInv, TypeInv, TypeOK
<1>6. /\ mode' = mode /\ mem' = mem /\ df' = df /\ dN' = dN /\ rec' = rec /\ xsize' = "pages"
      /\ pc'[u] = "mark" /\ idx' = idx \ {<<rec[n], n>>}
  BY DEF DeleteRec, WrPages, Goto, BaseInv, TypeInv, TypeOK
<1>7. PICK S : S = {i \in LiveIn(mem[u].n) : i # n}
  OBVIOUS
<1>8. Others(u)' = S
  BY <1>5, <1>6, <1>7 DEF Others, LiveIn
<1>9. /\ Cardinality(LiveIn(mem[u].n)) = Cardinality(S) + 1
      /\ Entries(LiveIn(mem[u].n)) \ {<<rec[n], n>>} = Entries(S)
  BY <1>2, <1>3, <1>7, LiveWithout
<1>10. Distinct(S)
  BY <1>2, <1>7 DEF Distinct
<1>. QED
  BY <1>1, <1>2, <1>4, <1>5, <1>6, <1>8, <1>9, <1>10, Begun DEF Distinct, Entries, LiveIn

(* What holds while an operation writes.                                   *)
LEMMA Changed ==
  ASSUME BaseInv, IndexInv, NEW u \in Users, Changing(u)
  PROVE  /\ mode[u] >= WrMode /\ mem[u].n \in 0 .. MaxRecs /\ arg[u].n \in 1 .. mem[u].n
         /\ arg[u].n \in Slots /\ ~mem[u].nv /\ xsize = "pages" /\ dN \in 0 .. mem[u].n
         /\ Distinct(Others(u)) /\ mem[u].nrecs = Cardinality(Others(u)) + 1
         /\ IsFiniteSet(Others(u)) /\ Others(u) \subseteq 1 .. mem[u].n
<1>1. /\ mode[u] >= WrMode /\ mem[u].n \in 0 .. MaxRecs /\ mode[u] >= RdMode
      /\ dN \in 0 .. MaxRecs /\ MaxRecs \in Nat
  BY UserTypes DEF Changing, PlaceMode
<1>2. IsFiniteSet(LiveIn(mem[u].n)) /\ LiveIn(mem[u].n) \subseteq 1 .. mem[u].n
  BY <1>1, LiveFinite
<1>3. Others(u) \subseteq LiveIn(mem[u].n)
  BY DEF Others
<1>4. IsFiniteSet(Others(u)) /\ Others(u) \subseteq 1 .. mem[u].n
  BY <1>2, <1>3, FS_Subset
<1>5. ChangeOf(u) /\ KnowsOf(u)
  BY DEF IndexInv, UserInv
<1>. QED  BY <1>1, <1>4, <1>5 DEF ChangeOf, KnowsOf, Slots

(* The key that is in the index already: the program ends.                 *)
LEMMA FailStep ==
  ASSUME GoodDays, BaseInv, IndexInv, NEW u \in Users, InsertFails(u)
  PROVE  UserInv(u)' /\ DiskInv'
<1>1. /\ mode'[u] = NullMode /\ ~df'[u] /\ pc'[u] = "closed"
      /\ dN' = dN /\ rec' = rec /\ xpfx' = XPrefix(NotValid(mem[u]))
  BY DEF InsertFails, Gone, WrXPrefix, Goto, BaseInv, TypeInv, TypeOK
<1>2. xpfx'.nv
  <2>1. PICK m \in Memory : m = mem[u]
    BY UserTypes
  <2>2. XPrefix(NotValid(m)).nv
    <3>1. PICK k : k = NotValid(m) /\ k.nv
      <4>1. NotValid(m).nv
        BY DEF NotValid, Memory
      <4>. QED  BY <4>1
    <3>2. XPrefix(k).nv
      BY <3>1 DEF XPrefix
    <3>. QED  BY <3>1, <3>2, Zenon
  <2>. QED  BY <1>1, <2>1, <2>2, Zenon
<1>3. DiskInv'
  BY <1>1, <1>2, DiskMarked DEF IndexInv, DiskInv, LiveIn, Distinct
<1>. QED  BY <1>1, <1>3 DEF UserInv, OpenOf, BuildOf, KnowsOf, ChangeOf, Changing

(* The entry of the record is inserted.                                    *)
LEMMA InsertStep ==
  ASSUME GoodDays, BaseInv, IndexInv, NEW u \in Users, Insert(u)
  PROVE  UserInv(u)' /\ DiskInv'
<1>. DEFINE n == arg[u].n
            k == arg[u].k
<1>1. pc[u] = "insert" /\ ~InIndex(k) /\ Changing(u)
  BY DEF Insert, Changing
<1>2. /\ mode[u] >= WrMode /\ mem[u].n \in 0 .. MaxRecs /\ n \in 1 .. mem[u].n
      /\ ~mem[u].nv /\ dN \in 0 .. mem[u].n
      /\ Distinct(Others(u)) /\ mem[u].nrecs = Cardinality(Others(u)) + 1
      /\ Others(u) \subseteq 1 .. mem[u].n
  BY <1>1, Changed
<1>3. idx = Entries(Others(u))
  BY <1>1 DEF IndexInv, UserInv, ChangeOf
<1>4. /\ mode' = mode /\ mem' = mem /\ arg' = arg /\ dN' = dN /\ rec' = rec /\ xsize' = "pages"
      /\ pc'[u] = "write" /\ idx' = idx \cup {<<k, n>>}
  BY DEF Insert, WrPages, Goto, BaseInv, TypeInv, TypeOK
<1>5. \A i \in Others(u) : rec[i] # k
  <2>. SUFFICES ASSUME NEW i \in Others(u), rec[i] = k PROVE FALSE
    OBVIOUS
  <2>1. <<k, i>> \in idx /\ i \in Slots
    BY <1>2, <1>3, UserTypes DEF Entries, Slots
  <2>. QED  BY <1>1, <2>1 DEF InIndex
<1>6. PICK S : S = Others(u)
  OBVIOUS
<1>7. Others(u)' = S
  BY <1>4, <1>6 DEF Others, LiveIn
<1>8. Distinct(Others(u))' /\ Entries(Others(u))' = Entries(S)
  BY <1>2, <1>4, <1>6, <1>7 DEF Distinct, Entries
<1>9. Distinct(LiveIn(dN))'
  BY <1>4 DEF IndexInv, DiskInv, LiveIn, Distinct
<1>. QED  BY <1>2, <1>3, <1>4, <1>5, <1>6, <1>7, <1>8, <1>9, Begun

(* The record is written.                                                  *)
LEMMA WriteStep ==
  ASSUME GoodDays, BaseInv, IndexInv, NEW u \in Users, WriteRec(u)
  PROVE  UserInv(u)' /\ DiskInv'
<1>. DEFINE n == arg[u].n
            k == arg[u].k
<1>1. pc[u] = "write" /\ Changing(u)
  BY DEF WriteRec, Changing
<1>2. /\ mode[u] >= WrMode /\ mem[u].n \in 0 .. MaxRecs /\ n \in 1 .. mem[u].n /\ n \in Slots
      /\ ~mem[u].nv /\ xsize = "pages" /\ dN \in 0 .. mem[u].n
      /\ Distinct(Others(u)) /\ mem[u].nrecs = Cardinality(Others(u)) + 1
      /\ IsFiniteSet(Others(u))
  BY <1>1, Changed
<1>3. /\ idx = Entries(Others(u)) \cup {<<k, n>>} /\ \A i \in Others(u) : rec[i] # k
      /\ k # Deleted
  BY <1>1, SharedFileAssumption DEF IndexInv, UserInv, ChangeOf, BaseInv, TypeInv, ArgsOf
<1>4. /\ mode' = mode /\ mem' = mem /\ dN' = dN /\ rec' = [rec EXCEPT ![n] = k] /\ xsize' = xsize
      /\ idx' = idx /\ pc'[u] = "leave" /\ df'[u]
  BY DEF WriteRec, Goto, BaseInv, TypeInv, TypeOK
<1>5. /\ rec'[n] = k /\ \A i : i # n /\ i \in Slots => rec'[i] = rec[i]
  BY <1>2, <1>4 DEF BaseInv, TypeInv, TypeOK
<1>6. 1 .. mem[u].n \subseteq Slots
  BY UserTypes DEF Slots
<1>7. PICK S : S = Others(u)
  OBVIOUS
<1>8. S \subseteq 1 .. mem[u].n /\ n \notin S /\ \A i \in S : rec'[i] = rec[i] /\ rec[i] # k
  BY <1>3, <1>5, <1>6, <1>7 DEF Others, LiveIn
<1>9. LiveIn(mem[u].n)' = S \cup {n}
  BY <1>2, <1>3, <1>4, <1>5, <1>6, <1>7 DEF Others, LiveIn
<1>10. Cardinality(S \cup {n}) = Cardinality(S) + 1
  BY <1>2, <1>7, <1>8, FS_AddElement
<1>11. Distinct(LiveIn(mem[u].n))'
  BY <1>2, <1>5, <1>7, <1>8, <1>9 DEF Distinct
<1>12. Entries(LiveIn(mem[u].n))' = idx
  BY <1>3, <1>5, <1>7, <1>8, <1>9 DEF Entries
<1>13. KnowsOf(u)'
  BY <1>2, <1>4, <1>7, <1>9, <1>10, <1>11, <1>12 DEF KnowsOf
<1>14. Distinct(LiveIn(dN))'
  <2>1. \A i \in LiveIn(dN)' : i \in LiveIn(mem[u].n)'
    BY <1>2, <1>4 DEF LiveIn
  <2>. QED  BY <1>11, <2>1 DEF Distinct
<1>15. DiskInv'
  BY <1>4, <1>14, DiskDirty DEF Dirty
<1>. QED  BY <1>2, <1>4, <1>13, <1>15 DEF UserInv, OpenOf, BuildOf, ChangeOf, Changing

(* The record is marked as deleted.                                        *)
LEMMA MarkStep ==
  ASSUME GoodDays, BaseInv, IndexInv, NEW u \in Users, MarkDeleted(u)
  PROVE  UserInv(u)' /\ DiskInv'
<1>. DEFINE n == arg[u].n
<1>1. pc[u] = "mark" /\ Changing(u)
  BY DEF MarkDeleted, Changing
<1>2. /\ mode[u] >= WrMode /\ mem[u].n \in 0 .. MaxRecs /\ n \in 1 .. mem[u].n /\ n \in Slots
      /\ ~mem[u].nv /\ xsize = "pages" /\ dN \in 0 .. mem[u].n
      /\ Distinct(Others(u)) /\ mem[u].nrecs = Cardinality(Others(u)) + 1
      /\ IsFiniteSet(Others(u))
  BY <1>1, Changed
<1>3. idx = Entries(Others(u))
  BY <1>1 DEF IndexInv, UserInv, ChangeOf
<1>4. /\ mode' = mode /\ dN' = dN /\ rec' = [rec EXCEPT ![n] = Deleted] /\ xsize' = xsize
      /\ idx' = idx /\ pc'[u] = "leave" /\ df'[u]
  BY DEF MarkDeleted, Goto, BaseInv, TypeInv, TypeOK
<1>5. /\ mem'[u].n = mem[u].n /\ mem'[u].nrecs = mem[u].nrecs - 1 /\ ~mem'[u].nv
  <2>1. mem[u].nrecs - 1 \in Counts
    BY UserTypes, <1>1 DEF BaseInv, TypeInv, ArgsOf, Counts
  <2>2. mem' = [mem EXCEPT ![u] = [mem[u] EXCEPT !.nrecs = mem[u].nrecs - 1]]
    BY DEF MarkDeleted
  <2>. QED  BY <1>2, <2>1, <2>2, SetCount DEF BaseInv, TypeInv, TypeOK
<1>6. /\ rec'[n] = Deleted /\ \A i : i # n /\ i \in Slots => rec'[i] = rec[i]
  BY <1>2, <1>4 DEF BaseInv, TypeInv, TypeOK
<1>7. 1 .. mem[u].n \subseteq Slots
  BY UserTypes DEF Slots
<1>8. PICK S : S = Others(u)
  OBVIOUS
<1>9. \A i \in S : rec'[i] = rec[i]
  BY <1>6, <1>7, <1>8 DEF Others, LiveIn
<1>10. LiveIn(mem[u].n)' = S
  BY <1>2, <1>5, <1>6, <1>7, <1>8 DEF Others, LiveIn
<1>11. Distinct(LiveIn(mem[u].n))' /\ Entries(LiveIn(mem[u].n))' = idx
  BY <1>2, <1>3, <1>8, <1>9, <1>10 DEF Distinct, Entries
<1>12. mem'[u].nrecs = Cardinality(S)
  <2>1. Cardinality(S) \in Nat
    BY <1>2, <1>8, FS_CardinalityType
  <2>. QED  BY <1>2, <1>5, <1>8, <2>1
<1>13. KnowsOf(u)'
  BY <1>2, <1>4, <1>5, <1>10, <1>11, <1>12 DEF KnowsOf
<1>14. Distinct(LiveIn(dN))'
  <2>1. \A i \in LiveIn(dN)' : i \in LiveIn(mem[u].n)'
    BY <1>2, <1>4, <1>5 DEF LiveIn
  <2>. QED  BY <1>11, <2>1 DEF Distinct
<1>15. DiskInv'
  BY <1>4, <1>14, DiskDirty DEF Dirty
<1>. QED  BY <1>2, <1>4, <1>13, <1>15 DEF UserInv, OpenOf, BuildOf, ChangeOf, Changing

(* All records are forgotten.                                              *)
LEMMA ResetStep ==
  ASSUME GoodDays, BaseInv, IndexInv, NEW u \in Users, AssignNRecs(u)
  PROVE  UserInv(u)' /\ DiskInv'
<1>1. mode[u] >= WrMode
  BY UserTypes DEF AssignNRecs, PlaceMode, ModeOf
<1>2. /\ mode' = mode /\ df'[u] /\ pc'[u] = "leave" /\ dN' = dN /\ rec' = rec
      /\ xpfx' = XPrefix(mem'[u]) /\ xsize' # "empty"
  BY DEF AssignNRecs, WrXPrefix, Goto, BaseInv, TypeInv, TypeOK
<1>3. mem'[u].n = 0 /\ mem'[u].nv
  <2>1. mem' = [mem EXCEPT ![u] = NotValid([mem[u] EXCEPT !.n = 0])]
    BY DEF AssignNRecs
  <2>. QED  BY <2>1, SetNone DEF BaseInv, TypeInv, TypeOK
<1>4. xpfx'.nv
  BY <1>2, <1>3 DEF XPrefix
<1>5. DiskInv'
  BY <1>2, <1>4, DiskMarked DEF IndexInv, DiskInv, LiveIn, Distinct
<1>6. KnowsOf(u)'
  BY <1>3 DEF KnowsOf, Distinct, LiveIn
<1>. QED  BY <1>1, <1>2, <1>5, <1>6 DEF UserInv, OpenOf, BuildOf, ChangeOf, Changing

(* The data prefix is written, or the mode goes down at once.              *)
LEMMA LeaveStep ==
  ASSUME GoodDays, BaseInv, IndexInv, NEW u \in Users, OnlyOwn(u), Leave(u)
  PROVE  UserInv(u)' /\ DiskInv'
<1>1. /\ pc[u] = "leave" /\ mem' = mem /\ df' = df /\ rec' = rec /\ xsize' = xsize /\ xpfx' = xpfx
      /\ idx' = idx /\ xsize # "empty" /\ ~Changing(u)
  BY DEF Leave, IndexInv, UserInv, OpenOf, Changing
<1>2. held[u] < WrMode /\ held[u] <= mode[u] /\ mode[u] \in 0 .. 8 /\ held[u] \in 0 .. 8
  BY UserTypes DEF GoodDays, BaseInv, TypeInv, TypeOK, PlaceMode
<1>3. CASE Writes(u)
  <2>1. /\ mode' = mode /\ pc'[u] = "leave2" /\ dN' = IF df[u] THEN mem[u].n ELSE dN
        /\ mode[u] >= WrMode /\ mode[u] >= RdMode
    BY <1>2, <1>3 DEF Leave, Writes, Goto, BaseInv, TypeInv, TypeOK
  <2>2. mem[u].n = dN'
    BY <2>1 DEF BaseInv, EndInv, CountOf
  <2>3. NotBuilding' <=> NotBuilding
    BY <1>1, <2>1 DEF NotBuilding, OnlyOwn
  <2>4. KnowsOf(u)'
    BY <1>1, <2>1, <2>3 DEF IndexInv, UserInv, KnowsOf, Changing, LiveIn, Entries, Distinct
  <2>5. DiskInv'
    <3>1. CASE df[u]
      <4>1. Distinct(LiveIn(dN))'
        BY <1>1, <2>1, <2>2 DEF IndexInv, UserInv, KnowsOf, LiveIn, Distinct
      <4>. QED  BY <1>1, <3>1, <4>1, DiskDirty DEF Dirty
    <3>2. CASE ~df[u]
      BY <1>1, <2>1, <3>2, DiskSame DEF Dirty, disk
    <3>. QED  BY <3>1, <3>2
  <2>. QED  BY <1>1, <2>1, <2>2, <2>4, <2>5 DEF UserInv, OpenOf, BuildOf, ChangeOf, Changing
<1>4. CASE ~Writes(u)
  <2>1. dN' = dN /\ mode'[u] = held[u] /\ pc'[u] = "idle" /\ ~df[u]
    BY <1>2, <1>4
    DEF Leave, Writes, Lower, Goto, BaseInv, TypeInv, TypeOK, IndexInv, UserInv, OpenOf
  <2>2. NotBuilding' <=> NotBuilding
    BY <1>1, <2>1 DEF NotBuilding, OnlyOwn
  <2>3. KnowsOf(u)'
    <3>1. mode'[u] >= RdMode => mode[u] >= RdMode
      BY <1>2, <2>1
    <3>2. ~Changing(u)' /\ KnowsOf(u)
      BY <2>1 DEF Changing, IndexInv, UserInv
    <3>. QED  BY <1>1, <2>1, <2>2, <3>1, <3>2 DEF KnowsOf, LiveIn, Entries, Distinct
  <2>4. DiskInv'
    BY <1>1, <2>1, DiskSame DEF Dirty, disk
  <2>. QED  BY <1>1, <2>1, <2>3, <2>4, PlainPlace
<1>. QED  BY <1>3, <1>4

(* The index prefix is written and the mode goes down.                     *)
LEMMA LeaveIndexStep ==
  ASSUME GoodDays, BaseInv, IndexInv, NEW u \in Users, OnlyOwn(u), LeaveIndex(u)
  PROVE  UserInv(u)' /\ DiskInv'
<1>1. /\ pc[u] = "leave2" /\ mem' = mem /\ dN' = dN /\ rec' = rec /\ idx' = idx
      /\ mode'[u] = held[u] /\ pc'[u] = "idle" /\ ~df'[u] /\ xsize # "empty" /\ mem[u].n = dN
      /\ xsize' = xsize /\ xpfx' = IF df[u] \/ xf[u] THEN XPrefix(mem[u]) ELSE xpfx
  BY DEF LeaveIndex, Lower, WrXPrefix, Goto, BaseInv, TypeInv, TypeOK, IndexInv, UserInv, OpenOf
<1>2. mode[u] >= WrMode /\ mode[u] >= RdMode
  BY <1>1, UserTypes, WorkMode
<1>3. NotBuilding /\ ~Changing(u)
  <2>. SUFFICES ASSUME NEW v \in Users PROVE pc[v] # "build"
    BY <1>1 DEF NotBuilding, Changing
  <2>1. CASE v = u
    BY <1>1, <2>1
  <2>2. CASE v # u
    BY <1>2, <2>2, BesideWriter
  <2>. QED  BY <2>1, <2>2
<1>4. /\ ~mem[u].nv => /\ xsize = "pages" /\ mem[u].nrecs = Cardinality(LiveIn(dN))
                       /\ idx = Entries(LiveIn(dN))
      /\ Distinct(LiveIn(dN))
  BY <1>1, <1>2, <1>3 DEF IndexInv, UserInv, KnowsOf
<1>5. KnowsOf(u)'
  BY <1>1, <1>4 DEF KnowsOf, LiveIn, Entries, Distinct
<1>6. DiskInv'
  <2>1. CASE df[u] \/ xf[u]
    <3>1. xpfx'.sig /\ xpfx'.nv = mem[u].nv /\ xpfx'.nrecs = mem[u].nrecs /\ xpfx'.abs = dN
      BY <1>1, <2>1 DEF XPrefix
    <3>. QED  BY <1>1, <1>4, <3>1 DEF DiskInv, LiveIn, Entries, Distinct
  <2>2. CASE ~(df[u] \/ xf[u])
    BY <1>1, <1>3, <2>2, DiskSame DEF Dirty, disk
  <2>. QED  BY <2>1, <2>2
<1>. QED  BY <1>1, <1>5, <1>6, PlainPlace

(***************************************************************************)
(* The invariant and the theorems.                                         *)
(***************************************************************************)

(* The step of u itself.                                                   *)
LEMMA OwnIndexStep ==
  ASSUME GoodDays, BaseInv, IndexInv, NEW u \in Users, UserStep(u)
  PROVE  UserInv(u)' /\ DiskInv'
<1>1. OnlyOwn(u) /\ GoodStep(u)
  BY GoodSteps, OwnStep, UserTypes DEF BaseInv, TypeInv
<1>. QED
  BY <1>1, OpenStep, CheckStep, WayStep, LockStep, EmptyStep, NextStep, BuiltStep, AppendStep,
     RecallStep, RekeyStep, DeleteStep, FailStep, InsertStep, WriteStep, MarkStep, ResetStep,
     LeaveStep, LeaveIndexStep
  DEF GoodStep, Index, Work

(* Nobody begins to delete by number.                                      *)
LEMMA NoDeleteStep ==
  ASSUME GoodDays, BaseInv, IndexInv, NEW u \in Users, UserStep(u)
  PROVE  NoDelete'
<1>1. OnlyOwn(u) /\ GoodStep(u)
  BY GoodSteps, OwnStep, UserTypes DEF BaseInv, TypeInv
<1>2. arg'[u].op # "delete"
  <2>. USE DEF IndexInv, NoDelete, BaseInv, TypeInv, TypeOK
  <2>1. NoArg.op # "delete" /\ arg[u].op # "delete"
    BY DEF NoArg
  <2>2. CASE arg' = arg
    BY <2>1, <2>2
  <2>3. CASE \E op \in Ops : Start(u, op)
    <3>1. PICK op \in Ops : Start(u, op)
      BY <2>3
    <3>2. op \in AllOps /\ op # "delete"
      BY GoodDays, SharedFileAssumption DEF GoodDays
    <3>. QED  BY <3>1, <3>2, StartArg DEF Start
  <2>4. ASSUME NEW n \in 0 .. MaxRecs + 1, arg' = [arg EXCEPT ![u] = [arg[u] EXCEPT !.n = n]]
        PROVE  arg'[u].op # "delete"
    BY <2>1, <2>4, SetArg
  <2>5. ASSUME NEW n \in 0 .. MaxRecs + 1, NEW k \in Keys,
               arg' = [arg EXCEPT ![u] = [arg[u] EXCEPT !.n = n, !.k = k]]
        PROVE  arg'[u].op # "delete"
    BY <2>1, <2>5, SetArgs
  <2>6. CASE SetEmpty(u)
    BY <2>4, <2>6, UserTypes DEF SetEmpty
  <2>7. CASE BuildNext(u)
    BY <2>4, <2>7, NoDoubles DEF BuildNext
  <2>8. CASE \E k \in Keys : Append(u, k)
    BY <2>1, <2>8, AppendArg
  <2>9. CASE \E n \in Slots, k \in Keys : Recall(u, n, k) \/ Rekey(u, n, k)
    <3>1. PICK n \in Slots, k \in Keys : Recall(u, n, k) \/ Rekey(u, n, k)
      BY <2>9
    <3>2. n \in 0 .. MaxRecs + 1
      BY UserTypes DEF Slots
    <3>. QED  BY <2>5, <3>1, <3>2 DEF Recall, Rekey
  <2>10. CASE \E n \in Slots : DeleteRec(u, n)
    <3>1. PICK n \in Slots : DeleteRec(u, n)
      BY <2>10
    <3>2. n \in 0 .. MaxRecs + 1
      BY UserTypes DEF Slots
    <3>. QED  BY <2>4, <3>1, <3>2 DEF DeleteRec
  <2>11. CASE InsertFails(u) \/ Leave(u) \/ LeaveIndex(u)
    BY <2>1, <2>11 DEF InsertFails, Gone, Leave, LeaveIndex, Lower
  <2>. QED
    BY <1>1, <2>2, <2>3, <2>6, <2>7, <2>8, <2>9, <2>10, <2>11
    DEF GoodStep, Index, Work, OpenF1, MarkNotValid, OpenF2, Hold, Unhold, TestXFExist,
        LockForIndex, IndexBuilt, Find, NoSuchRecord, AssignNRecs, Insert, WriteRec, MarkDeleted
<1>. QED  BY <1>1, <1>2 DEF IndexInv, NoDelete, OnlyOwn

(* A step of anybody.                                                      *)
LEMMA IndexStep ==
  ASSUME GoodDays, BaseInv, IndexInv, Next
  PROVE  IndexInv'
<1>1. PICK u \in Users : UserStep(u)
  BY DEF Next, UserStep
<1>2. UserInv(u)' /\ DiskInv' /\ NoDelete'
  BY <1>1, OwnIndexStep, NoDeleteStep
<1>3. ASSUME NEW v \in Users, v # u PROVE UserInv(v)'
  <2>1. mode[u] \in 0 .. 8
    BY UserTypes
  <2>. QED  BY <1>1, <1>3, <2>1, BesideWriterStep, BesideReaderStep
<1>. QED  BY <1>2, <1>3 DEF IndexInv

(* The files of the beginning.                                             *)
LEMMA IndexInit == Init => IndexInv
<1>. SUFFICES ASSUME Init PROVE IndexInv
  OBVIOUS
<1>1. DiskInv /\ NoDelete
  BY DEF Init, DiskInv, NoDelete, NoArg, Distinct, LiveIn
<1>2. \A u \in Users : UserInv(u)
  BY DEF Init, UserInv, OpenOf, BuildOf, KnowsOf, ChangeOf, Changing
<1>. QED  BY <1>1, <1>2 DEF IndexInv

(* The whole invariant holds.                                              *)
LEMMA IndexInvariance ==
  ASSUME GoodDays
  PROVE  Spec => [](BaseInv /\ IndexInv)
<1>1. "save" \notin Ops /\ \A m \in HoldModes : m < WrMode
  BY DEF GoodDays
<1>2. Spec => []BaseInv
  BY <1>1, EndInvariance DEF BaseInv
<1>3. BaseInv /\ IndexInv /\ [Next]_vars => IndexInv'
  <2>. SUFFICES ASSUME BaseInv, IndexInv, [Next]_vars PROVE IndexInv'
    OBVIOUS
  <2>1. CASE Next
    BY <2>1, IndexStep
  <2>2. CASE UNCHANGED vars
    <3>1. /\ dN' = dN /\ rec' = rec /\ xsize' = xsize /\ xpfx' = xpfx /\ idx' = idx
          /\ mode' = mode /\ mem' = mem /\ df' = df /\ pc' = pc /\ arg' = arg
      BY <2>2 DEF vars, disk
    <3>2. DiskInv' /\ NoDelete'
      BY <3>1 DEF IndexInv, DiskInv, NoDelete, Dirty, Changing, LiveIn, Entries, Distinct
    <3>3. ASSUME NEW u \in Users PROVE UserInv(u)'
      <4>1. OpenOf(u)' /\ BuildOf(u)'
        BY <3>1 DEF IndexInv, UserInv, OpenOf, BuildOf, LiveIn, Entries
      <4>2. KnowsOf(u)'
        BY <3>1 DEF IndexInv, UserInv, KnowsOf, Changing, NotBuilding, LiveIn, Entries, Distinct
      <4>3. ChangeOf(u)'
        <5>1. PICK S : S = Others(u)
          OBVIOUS
        <5>2. Others(u)' = S
          BY <3>1, <5>1 DEF Others, LiveIn
        <5>3. ChangeOf(u)
          BY DEF IndexInv, UserInv
        <5>. QED  BY <3>1, <5>1, <5>2, <5>3 DEF ChangeOf, Changing, Entries, Distinct
      <4>. QED  BY <4>1, <4>2, <4>3 DEF UserInv
    <3>. QED  BY <3>2, <3>3 DEF IndexInv
  <2>. QED  BY <2>1, <2>2
<1>. QED  BY <1>2, <1>3, IndexInit, PTL DEF Spec

(* On good days a valid index lists exactly the records, each under its    *)
(* key, and counts them (UpdateRec, RecallRec, DeleteRec, CreateIndexFile).*)
THEOREM IndexRight == GoodDays => (Spec => []IndexComplete)
<1>. SUFFICES ASSUME GoodDays PROVE Spec => []IndexComplete
  OBVIOUS
<1>1. BaseInv /\ IndexInv => IndexComplete
  <2>. SUFFICES ASSUME BaseInv, IndexInv, IndexClaimsValid
                PROVE  /\ idx = {<<rec[n], n>> : n \in Live}
                       /\ xpfx.nrecs = Cardinality(Live)
    BY DEF IndexComplete
  <2>1. \A u \in Users : ~Dirty(u)
    <3>. SUFFICES ASSUME NEW u \in Users, Dirty(u) PROVE FALSE
      OBVIOUS
    <3>1. mode[u] >= WrMode /\ mode[u] < WrMode /\ mode[u] \in 0 .. 8
      BY DirtyWrites, UserTypes DEF IndexClaimsValid, Quiet
    <3>. QED  BY <3>1
  <2>2. Live = LiveIn(dN)
    BY DEF Live, LiveIn
  <2>. QED  BY <2>1, <2>2 DEF IndexClaimsValid, IndexInv, DiskInv, Entries
<1>. QED  BY <1>1, IndexInvariance, PTL

(* On good days no opener finds an index that does not belong to the data  *)
(* file (CheckX, message 830).                                             *)
THEOREM NeverDamaged == GoodDays => (Spec => []IndexNeverDamaged)
<1>. SUFFICES ASSUME GoodDays PROVE Spec => []IndexNeverDamaged
  OBVIOUS
<1>1. BaseInv /\ IndexInv => IndexNeverDamaged
  BY DEF IndexInv, UserInv, OpenOf, IndexNeverDamaged
<1>. QED  BY <1>1, IndexInvariance, PTL

(* On good days a reader sees no change: whoever changes records or their  *)
(* number has a mode that Rd excludes, and a builder meets no double key   *)
(* that he would have to delete (CreateIndexFile under Rd).                *)
THEOREM ReadersUndisturbed == GoodDays => (Spec => ReadersSeeNoChange)
<1>. SUFFICES ASSUME GoodDays PROVE Spec => ReadersSeeNoChange
  OBVIOUS
<1>1. ASSUME BaseInv, IndexInv, [Next]_vars
      PROVE  [\A u \in Users : mode[u] = RdMode /\ mode'[u] = RdMode =>
                dN' = dN /\ \A n \in 1 .. dN : rec'[n] = rec[n]]_vars
  <2>. SUFFICES ASSUME Next, NEW u \in Users, mode[u] = RdMode
                PROVE  dN' = dN /\ rec' = rec
    BY <1>1
  <2>1. PICK v \in Users : UserStep(v)
    BY DEF Next, UserStep
  <2>2. GoodStep(v) /\ mode[v] \in 0 .. 8
    BY <1>1, <2>1, GoodSteps, UserTypes
  <2>3. mode[v] < WrMode
    <3>1. u # v => mode[u] + mode[v] <= 8
      BY <1>1, <2>1 DEF BaseInv, ModeInv, ModesExclude
    <3>. QED  BY <2>2, <3>1
  <2>4. \/ MarkNotValid(v) \/ SetEmpty(v) \/ BuildNext(v) \/ IndexBuilt(v)
        \/ disk' = disk
    BY <1>1, <2>2, <2>3, ReaderStep
  <2>5. BuildNext(v) => rec' = rec /\ dN' = dN
    BY <1>1, NoDoubles DEF BuildNext
  <2>. QED  BY <2>4, <2>5 DEF MarkNotValid, SetEmpty, IndexBuilt, disk
<1>. QED  BY <1>1, IndexInvariance, PTL DEF Spec, ReadersSeeNoChange
===============================================================================
