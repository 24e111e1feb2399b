------------------------------ MODULE SharedFile ------------------------------
(***************************************************************************)
(* One shared indexed data file (.000 with its index .X00) that several    *)
(* users work on: Fand0File, FandXFile and FileD of fandio, as the record  *)
(* statements of the procedure language drive them (Core/runproc.cpp).     *)
(*                                                                         *)
(* Every user keeps a copy of the two prefixes (number of records, state   *)
(* of the index) in memory: he reads them when he gets a mode from Rd up   *)
(* and writes them when he gives up a mode from Wr up.  The records and    *)
(* the pages of the index are written at once.  A change of lock mode is   *)
(* one step, granted by the table that module ModeLock implements.         *)
(*                                                                         *)
(* The B-tree is the set of its entries; the numbers of pages (MaxPage,    *)
(* FreeRoot) and the text file are left out.                               *)
(***************************************************************************)
EXTENDS LockModes, FiniteSets

CONSTANTS
  Users,                \* the users that share the file
  Keys,                 \* values of the unique key
  Deleted,              \* what a record with the deleted flag holds
  MaxRecs,              \* bound: record slots of the file
  MaxDrift,             \* bound: how far the index may miscount its records
  Ops,                  \* what the users do to the file
  HoldModes,            \* modes they hold around their operations
  NoUser                \* nobody

AllOps == {"find", "update", "append", "delete", "deletekey", "reset",
           "save", "close", "crash"}

ASSUME SharedFileAssumption ==
  /\ MaxRecs \in Nat \ {0} /\ MaxDrift \in Nat
  /\ Ops \subseteq AllOps /\ HoldModes \subseteq LockMode \ {NullMode}
  /\ Deleted \notin Keys /\ NoUser \notin Users

VARIABLES
  dN,                   \* number of records in the data prefix
  rec,                  \* rec[n]: what record slot n holds
  xsize,                \* size of the index file: empty, a prefix only, pages
  xpfx,                 \* prefix of the index file
  idx,                  \* entries <<key, record number>> on the index pages
  lock0,                \* who has locked record 0: he builds the index
  mode,                 \* mode[u]: lock mode of user u
  held,                 \* held[u]: the mode u goes back to after an operation
  mem,                  \* mem[u]: u's copy of the prefixes
  df, xf,               \* df[u], xf[u]: update flags of data file and index
  pc,                   \* pc[u]: where u is
  arg                   \* arg[u]: operation, record number and key of u

disk == <<dN, rec, xsize, xpfx, idx>>
vars == <<disk, lock0, mode, held, mem, df, xf, pc, arg>>

Slots   == 1 .. MaxRecs
Counts  == (-MaxDrift) .. (MaxRecs + MaxDrift)
Memory  == [n : 0 .. MaxRecs, nv : BOOLEAN, nrecs : Counts]
Prefix  == [sig : BOOLEAN, nv : BOOLEAN, nrecs : Counts, abs : 0 .. MaxRecs]
Places  == {"closed", "marking", "mounted", "repair", "idle", "work", "lock0",
            "empty", "build", "insert", "write", "mark", "leave", "leave2",
            "trunc"}
Args    == [op : AllOps, n : 0 .. MaxRecs + 1, k : Keys \cup {Deleted}]

(* What a user has who has not opened the file, and what an empty file or  *)
(* a hole in front of written pages reads as.                              *)
Fresh   == [n |-> 0, nv |-> FALSE, nrecs |-> 0]
Zeros   == [sig |-> FALSE, nv |-> FALSE, nrecs |-> 0, abs |-> 0]
NoArg   == [op |-> "find", n |-> 0, k |-> Deleted]

TypeOK ==
  /\ dN \in 0 .. MaxRecs /\ rec \in [Slots -> Keys \cup {Deleted}]
  /\ xsize \in {"empty", "prefix", "pages"} /\ xpfx \in Prefix
  /\ idx \subseteq Keys \X Slots /\ lock0 \in Users \cup {NoUser}
  /\ mode \in [Users -> LockMode] /\ held \in [Users -> HoldModes \cup {NullMode}]
  /\ mem \in [Users -> Memory] /\ df \in [Users -> BOOLEAN] /\ xf \in [Users -> BOOLEAN]
  /\ pc \in [Users -> Places] /\ arg \in [Users -> Args]

(* An empty file that nobody has open, its index file just created.        *)
Init ==
  /\ dN = 0 /\ rec = [n \in Slots |-> Deleted]
  /\ xsize = "empty" /\ xpfx = Zeros /\ idx = {} /\ lock0 = NoUser
  /\ mode = [u \in Users |-> NullMode] /\ held = [u \in Users |-> NullMode]
  /\ mem = [u \in Users |-> Fresh]
  /\ df = [u \in Users |-> FALSE] /\ xf = [u \in Users |-> FALSE]
  /\ pc = [u \in Users |-> "closed"] /\ arg = [u \in Users |-> NoArg]
-----------------------------------------------------------------------------
(* Lock modes.                                                             *)
Table == INSTANCE ModeLockAbs

Free(u, m) == \A v \in Users \ {u} : Table!Compatible(mode[v], m)

Goto(u, p) == pc' = [pc EXCEPT ![u] = p]

(* Reading past the end of the file leaves the memory as it was.           *)
XRead(u, m) ==
  IF xsize = "empty" THEN m ELSE [m EXCEPT !.nv = xpfx.nv, !.nrecs = xpfx.nrecs]

(* Mutant: the index prefix alone is read again.                           *)
RdIndexPrefix(u) == mem' = [mem EXCEPT ![u] = XRead(u, @)]

RdPrefixes(u) == mem' = [mem EXCEPT ![u] = XRead(u, [@ EXCEPT !.n = dN])]

(* NewLockMode(m): nothing to do when u's mode is strong enough.           *)
NewLockMode(u, m) ==
  IF mode[u] >= m THEN UNCHANGED <<mode, mem>>
  ELSE /\ Free(u, m)
       /\ mode' = [mode EXCEPT ![u] = m]
       /\ IF mode[u] < RdMode /\ m >= RdMode THEN RdPrefixes(u) ELSE UNCHANGED mem

(* Writing the prefix of the index, and its pages.                         *)
XPrefix(m) == [sig |-> TRUE, nv |-> m.nv, nrecs |-> m.nrecs, abs |-> m.n]

WrXPrefix(m) ==
  /\ xpfx' = XPrefix(m)
  /\ xsize' = IF xsize = "empty" THEN "prefix" ELSE xsize

WrPages(entries) == idx' = entries /\ xsize' = "pages"

NotValid(m) == [m EXCEPT !.nv = TRUE]

(* The file object after the handles are closed: all locks are gone.       *)
Gone(u) ==
  /\ mode' = [mode EXCEPT ![u] = NullMode] /\ held' = [held EXCEPT ![u] = NullMode]
  /\ lock0' = IF lock0 = u THEN NoUser ELSE lock0
  /\ mem' = [mem EXCEPT ![u] = Fresh]
  /\ df' = [df EXCEPT ![u] = FALSE] /\ xf' = [xf EXCEPT ![u] = FALSE]
  /\ Goto(u, "closed") /\ arg' = [arg EXCEPT ![u] = NoArg]
-----------------------------------------------------------------------------
(* Opening and closing the file.                                           *)

(* OpenF1: the handles are opened; an index file of less than 512 bytes is *)
(* marked not valid, under no lock at all.                                 *)
OpenF1(u) ==
  /\ pc[u] = "closed"
  /\ Goto(u, IF xsize = "pages" THEN "mounted" ELSE "marking")
  /\ UNCHANGED <<disk, lock0, mode, held, mem, df, xf, arg>>

MarkNotValid(u) ==
  /\ pc[u] = "marking"
  /\ mem' = [mem EXCEPT ![u] = NotValid(@)]
  /\ WrXPrefix(mem'[u]) /\ xf' = [xf EXCEPT ![u] = TRUE]
  /\ Goto(u, "mounted")
  /\ UNCHANGED <<dN, rec, idx, lock0, mode, held, df, arg>>

(* CheckX: the index does not belong to the data file.                     *)
Damaged(u) ==
  /\ ~XRead(u, mem[u]).nv
  /\ xsize # "pages" \/ ~xpfx.sig \/ xpfx.abs # dN

(* OpenF2 under Rd: both prefixes are read and checked.  Rd is given up at *)
(* once, or kept while the opener waits for Excl.                          *)
OpenF2(u) ==
  /\ pc[u] = "mounted"
  /\ Free(u, RdMode)
  /\ RdPrefixes(u)
  /\ mode' = IF Damaged(u) THEN [mode EXCEPT ![u] = RdMode] ELSE mode
  /\ Goto(u, IF Damaged(u) THEN "repair" ELSE "idle")
  /\ UNCHANGED <<disk, lock0, held, df, xf, arg>>

(* CheckX under Excl: the index is marked not valid (message 830); leaving *)
(* Excl writes the prefixes once more.                                     *)
Repair(u) ==
  /\ pc[u] = "repair"
  /\ Free(u, ExclMode)
  /\ mem' = [mem EXCEPT ![u] = NotValid(@)] /\ WrXPrefix(mem'[u])
  /\ mode' = [mode EXCEPT ![u] = NullMode]
  /\ df' = [df EXCEPT ![u] = FALSE] /\ xf' = [xf EXCEPT ![u] = FALSE]
  /\ Goto(u, "idle")
  /\ UNCHANGED <<dN, rec, idx, lock0, held, arg>>

(* CloseFile of a user without locks: TruncFile gets Rd, cuts the files to *)
(* their used size, an index that is not valid to nothing, and closes.     *)
Close(u) ==
  /\ pc[u] = "idle" /\ "close" \in Ops /\ held[u] = NullMode
  /\ NewLockMode(u, RdMode)
  /\ Goto(u, "trunc")
  /\ UNCHANGED <<disk, lock0, held, df, xf, arg>>

TruncFile(u) ==
  /\ pc[u] = "trunc"
  /\ IF mem[u].nv THEN xsize' = "empty" /\ xpfx' = Zeros /\ idx' = {}
                  ELSE UNCHANGED <<xsize, xpfx, idx>>
  /\ rec' = [n \in Slots |-> IF n <= mem[u].n THEN rec[n] ELSE Deleted]
  /\ Gone(u)
  /\ UNCHANGED dN

(* SaveFiles writes the prefixes of every open file with an update flag,   *)
(* whatever its lock mode.                                                 *)
Save(u) ==
  /\ pc[u] = "idle" /\ "save" \in Ops
  /\ df[u] \/ xf[u]
  /\ dN' = IF df[u] THEN mem[u].n ELSE dN
  /\ WrXPrefix(mem[u])
  /\ UNCHANGED <<rec, idx, lock0, mode, held, mem, df, xf, pc, arg>>

(* The program dies: the system releases its locks, what it has written    *)
(* stays written.                                                          *)
Crash(u) ==
  /\ pc[u] # "closed" /\ "crash" \in Ops
  /\ Gone(u)
  /\ UNCHANGED disk
-----------------------------------------------------------------------------
(* An operation begins with the mode it needs and ends with the old one.   *)
(* Mutant: updaterec asks for Rd only.                                     *)
UpdateUnderRd ==
  [find |-> RdMode, update |-> RdMode, append |-> CrMode, delete |-> DelMode,
   deletekey |-> DelMode, reset |-> DelMode]

ModeOf ==
  [find |-> RdMode, update |-> WrMode, append |-> CrMode, delete |-> DelMode,
   deletekey |-> DelMode, reset |-> DelMode]

Start(u, op) ==
  /\ pc[u] = "idle" /\ op \in Ops \cap DOMAIN ModeOf
  /\ NewLockMode(u, ModeOf[op])
  /\ arg' = [arg EXCEPT ![u] = [NoArg EXCEPT !.op = op]]
  /\ Goto(u, "work")
  /\ UNCHANGED <<disk, lock0, held, df, xf>>

(* The begin and the end of a "with shared" around the operations.         *)
Hold(u, m) ==
  /\ pc[u] = "idle" /\ held[u] = NullMode
  /\ NewLockMode(u, m)
  /\ held' = [held EXCEPT ![u] = m]
  /\ UNCHANGED <<disk, lock0, df, xf, pc, arg>>

Unhold(u) ==
  /\ pc[u] = "idle" /\ held[u] # NullMode
  /\ held' = [held EXCEPT ![u] = NullMode]
  /\ Goto(u, "leave")
  /\ UNCHANGED <<disk, lock0, mode, mem, df, xf, arg>>

Writes(u) == mode[u] >= WrMode /\ held[u] < WrMode

Lower(u) ==
  /\ mode' = [mode EXCEPT ![u] = held[u]]
  /\ Goto(u, "idle") /\ arg' = [arg EXCEPT ![u] = NoArg]

(* Mutant: the mode is given up before the index prefix is written.        *)
LowerFirst(u) ==
  /\ pc[u] = "leave"
  /\ mode' = [mode EXCEPT ![u] = held[u]]
  /\ IF Writes(u)
     THEN dN' = (IF df[u] THEN mem[u].n ELSE dN) /\ Goto(u, "leave2") /\ UNCHANGED arg
     ELSE Lower(u) /\ UNCHANGED dN
  /\ UNCHANGED <<rec, xsize, xpfx, idx, lock0, held, mem, df, xf>>

(* OldLockMode: the way down from Wr or above to below Wr writes first the *)
(* data prefix, then the index prefix.                                     *)
Leave(u) ==
  /\ pc[u] = "leave"
  /\ IF Writes(u)
     THEN /\ dN' = IF df[u] THEN mem[u].n ELSE dN
          /\ Goto(u, "leave2")
          /\ UNCHANGED <<mode, arg>>
     ELSE Lower(u) /\ UNCHANGED dN
  /\ UNCHANGED <<rec, xsize, xpfx, idx, lock0, held, mem, df, xf>>

LeaveIndex(u) ==
  /\ pc[u] = "leave2"
  /\ IF df[u] \/ xf[u] THEN WrXPrefix(mem[u]) ELSE UNCHANGED <<xsize, xpfx>>
  /\ df' = [df EXCEPT ![u] = FALSE] /\ xf' = [xf EXCEPT ![u] = FALSE]
  /\ Lower(u)
  /\ UNCHANGED <<dN, rec, idx, lock0, held, mem>>
-----------------------------------------------------------------------------
(* TestXFExist and CreateIndexFile: an index that is not valid is built    *)
(* anew, under record lock 0.                                              *)
NeedsIndex(u) == arg[u].op # "reset"

TestXFExist(u) ==
  /\ pc[u] = "work" /\ NeedsIndex(u) /\ mem[u].nv
  /\ Goto(u, "lock0")
  /\ UNCHANGED <<disk, lock0, mode, held, mem, df, xf, arg>>

(* Mutant: record lock 0 is not waited for.                                *)
LockIgnored0(u) ==
  /\ pc[u] = "lock0"
  /\ mem' = [mem EXCEPT ![u] = XRead(u, @)]
  /\ lock0' = IF mem'[u].nv THEN u ELSE NoUser
  /\ Goto(u, IF mem'[u].nv THEN "empty" ELSE "work")
  /\ UNCHANGED <<disk, mode, held, df, xf, arg>>

(* Somebody else may have built the index in the meantime.                 *)
LockForIndex(u) ==
  /\ pc[u] = "lock0" /\ lock0 = NoUser
  /\ mem' = [mem EXCEPT ![u] = XRead(u, @)]
  /\ lock0' = IF mem'[u].nv THEN u ELSE NoUser
  /\ Goto(u, IF mem'[u].nv THEN "empty" ELSE "work")
  /\ UNCHANGED <<disk, mode, held, df, xf, arg>>

SetEmpty(u) ==
  /\ pc[u] = "empty"
  /\ mem' = [mem EXCEPT ![u].nrecs = 0]
  /\ WrPages({}) /\ xpfx' = XPrefix(mem'[u]) /\ xf' = [xf EXCEPT ![u] = TRUE]
  /\ arg' = [arg EXCEPT ![u].n = 1]
  /\ Goto(u, "build")
  /\ UNCHANGED <<dN, rec, lock0, mode, held, df>>

(* The next record in the order of the key; of two records with one key    *)
(* the later one is deleted.                                               *)
BuildNext(u) ==
  LET n == arg[u].n
      first == \A i \in 1 .. n - 1 : rec[i] # rec[n]
  IN  /\ pc[u] = "build" /\ n <= mem[u].n
      /\ IF rec[n] = Deleted
         THEN UNCHANGED <<rec, xsize, idx, mem, df>>
         ELSE IF first
         THEN /\ WrPages(idx \cup {<<rec[n], n>>})
              /\ mem' = [mem EXCEPT ![u].nrecs = @ + 1]
              /\ UNCHANGED <<rec, df>>
         ELSE /\ rec' = [rec EXCEPT ![n] = Deleted]
              /\ df' = [df EXCEPT ![u] = TRUE]
              /\ UNCHANGED <<xsize, idx, mem>>
      /\ arg' = [arg EXCEPT ![u].n = n + 1]
      /\ UNCHANGED <<dN, xpfx, lock0, mode, held, xf, pc>>

(* Mutant: the index stays not valid.                                      *)
BuiltNotMarked(u) ==
  /\ pc[u] = "build" /\ arg[u].n > mem[u].n
  /\ WrXPrefix(mem[u])
  /\ lock0' = NoUser
  /\ Goto(u, "work")
  /\ UNCHANGED <<dN, rec, idx, mode, held, mem, df, xf, arg>>

(* The index becomes valid with the last write of its prefix.              *)
IndexBuilt(u) ==
  /\ pc[u] = "build" /\ arg[u].n > mem[u].n
  /\ mem' = [mem EXCEPT ![u].nv = FALSE] /\ WrXPrefix(mem'[u])
  /\ lock0' = NoUser
  /\ Goto(u, "work")
  /\ UNCHANGED <<dN, rec, idx, mode, held, df, xf, arg>>
-----------------------------------------------------------------------------
(* What the operations do to records and index.                            *)
Ready(u, op) == pc[u] = "work" /\ arg[u].op = op /\ ~mem[u].nv

Find(u) ==
  /\ Ready(u, "find")
  /\ Goto(u, "leave")
  /\ UNCHANGED <<disk, lock0, mode, held, mem, df, xf, arg>>

(* writerec with record number 0: IncNRecs, then RecallRec counts the      *)
(* record in the index.                                                    *)
Append(u, k) ==
  /\ Ready(u, "append")
  /\ mem[u].n < MaxRecs /\ mem[u].nrecs < MaxRecs + MaxDrift
  /\ mem' = [mem EXCEPT ![u].n = @ + 1, ![u].nrecs = @ + 1]
  /\ df' = [df EXCEPT ![u] = TRUE] /\ xf' = [xf EXCEPT ![u] = TRUE]
  /\ arg' = [arg EXCEPT ![u].n = mem'[u].n, ![u].k = k]
  /\ Goto(u, "insert")
  /\ UNCHANGED <<disk, lock0, mode, held>>

(* UpdateRec of a deleted record: RecallRec.                               *)
Recall(u, n, k) ==
  /\ Ready(u, "update") /\ n <= mem[u].n /\ rec[n] = Deleted
  /\ mem[u].nrecs < MaxRecs + MaxDrift
  /\ mem' = [mem EXCEPT ![u].nrecs = @ + 1]
  /\ arg' = [arg EXCEPT ![u].n = n, ![u].k = k]
  /\ Goto(u, "insert")
  /\ UNCHANGED <<disk, lock0, mode, held, df, xf>>

(* UpdateRec: the old entry is deleted when the key has changed.           *)
Rekey(u, n, k) ==
  /\ Ready(u, "update") /\ n <= mem[u].n /\ rec[n] # Deleted
  /\ arg' = [arg EXCEPT ![u].n = n, ![u].k = k]
  /\ IF rec[n] = k
     THEN Goto(u, "write") /\ UNCHANGED <<xsize, idx, xf>>
     ELSE /\ WrPages(idx \ {<<rec[n], n>>}) /\ xf' = [xf EXCEPT ![u] = TRUE]
          /\ Goto(u, "insert")
  /\ UNCHANGED <<dN, rec, xpfx, lock0, mode, held, mem, df>>

InIndex(k) == \E n \in Slots : <<k, n>> \in idx

(* XKey.Insert of a key that the index has: the index is marked not valid, *)
(* the handles are closed without the prefixes and the program ends.       *)
InsertFails(u) ==
  /\ pc[u] = "insert" /\ InIndex(arg[u].k)
  /\ WrXPrefix(NotValid(mem[u]))
  /\ Gone(u)
  /\ UNCHANGED <<dN, rec, idx>>

(* Mutant: the entry points to the next record.                            *)
InsertBehind(u) ==
  /\ pc[u] = "insert" /\ ~InIndex(arg[u].k)
  /\ WrPages(idx \cup {<<arg[u].k, arg[u].n + 1>>})
  /\ xf' = [xf EXCEPT ![u] = TRUE]
  /\ Goto(u, "write")
  /\ UNCHANGED <<dN, rec, xpfx, lock0, mode, held, mem, df, arg>>

Insert(u) ==
  /\ pc[u] = "insert" /\ ~InIndex(arg[u].k)
  /\ WrPages(idx \cup {<<arg[u].k, arg[u].n>>})
  /\ xf' = [xf EXCEPT ![u] = TRUE]
  /\ Goto(u, "write")
  /\ UNCHANGED <<dN, rec, xpfx, lock0, mode, held, mem, df, arg>>

WriteRec(u) ==
  /\ pc[u] = "write"
  /\ rec' = [rec EXCEPT ![arg[u].n] = arg[u].k]
  /\ df' = [df EXCEPT ![u] = TRUE]
  /\ Goto(u, "leave")
  /\ UNCHANGED <<dN, xsize, xpfx, idx, lock0, mode, held, mem, xf, arg>>

(* deleterec: the record's entry goes first, then the record gets its      *)
(* deleted flag.  By number any record will do, a deleted one too; by key  *)
(* the record comes from the index.                                        *)
DeleteRec(u, n) ==
  /\ \/ Ready(u, "delete")
     \/ Ready(u, "deletekey") /\ \E k \in Keys : <<k, n>> \in idx
  /\ n <= mem[u].n /\ mem[u].nrecs > -MaxDrift
  /\ WrPages(idx \ {<<rec[n], n>>}) /\ xf' = [xf EXCEPT ![u] = TRUE]
  /\ arg' = [arg EXCEPT ![u].n = n]
  /\ Goto(u, "mark")
  /\ UNCHANGED <<dN, rec, xpfx, lock0, mode, held, mem, df>>

MarkDeleted(u) ==
  /\ pc[u] = "mark"
  /\ rec' = [rec EXCEPT ![arg[u].n] = Deleted]
  /\ mem' = [mem EXCEPT ![u].nrecs = @ - 1]
  /\ df' = [df EXCEPT ![u] = TRUE]
  /\ Goto(u, "leave")
  /\ UNCHANGED <<dN, xsize, xpfx, idx, lock0, mode, held, xf, arg>>

(* Mutant: the index is not marked.                                        *)
ResetKeepsIndex(u) ==
  /\ pc[u] = "work" /\ arg[u].op = "reset" /\ mem[u].n > 0
  /\ mem' = [mem EXCEPT ![u].n = 0]
  /\ df' = [df EXCEPT ![u] = TRUE]
  /\ Goto(u, "leave")
  /\ UNCHANGED <<disk, lock0, mode, held, xf, arg>>

(* F.nrecs := 0.                                                           *)
AssignNRecs(u) ==
  /\ pc[u] = "work" /\ arg[u].op = "reset" /\ mem[u].n > 0
  /\ mem' = [mem EXCEPT ![u] = NotValid([@ EXCEPT !.n = 0])]
  /\ WrXPrefix(mem'[u]) /\ xf' = [xf EXCEPT ![u] = TRUE]
  /\ df' = [df EXCEPT ![u] = TRUE]
  /\ Goto(u, "leave")
  /\ UNCHANGED <<dN, rec, idx, lock0, mode, held, arg>>

(* Nothing to do: a record number out of range, a key not found, no        *)
(* records to forget; or the file is at its bound.                         *)
NoSuchRecord(u) ==
  /\ pc[u] = "work" /\ arg[u].op # "find"
  /\ arg[u].op = "reset" => mem[u].n = 0
  /\ arg[u].op = "deletekey" => ~mem[u].nv
  /\ arg[u].op = "append" => mem[u].n = MaxRecs
  /\ Goto(u, "leave")
  /\ UNCHANGED <<disk, lock0, mode, held, mem, df, xf, arg>>
-----------------------------------------------------------------------------
OpenClose(u) ==
  \/ OpenF1(u) \/ MarkNotValid(u) \/ OpenF2(u) \/ Repair(u)
  \/ Close(u) \/ TruncFile(u) \/ Save(u)

Index(u) ==
  TestXFExist(u) \/ LockForIndex(u) \/ SetEmpty(u) \/ BuildNext(u) \/ IndexBuilt(u)

Work(u) ==
  \/ Find(u) \/ AssignNRecs(u) \/ NoSuchRecord(u)
  \/ \E k \in Keys : Append(u, k)
  \/ \E n \in Slots, k \in Keys : Recall(u, n, k) \/ Rekey(u, n, k)
  \/ \E n \in Slots : DeleteRec(u, n)
  \/ InsertFails(u) \/ Insert(u) \/ WriteRec(u) \/ MarkDeleted(u)
  \/ Leave(u) \/ LeaveIndex(u)

Next ==
  \E u \in Users :
    \/ OpenClose(u) \/ Crash(u)
    \/ \E op \in Ops : Start(u, op)
    \/ \E m \in HoldModes : Hold(u, m)
    \/ Unhold(u)
    \/ Index(u) \/ Work(u)

Spec == Init /\ [][Next]_vars

(* What has been started goes on; nobody has to start anything.  A waiting *)
(* user tries again and again: weak fairness.                              *)
FairSpec ==
  Spec /\ \A u \in Users : WF_vars(Index(u)) /\ WF_vars(Work(u))
-----------------------------------------------------------------------------
(* The copy of the number of records that a user with Rd or more works     *)
(* with is the one in the file, until he himself changes it: nobody adds,  *)
(* deletes or resets behind his back (ChangeLMode reads the prefixes after *)
(* the grant and writes them before the mode is given up).                 *)
RecordCountCurrent ==
  \A u \in Users :
    /\ mode[u] = RdMode => mem[u].n = dN
    /\ mode[u] >= WrMode /\ ~df[u] => mem[u].n = dN

(* A new record always goes behind the records of the file: two stations   *)
(* that append never write one slot, and no appended record lands on one   *)
(* that the prefix in the file already counts (IncNRecs, WriteNewRec).     *)
AppendsBehindTheEnd ==
  \A u \in Users :
    /\ pc[u] \in {"insert", "write"} /\ arg[u].op = "append" => arg[u].n = dN + 1
    /\ \A v \in Users \ {u} : pc[u] = "write" => pc[v] \notin {"write", "mark"}

(* Nobody works on the index but one builder, under Rd or more, or one     *)
(* user above Rd; no builder beside a writer (record lock 0 and the modes).*)
OneIndexWriter ==
  LET writers == {u \in Users : pc[u] \in {"empty", "build", "insert"}}
  IN  Cardinality(writers) <= 1

(* What the file shows when nobody writes it and its index claims to be    *)
(* valid.                                                                  *)
Quiet == \A u \in Users : mode[u] < WrMode
Live  == {n \in 1 .. dN : rec[n] # Deleted}
IndexClaimsValid == Quiet /\ xsize # "empty" /\ xpfx.sig /\ ~xpfx.nv

(* A valid index lists exactly the records that are not deleted, each      *)
(* under its key, and counts them (UpdateRec, RecallRec, DeleteRec,        *)
(* CreateIndexFile; XNRecs in html_help/rejstrik/l.html).                  *)
IndexComplete ==
  IndexClaimsValid =>
    /\ idx = {<<rec[n], n>> : n \in Live}
    /\ xpfx.nrecs = Cardinality(Live)

(* As long as nobody dies, an opener never finds an index that does not    *)
(* belong to the data file (CheckX, message 830).                          *)
IndexNeverDamaged == \A u \in Users : pc[u] # "repair"

(* While a user reads under Rd nobody changes the records or their number. *)
ReadersSeeNoChange ==
  [][\A u \in Users : mode[u] = RdMode /\ mode'[u] = RdMode =>
       dN' = dN /\ \A n \in 1 .. dN : rec'[n] = rec[n]]_vars

(* Every operation ends: a user who waits for no mode comes back to his    *)
(* own program, also one who waits for another to build the index (record  *)
(* lock 0 in CreateIndexFile).                                             *)
OperationEnds == \A u \in Users : pc[u] = "work" ~> pc[u] \in {"idle", "closed"}
=============================================================================
