------------------------------- MODULE AddLock -------------------------------
(***************************************************************************)
(* The locks of an update with additives: LockForAdd and RunAddUpdate      *)
(* (Core/rdrun.cpp), LockForMemb, LockWithDep and UnLockWithDep (the data  *)
(* editor).                                                                *)
(*                                                                         *)
(* An additive takes an update of a record on to another file; the         *)
(* additives of that file take it further.  When a record of the editor    *)
(* gets another key or is deleted, records of other files follow it, and   *)
(* with them their additives.  Before anything is changed all these files  *)
(* are locked, one that is reached twice also twice.  When another user    *)
(* refuses one of the locks all are given back and tried again.            *)
(*                                                                         *)
(* LockForAdd and LockForMemb call themselves for every file they come to. *)
(* What is left of their loops is the list todo: the first of its entries  *)
(* is the one looked at next.                                              *)
(***************************************************************************)
EXTENDS Integers, Sequences, SequencesExt, FiniteSets

LM == INSTANCE LockModes WITH Width <- 256

CONSTANTS
  Files,
  Tasks, Designs,       \* Designs[t] = [adds, members, edited]: the additives of each file; links
                        \* [from, role, to] that changes of keys and deletions follow
                        \* (MemberRef 1); the files whose records the users change
  OuterModes            \* modes from an enclosing with shared

ASSUME AddLockAssumption ==
  /\ \A t \in Tasks :
       /\ Designs[t].edited \subseteq Files
       /\ \A f \in Files :
            /\ Len(Designs[t].adds[f]) \in Nat
            /\ \A i \in 1 .. Len(Designs[t].adds[f]) : Designs[t].adds[f][i].to \in Files
       /\ Len(Designs[t].members) \in Nat
       /\ \A i \in 1 .. Len(Designs[t].members) :
            Designs[t].members[i].from \in Files /\ Designs[t].members[i].to \in Files
  /\ OuterModes \subseteq [Files -> Int]

VARIABLES
  task,                 \* the task, never changed
  mode, ex,             \* lock modes of the files, and those saved (Ex, Ta)
  outer,                \* the modes before
  op, oldMd,            \* the operation in progress, the mode of its file before it
  todo                  \* what is left to lock

lockVars == <<task, mode, ex, outer, op, oldMd, todo>>

design  == Designs[task]
Adds(f) == design.adds[f]
NoOp == [kind |-> "none"]

Operation(by, kind, f) == [by |-> by, kind |-> kind, f |-> f]

(* The mode of the file itself: WriteCRec and DeleteRecProc of the editor, *)
(* writerec, deleterec and recallrec.                                      *)
ModeFor(o) ==
  CASE o.kind \in {"+", "recall"} -> LM!CrMode [] o.kind = "d" -> LM!WrMode [] o.kind = "-" -> LM!DelMode

AddMode(a) == IF a.create > 0 THEN LM!CrMode ELSE LM!WrMode
-----------------------------------------------------------------------------
(* Looking: at the file at the link from a file to another one, which is   *)
(* locked under md.                                                        *)
Look(kind, at, from, to, md) ==
  [kind |-> kind, at |-> at, from |-> from, to |-> to, md |-> md]

AddLocks(f) ==
  [i \in 1 .. Len(Adds(f)) |-> Look("add", f, f, Adds(f)[i].to, AddMode(Adds(f)[i]))]

MembLocks(f, md) ==
  [i \in 1 .. Len(design.members) |->
     Look("memb", f, design.members[i].to, design.members[i].from, md)]

(* A link of this file that does not lead to itself.                       *)
Needed(e) == e.kind = "own" \/ (e.from = e.at /\ e.to # e.at)

(* Mutant: the additives of the files locked are not looked at.            *)
BelowDirect(e) ==
  IF e.kind = "memb" THEN AddLocks(e.to) \o MembLocks(e.to, e.md) ELSE <<>>

(* What follows a lock before the next link is looked at.                  *)
Below(e) ==
  CASE e.kind = "own"  -> <<>>
    [] e.kind = "add"  -> AddLocks(e.to)
    [] e.kind = "memb" -> AddLocks(e.to) \o MembLocks(e.to, e.md)

Follows(o) == o.by = "editor" /\ o.kind # "+"

(* LockWithDep takes the file too in each round, a statement has it.       *)
LocksOf(o) ==
  IF o.by = "proc" THEN AddLocks(o.f)
  ELSE <<Look("own", o.f, o.f, o.f, ModeFor(o))>> \o AddLocks(o.f)
       \o IF Follows(o) THEN MembLocks(o.f, ModeFor(o)) ELSE <<>>
-----------------------------------------------------------------------------
(* The files that one comes to from some files along links.                *)
Closed(start, links) ==
  {s \in SUBSET Files : start \subseteq s /\ \A l \in links : l[1] \in s => l[2] \in s}

Closure(start, links) ==
  LET closed == Closed(start, links) IN {g \in Files : \A s \in closed : g \in s}

AddLinks  == {l \in Files \X Files : \E i \in 1 .. Len(Adds(l[1])) : Adds(l[1])[i].to = l[2]}
MembLinks == {l \in Files \X Files :
                \E i \in 1 .. Len(design.members) :
                  design.members[i].to = l[1] /\ design.members[i].from = l[2]}

Beside(fs, links) == {g \in Files : \E f \in fs : f # g /\ <<f, g>> \in links}

FromTo(fs, links) == Closure(Beside(fs, links), links)

(* What additives change when records of the files fs change, and whose    *)
(* records follow those of f.                                              *)
Reached(fs)  == LET links == AddLinks IN FromTo(fs, links)
Followers(f) == LET links == MembLinks IN FromTo({f}, links)

(* The modes saved and given back: LockWithDep looks at the files that     *)
(* follow also when nothing is to follow.                                  *)
LinkedBy(o) ==
  IF o.by = "proc" THEN Reached({o.f})
  ELSE LET fs == Followers(o.f) IN fs \cup Reached({o.f} \cup fs)

Raised(m, f, md) == [m EXCEPT ![f] = IF @ < md THEN md ELSE @]   \* TryLMode

GivenBack(m, o) ==
  LET linked == LinkedBy(o) IN [f \in Files |-> IF f \in linked THEN ex[f] ELSE m[f]]

(* UnLockWithDep, or the end of RunAddUpdate and of the statement.         *)
Unlocked(o) == GivenBack([mode EXCEPT ![o.f] = oldMd], o)
-----------------------------------------------------------------------------
LockInit ==
  /\ task \in Tasks
  /\ outer \in OuterModes /\ mode = outer /\ ex = [f \in Files |-> LM!NullMode]
  /\ op = NoOp /\ oldMd = LM!NullMode /\ todo = <<>>

(* The modes of the linked files are saved, then a statement raises the    *)
(* mode of the file.                                                       *)
BeginLocks(o) ==
  /\ op = NoOp /\ op' = o /\ oldMd' = mode[o.f]
  /\ ex' = LET linked == LinkedBy(o) IN [f \in Files |-> IF f \in linked THEN mode[f] ELSE ex[f]]
  /\ mode' = IF o.by = "proc" THEN Raised(mode, o.f, ModeFor(o)) ELSE mode
  /\ todo' = LocksOf(o)
  /\ UNCHANGED <<task, outer>>

(* One more link is looked at, and locked when it leads elsewhere.         *)
LockNext ==
  /\ op # NoOp /\ todo # <<>>
  /\ \E e \in {Head(todo)} :
       /\ mode' = IF Needed(e) THEN Raised(mode, e.to, e.md) ELSE mode
       /\ todo' = IF Needed(e) THEN Below(e) \o Tail(todo) ELSE Tail(todo)
  /\ UNCHANGED <<task, ex, outer, op, oldMd>>

(* A refusal because of another user: all are given back for the next      *)
(* round.                                                                  *)
Refused ==
  /\ op # NoOp /\ todo # <<>> /\ Needed(Head(todo)) /\ todo' = LocksOf(op)
  /\ mode' = IF op.by = "editor" THEN Unlocked(op) ELSE GivenBack(mode, op)
  /\ UNCHANGED <<task, ex, outer, op, oldMd>>

(* The user of the editor stops waiting.                                   *)
GiveUp ==
  /\ op # NoOp /\ op.by = "editor" /\ todo # <<>> /\ Needed(Head(todo))
  /\ mode' = Unlocked(op) /\ op' = NoOp /\ todo' = <<>>
  /\ UNCHANGED <<task, ex, outer, oldMd>>

(* All is locked and the records have changed.                             *)
EndLocks ==
  /\ op # NoOp /\ todo = <<>>
  /\ mode' = Unlocked(op) /\ op' = NoOp
  /\ UNCHANGED <<task, ex, outer, oldMd, todo>>

Kinds == {"+", "d", "-", "recall"}

Locks ==
  \/ \E by \in {"editor", "proc"}, kind \in Kinds, f \in design.edited :
       BeginLocks(Operation(by, kind, f))
  \/ LockNext \/ Refused \/ GiveUp \/ EndLocks

LockSpec == LockInit /\ [][Locks]_lockVars
-----------------------------------------------------------------------------
(* The files whose own records an operation changes.                       *)
Changed(o) == {o.f} \cup IF Follows(o) THEN Followers(o.f) ELSE {}

(* The additives run with every file that they change under Wr, and under  *)
(* Cr when they may create records in it, those of a file whose records    *)
(* follow included, which itself is locked like the file they follow;      *)
(* afterwards all modes are as they were before, whoever has refused what  *)
(* in between (LockForAdd, LockForMemb, UnLockWithDep).                    *)
LocksHeld ==
  /\ op # NoOp /\ todo = <<>> =>
       /\ \A f \in Changed(op) \cup Reached(Changed(op)) : \A i \in 1 .. Len(Adds(f)) :
            Adds(f)[i].to # f => mode[Adds(f)[i].to] >= AddMode(Adds(f)[i])
       /\ Follows(op) => \A f \in Followers(op.f) : mode[f] >= ModeFor(op)
  /\ op = NoOp => mode = outer
=============================================================================
