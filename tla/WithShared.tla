------------------------------ MODULE WithShared ------------------------------
(***************************************************************************)
(* The statements "with shared F(Mode), ... do S [else S2]" and            *)
(* "with locked F[N], ... do S [else S2]" of the procedure language:       *)
(* WithLockedProc and UnLck (Core/runproc.cpp), run by several users over  *)
(* several shared files.                                                   *)
(*                                                                         *)
(* A change of lock mode is one step here, granted by the lock table that  *)
(* the protocol of module ModeLock implements.  A statement that calls     *)
(* procedures or nests statements has a stack of activations; the saved    *)
(* modes (LockD::OldMd) belong to the statement, not to its activation,    *)
(* and start as Null.  The record numbers are constants, what S does to    *)
(* the records is in SharedFile.                                           *)
(***************************************************************************)
EXTENDS LockModes, Sequences, FiniteSets

CONSTANTS
  Users,                \* the users (processes) running the procedure
  Files,                \* the shared data files
  Records,              \* record numbers
  Stmts,                \* the with statements of the procedure
  NoStmt,               \* "not inside another with statement"
  Code                  \* Code[s]: the statement s

Entry == [file : Files, md : LockMode \ {NullMode}, n : Records]

(* op: which statement; list: its files with a mode (shared) or a record   *)
(* number (locked); else: it has an else branch; in: the statement in      *)
(* whose do branch it stands.                                              *)
IsCode(c) ==
  /\ DOMAIN c = {"op", "list", "else", "in"}
  /\ c.op \in {"shared", "locked"}
  /\ c.list \in Seq(Entry) /\ c.list # <<>>
  /\ c.else \in BOOLEAN
  /\ c.in \in Stmts \cup {NoStmt}

ASSUME WithSharedAssumption ==
  /\ NoStmt \notin Stmts
  /\ DOMAIN Code = Stmts
  /\ \A s \in Stmts : IsCode(Code[s])

VARIABLES
  opened,               \* opened[u]: the files u has open
  mode,                 \* mode[u][f]: lock mode of u's open file f
  recs,                 \* recs[u]: records <<f, n>> locked through u's handles
  oldMd,                \* oldMd[u][s][i]: LockD::OldMd of entry i of s
  stack                 \* stack[u]: activations of u, the innermost first

vars == <<opened, mode, recs, oldMd, stack>>

(* An activation: the statement, the entry its loop stands at, and where   *)
(* it is: taking the locks, with Rd on a file it has just opened, giving   *)
(* all up after a refusal, waiting the net delay, in one of the branches,  *)
(* or giving up after the do branch.                                       *)
Phases == {"acquire", "opening", "refused", "wait", "do", "else", "end"}
Frame  == [st : Stmts, it : Nat \ {0}, ph : Phases]

Init ==
  /\ opened = [u \in Users |-> {}]
  /\ mode   = [u \in Users |-> [f \in Files |-> NullMode]]
  /\ recs   = [u \in Users |-> {}]
  /\ oldMd  = [u \in Users |-> [s \in Stmts |->
                [i \in DOMAIN Code[s].list |-> NullMode]]]
  /\ stack  = [u \in Users |-> <<>>]

At(u, ph)  == stack[u] # <<>> /\ Head(stack[u]).ph = ph
Stmt(u)    == Head(stack[u]).st
It(u)      == Head(stack[u]).it
List(u)    == Code[Stmt(u)].list
Cur(u)     == List(u)[It(u)]

Goto(u, i, ph) ==
  stack' = [stack EXCEPT ![u] = <<[st |-> Stmt(u), it |-> i, ph |-> ph]>> \o Tail(@)]

Return(u) == stack' = [stack EXCEPT ![u] = Tail(@)]

(* Mutant: the loops stop one entry early.                                 *)
StopEarly(u, ph) ==
  IF It(u) < Len(List(u)) - 1 THEN Goto(u, It(u) + 1, Head(stack[u]).ph)
                              ELSE Goto(u, 1, ph)

(* The loops go on with the next entry, after the last one with phase ph.  *)
NextEntry(u, ph) ==
  IF It(u) < Len(List(u)) THEN Goto(u, It(u) + 1, Head(stack[u]).ph)
                          ELSE Goto(u, 1, ph)

(* The lock table of file f and what it allows user u.                     *)
Table(f) == INSTANCE ModeLockAbs WITH mode <- [u \in Users |-> mode[u][f]]

Free(u, f, m) == \A v \in Users \ {u} : Table(f)!Compatible(mode[v][f], m)

(* Somebody else may just have the transition byte of the file.            *)
TransBusy(u) == \E v \in Users \ {u} : stack[v] # <<>>

SetMode(u, f, m) == mode' = [mode EXCEPT ![u][f] = m]

(* A record is locked for every other attempt, one of the same handle      *)
(* included.                                                               *)
IsLocked(f, n) == \E v \in Users : <<f, n>> \in recs[v]
-----------------------------------------------------------------------------
(* Mutant: the iterator starts one too low.                                *)
BeginAtZero(u, s) ==
  /\ stack[u] = <<>> /\ Code[s].in = NoStmt
  /\ stack' = [stack EXCEPT ![u] = <<[st |-> s, it |-> 0, ph |-> "wait"]>> \o @]
  /\ UNCHANGED <<opened, mode, recs, oldMd>>

(* The interpreter arrives at statement s, in the do branch it stands in.  *)
Begin(u, s) ==
  /\ IF stack[u] = <<>> THEN Code[s].in = NoStmt
                        ELSE At(u, "do") /\ Code[s].in = Stmt(u)
  /\ stack' = [stack EXCEPT ![u] = <<[st |-> s, it |-> 1, ph |-> "acquire"]>> \o @]
  /\ UNCHANGED <<opened, mode, recs, oldMd>>

(* A file that is not open yet is opened under Rd, without waiting.        *)
OpenFile(u) ==
  /\ At(u, "acquire")
  /\ Cur(u).file \notin opened[u]
  /\ Free(u, Cur(u).file, RdMode)
  /\ opened' = [opened EXCEPT ![u] = @ \cup {Cur(u).file}]
  /\ SetMode(u, Cur(u).file, RdMode)
  /\ Goto(u, It(u), "opening")
  /\ UNCHANGED <<recs, oldMd>>

Opened(u) ==
  /\ At(u, "opening")
  /\ SetMode(u, Cur(u).file, NullMode)
  /\ Goto(u, It(u), "acquire")
  /\ UNCHANGED <<opened, recs, oldMd>>

OpenRefused(u) ==
  /\ At(u, "acquire")
  /\ Cur(u).file \notin opened[u]
  /\ ~Free(u, Cur(u).file, RdMode) \/ TransBusy(u)
  /\ Goto(u, 1, "refused")
  /\ UNCHANGED <<opened, mode, recs, oldMd>>

(* TryLMode notes the mode the file had and only raises it.                *)
SaveMode(u) == oldMd' = [oldMd EXCEPT ![u][Stmt(u)][It(u)] = mode[u][Cur(u).file]]

TakeMode(u) ==
  /\ At(u, "acquire") /\ Code[Stmt(u)].op = "shared"
  /\ Cur(u).file \in opened[u]
  /\ SaveMode(u)
  /\ \/ /\ Cur(u).md > mode[u][Cur(u).file]
        /\ Free(u, Cur(u).file, Cur(u).md)
        /\ SetMode(u, Cur(u).file, Cur(u).md)
     \/ /\ Cur(u).md <= mode[u][Cur(u).file]
        /\ UNCHANGED mode
  /\ NextEntry(u, "do")
  /\ UNCHANGED <<opened, recs>>

(* Mutant: the statement waits with what it has got so far.                *)
HoldAndWait(u) ==
  /\ At(u, "acquire") /\ Code[Stmt(u)].op = "shared"
  /\ Cur(u).file \in opened[u]
  /\ SaveMode(u)
  /\ Cur(u).md > mode[u][Cur(u).file]
  /\ ~Free(u, Cur(u).file, Cur(u).md)
  /\ Goto(u, 1, "wait")
  /\ UNCHANGED <<opened, mode, recs>>

ModeRefused(u) ==
  /\ At(u, "acquire") /\ Code[Stmt(u)].op = "shared"
  /\ Cur(u).file \in opened[u]
  /\ SaveMode(u)
  /\ Cur(u).md > mode[u][Cur(u).file]
  /\ ~Free(u, Cur(u).file, Cur(u).md) \/ TransBusy(u)
  /\ Goto(u, 1, "refused")
  /\ UNCHANGED <<opened, mode, recs>>

LockRecord(u) ==
  /\ At(u, "acquire") /\ Code[Stmt(u)].op = "locked"
  /\ Cur(u).file \in opened[u]
  /\ ~IsLocked(Cur(u).file, Cur(u).n)
  /\ recs' = [recs EXCEPT ![u] = @ \cup {<<Cur(u).file, Cur(u).n>>}]
  /\ NextEntry(u, "do")
  /\ UNCHANGED <<opened, mode, oldMd>>

RecordRefused(u) ==
  /\ At(u, "acquire") /\ Code[Stmt(u)].op = "locked"
  /\ Cur(u).file \in opened[u]
  /\ IsLocked(Cur(u).file, Cur(u).n)
  /\ Goto(u, 1, "refused")
  /\ UNCHANGED <<opened, mode, recs, oldMd>>

(* Mutant: the record stays locked.                                        *)
RecordKept(u) ==
  /\ Cur(u).file \in opened[u]
  /\ SetMode(u, Cur(u).file, oldMd[u][Stmt(u)][It(u)])
  /\ UNCHANGED recs

(* One turn of the loop in UnLck: the record is unlocked, whoever locked   *)
(* it through this handle, and the file goes back to the saved mode.  The  *)
(* loop runs over the whole list: it does not stop at the refused entry    *)
(* (parameter Ld1).                                                        *)
UnLckEntry(u) ==
  /\ Cur(u).file \in opened[u]
  /\ recs' = [recs EXCEPT ![u] =
       IF Code[Stmt(u)].op = "locked" THEN @ \ {<<Cur(u).file, Cur(u).n>>} ELSE @]
  /\ LET md == oldMd[u][Stmt(u)][It(u)]
     IN  /\ md > mode[u][Cur(u).file] => Free(u, Cur(u).file, md)
         /\ SetMode(u, Cur(u).file, md)

UnLckNotOpen(u) == Cur(u).file \notin opened[u] /\ UNCHANGED <<mode, recs>>

UnLckRefused(u) ==
  /\ At(u, "refused")
  /\ UnLckEntry(u) \/ UnLckNotOpen(u)
  /\ NextEntry(u, IF Code[Stmt(u)].else THEN "else" ELSE "wait")
  /\ UNCHANGED <<opened, oldMd>>

(* After the net delay the statement starts again with its first entry.    *)
TryAgain(u) ==
  /\ At(u, "wait")
  /\ Goto(u, 1, "acquire")
  /\ UNCHANGED <<opened, mode, recs, oldMd>>

DoneElse(u) ==
  /\ At(u, "else")
  /\ Return(u)
  /\ UNCHANGED <<opened, mode, recs, oldMd>>

DoneDo(u) ==
  /\ At(u, "do")
  /\ Goto(u, 1, "end")
  /\ UNCHANGED <<opened, mode, recs, oldMd>>

UnLckEnd(u) ==
  /\ At(u, "end")
  /\ UnLckEntry(u) \/ UnLckNotOpen(u)
  /\ IF It(u) < Len(List(u)) THEN Goto(u, It(u) + 1, "end") ELSE Return(u)
  /\ UNCHANGED <<opened, oldMd>>

(* A run-time error leaves all activations by an exception; nothing is     *)
(* unlocked on the way, but the project is closed with all its files.      *)
(* The procedure is compiled anew when it is called again.                 *)
RunError(u) ==
  /\ At(u, "do") \/ At(u, "else")
  /\ opened' = [opened EXCEPT ![u] = {}]
  /\ mode'   = [mode EXCEPT ![u] = [f \in Files |-> NullMode]]
  /\ recs'   = [recs EXCEPT ![u] = {}]
  /\ oldMd'  = [oldMd EXCEPT ![u] = [s \in Stmts |->
                 [i \in DOMAIN Code[s].list |-> NullMode]]]
  /\ stack'  = [stack EXCEPT ![u] = <<>>]

Step(u) ==
  \/ OpenFile(u)   \/ Opened(u)      \/ OpenRefused(u)
  \/ TakeMode(u)   \/ ModeRefused(u) \/ LockRecord(u) \/ RecordRefused(u)
  \/ UnLckRefused(u) \/ TryAgain(u)  \/ DoneElse(u)   \/ DoneDo(u)
  \/ UnLckEnd(u)

Next == \E u \in Users : Step(u) \/ RunError(u) \/ \E s \in Stmts : Begin(u, s)

Spec == Init /\ [][Next]_vars

(* The interpreter goes on with a statement it has begun; the branches end *)
(* by themselves.                                                          *)
FairSpec == Spec /\ \A u \in Users : WF_vars(Step(u))
-----------------------------------------------------------------------------
TypeOK ==
  /\ opened \in [Users -> SUBSET Files]
  /\ mode   \in [Users -> [Files -> LockMode]]
  /\ recs   \in [Users -> SUBSET (Files \X Records)]
  /\ \A u \in Users, s \in Stmts :
       oldMd[u][s] \in [DOMAIN Code[s].list -> LockMode]
  /\ \A u \in Users : stack[u] \in Seq(Frame)

(* While the do branch of a "with shared" runs, every file of its list is  *)
(* in the mode asked for, and while that of a "with locked" runs its       *)
(* records are locked by this user and by nobody else, whatever statements *)
(* the branch runs (html_help/rejstrik/s.html:264, l.html:375).            *)
HasLock(u, e, op) ==
  IF op = "shared" THEN mode[u][e.file] >= e.md
  ELSE \A v \in Users : <<e.file, e.n>> \in recs[v] <=> v = u

LocksHeldInDo ==
  \A u \in Users : \A k \in DOMAIN stack[u] :
    LET a == stack[u][k]
    IN  a.ph = "do" =>
          \A i \in DOMAIN Code[a.st].list : HasLock(u, Code[a.st].list[i], Code[a.st].op)

HoldsNothing(u) == recs[u] = {} /\ \A f \in Files : mode[u][f] = NullMode

(* "All of them at once or none": a statement that is not inside another   *)
(* one holds nothing while it waits, in its else branch, and when it is    *)
(* over; so no circle of such statements can wait for each other.          *)
AllOrNothing ==
  \A u \in Users :
    stack[u] = <<>> \/ (Len(stack[u]) = 1 /\ (At(u, "wait") \/ At(u, "else")))
      => HoldsNothing(u)

(* A statement that is refused ends its wait as soon as the other users    *)
(* leave their statements: it does not wait for itself.                    *)
Pending(u)     == At(u, "acquire") \/ At(u, "refused") \/ At(u, "wait")
OthersIdle(u)  == \A v \in Users \ {u} : stack[v] = <<>>
DoesNotWaitForItself == \A u \in Users : Pending(u) ~> ~Pending(u) \/ ~OthersIdle(u)

=============================================================================
