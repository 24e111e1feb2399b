------------------------------- MODULE ModeLock -------------------------------
(***************************************************************************)
(* The lock-mode protocol of one shared data file: ChangeLMode and its     *)
(* callers OldLMode, TryLMode and NewLMode (fandio/locks.cpp), at the      *)
(* granularity of the system calls LockFileEx and UnlockFileEx, for any    *)
(* number of users (processes) that have the file open.                    *)
(*                                                                         *)
(* A change of mode is not atomic: under the transition byte TransLock the *)
(* user first gives up the range of its old mode, then tries the new one,  *)
(* and takes the old one back when the new one is held by somebody.        *)
(* Writing and reading the file prefixes around the change is modelled in  *)
(* SharedFile; opening a file without sharing does not lock at all.        *)
(***************************************************************************)
EXTENDS LockModes

CONSTANTS
  Users,                \* the users (processes) that have the file open
  NoUser,               \* "nobody", the owner of a free transition byte
  LanNode,              \* LanNode[u]: station number of u (SET LANNODE=)
  Asked                 \* the lock modes the users ask for

ASSUME ModeLockAssumption ==
  /\ NoUser \notin Users
  /\ LanNode \in [Users -> Nat]
  /\ Asked \subseteq LockMode

(* What the manual asks of the installation: station numbers are unique    *)
(* (html_help/rejstrik/f.html:58) ...                                      *)
UniqueNodes == \A u, v \in Users : LanNode[u] = LanNode[v] => u = v
(* ... and what the ranges of ModeLockBnds can serve: 0 to 254.            *)
NodesInRange == \A u \in Users : LanNode[u] <= Width - 2

VARIABLES
  lmode,                \* lmode[u]: FileD::LMode of u's open file
  held,                 \* held[u]: the mode bytes locked through u's handle
  trans,                \* the user whose handle has TransLock locked
  pc,                   \* pc[u]: where u is inside ChangeLMode
  want,                 \* want[u]: parameter Mode of the call in progress
  kind                  \* kind[u]: parameter Kind: 0 wait, 1 wait until ESC,
                        \*          2 do not wait

vars == <<lmode, held, trans, pc, want, kind>>

Kinds == 0 .. 2

(* Labels of ChangeLMode: before the TransLock attempt, before unlocking   *)
(* the old range, before locking the new one, before taking the old one    *)
(* back, before freeing TransLock after a failure, after it (label2), and  *)
(* before freeing TransLock after a success, before SetLockMode.           *)
Labels == {"idle", "trans", "unlock", "lock", "relock", "failed", "wait",
           "locked", "done"}

Init ==
  /\ lmode = [u \in Users |-> NullMode]
  /\ held  = [u \in Users |-> {}]
  /\ trans = NoUser
  /\ pc    = [u \in Users |-> "idle"]
  /\ want  = [u \in Users |-> NullMode]
  /\ kind  = [u \in Users |-> 0]

Goto(u, l) == pc' = [pc EXCEPT ![u] = l]

(* ChangeLMode returns: its parameters are gone.                           *)
Return(u) ==
  /\ Goto(u, "idle")
  /\ want' = [want EXCEPT ![u] = NullMode]
  /\ kind' = [kind EXCEPT ![u] = 0]

(* The bytes user u locks for mode m.                                      *)
Range(u, m) == ModeLockBnds(m, LanNode[u])

(* LockFileEx fails when a byte of the range is locked by any handle.      *)
IsFree(S) == \A v \in Users : held[v] \cap S = {}

TryLockH(u, S) == IsFree(S) /\ held' = [held EXCEPT ![u] = @ \cup S]
UnLockH(u, S)  == held' = [held EXCEPT ![u] = @ \ S]

(***************************************************************************)
(* The calls.  TryLMode and NewLMode only raise the mode, OldLMode sets    *)
(* any other mode and always waits.                                        *)
(***************************************************************************)
ChangeLMode(u, m, k) ==
  /\ pc[u] = "idle"
  /\ want' = [want EXCEPT ![u] = m]
  /\ kind' = [kind EXCEPT ![u] = k]
  /\ Goto(u, IF m = NullMode THEN "unlock" ELSE "trans")
  /\ UNCHANGED <<lmode, held, trans>>

TryLMode(u, m, k) == m > lmode[u] /\ ChangeLMode(u, m, k)

OldLMode(u, m) == m # lmode[u] /\ ChangeLMode(u, m, 0)

(***************************************************************************)
(* The steps of ChangeLMode.                                               *)
(***************************************************************************)
LockTrans(u) ==
  /\ pc[u] = "trans"
  /\ trans = NoUser
  /\ trans' = u
  /\ Goto(u, "unlock")
  /\ UNCHANGED <<lmode, held, want, kind>>

TransBusy(u) ==
  /\ pc[u] = "trans"
  /\ trans # NoUser
  /\ Goto(u, "wait")
  /\ UNCHANGED <<lmode, held, trans, want, kind>>

UnlockOldRange(u) ==
  /\ pc[u] = "unlock"
  /\ UnLockH(u, Range(u, lmode[u]))
  /\ Goto(u, IF want[u] = NullMode THEN "done" ELSE "lock")
  /\ UNCHANGED <<lmode, trans, want, kind>>

LockNewRange(u) ==
  /\ pc[u] = "lock"
  /\ TryLockH(u, Range(u, want[u]))
  /\ Goto(u, "locked")
  /\ UNCHANGED <<lmode, trans, want, kind>>

(* Mutants: TransLock freed before the old range is taken back; the        *)
(* failure of TryLockH not looked at.                                      *)
FreeTransFirst(u) ==
  /\ pc[u] = "lock"
  /\ ~IsFree(Range(u, want[u]))
  /\ trans' = NoUser
  /\ Goto(u, "relock")
  /\ UNCHANGED <<lmode, held, want, kind>>
FailureIgnored(u) ==
  /\ pc[u] = "lock"
  /\ ~IsFree(Range(u, want[u]))
  /\ Goto(u, "locked")
  /\ UNCHANGED <<lmode, held, trans, want, kind>>

NewRangeBusy(u) ==
  /\ pc[u] = "lock"
  /\ ~IsFree(Range(u, want[u]))
  /\ Goto(u, "relock")
  /\ UNCHANGED <<lmode, held, trans, want, kind>>

(* The result of this TryLockH is not looked at.                           *)
RelockOldRange(u) ==
  /\ pc[u] = "relock"
  /\ \/ TryLockH(u, Range(u, lmode[u]))
     \/ ~IsFree(Range(u, lmode[u])) /\ UNCHANGED held
  /\ Goto(u, "failed")
  /\ UNCHANGED <<lmode, trans, want, kind>>

(* Mutant: TransLock stays locked after a failure.                         *)
TransKept(u) ==
  /\ pc[u] = "failed"
  /\ Goto(u, "wait")
  /\ UNCHANGED <<lmode, held, trans, want, kind>>

UnlockTransFailed(u) ==
  /\ pc[u] = "failed"
  /\ trans' = NoUser
  /\ Goto(u, "wait")
  /\ UNCHANGED <<lmode, held, want, kind>>

UnlockTransLocked(u) ==
  /\ pc[u] = "locked"
  /\ trans' = NoUser
  /\ Goto(u, "done")
  /\ UNCHANGED <<lmode, held, want, kind>>

SetLockMode(u) ==
  /\ pc[u] = "done"
  /\ lmode' = [lmode EXCEPT ![u] = want[u]]
  /\ Return(u)
  /\ UNCHANGED <<held, trans>>

(* label2: WaitForLock lets a waiting call try again ...                   *)
TryAgain(u) ==
  /\ pc[u] = "wait"
  /\ kind[u] # 2
  /\ Goto(u, "trans")
  /\ UNCHANGED <<lmode, held, trans, want, kind>>

(* Mutant: only ESC ends a wait.                                           *)
GiveUpOnEsc(u) ==
  /\ pc[u] = "wait"
  /\ kind[u] = 1
  /\ Return(u)
  /\ UNCHANGED <<lmode, held, trans>>

(* ... and a call that does not wait, or whose user pressed ESC, returns   *)
(* false.                                                                  *)
GiveUp(u) ==
  /\ pc[u] = "wait"
  /\ kind[u] # 0
  /\ Return(u)
  /\ UNCHANGED <<lmode, held, trans>>

(* The process ends or its handle is closed, at any point: the system      *)
(* releases all its byte locks.  The file is opened again with LMode Null  *)
(* (FileD::OpenF1).                                                        *)
Disconnect(u) ==
  /\ lmode' = [lmode EXCEPT ![u] = NullMode]
  /\ held'  = [held EXCEPT ![u] = {}]
  /\ trans' = IF trans = u THEN NoUser ELSE trans
  /\ Return(u)

Call(u) == \E m \in Asked : OldLMode(u, m) \/ \E k \in Kinds : TryLMode(u, m, k)

Step(u) ==
  \/ LockTrans(u)       \/ TransBusy(u)         \/ UnlockOldRange(u)
  \/ LockNewRange(u)    \/ NewRangeBusy(u)      \/ RelockOldRange(u)
  \/ UnlockTransFailed(u) \/ UnlockTransLocked(u) \/ SetLockMode(u)
  \/ TryAgain(u)        \/ GiveUp(u)

Next == \E u \in Users : Call(u) \/ Step(u) \/ Disconnect(u)

Spec == Init /\ [][Next]_vars

(* A call in progress keeps running: ChangeLMode never stops between two   *)
(* system calls, and a waiting call polls again after the net delay.       *)
Fairness == \A u \in Users : WF_vars(Step(u))

FairSpec == Spec /\ Fairness
-----------------------------------------------------------------------------
(***************************************************************************)
(* Properties.                                                             *)
(***************************************************************************)
TypeOK ==
  /\ lmode \in [Users -> LockMode]
  /\ held  \in [Users -> SUBSET Nat]
  /\ trans \in Users \cup {NoUser}
  /\ pc    \in [Users -> Labels]
  /\ want  \in [Users -> LockMode]
  /\ kind  \in [Users -> Kinds]

(* The mode u may rely on, also in the middle of a change: the old one     *)
(* until the new range is locked (or, for Null, the old one is unlocked).  *)
EffectiveMode(u) == IF pc[u] \in {"locked", "done"} THEN want[u] ELSE lmode[u]

(* No two users rely on modes of which one refuses the other, even while   *)
(* a third or one of them is in the middle of a transition                 *)
(* (html_help/rejstrik/t.html, "Tabulka modu blokovani").                  *)
Abs == INSTANCE ModeLockAbs WITH mode <- [u \in Users |-> EffectiveMode(u)]

ModesCompatible == Abs!ModesCompatible

(* The bytes locked through a handle are those of the mode FAND believes   *)
(* it has whenever no change is in progress or one has failed: taking the  *)
(* old range back after a failed attempt never fails, although its result  *)
(* is not looked at (locks.cpp:131).                                       *)
HeldMatchesMode ==
  \A u \in Users :
    pc[u] \in {"idle", "trans", "failed", "wait"} => held[u] = Range(u, lmode[u])

(* Lowering a mode never finds the new range locked: a user that gives up  *)
(* rights can only wait for the transition byte, not for other users.      *)
LoweringNotRefused ==
  \A u \in Users : pc[u] \in {"relock", "failed"} => want[u] > lmode[u]

(* The protocol implements the abstract lock table.                        *)
ImplementsModeLockAbs == Abs!Spec

(* Nobody keeps the transition byte, also when the new range is not free:  *)
(* all other users would be stuck.                                         *)
TransitionEnds == \A u \in Users : trans = u ~> trans # u

(* A call with Kind 2 returns, whatever the other users hold.              *)
NoWaitReturns ==
  \A u \in Users : pc[u] # "idle" /\ kind[u] = 2 ~> pc[u] = "idle"
-----------------------------------------------------------------------------
(***************************************************************************)
(* The inductive invariant behind the safety properties.                   *)
(***************************************************************************)

(* Between getting and freeing TransLock a call owns the byte, and only    *)
(* then.                                                                   *)
InTransition(u) ==
  \/ pc[u] \in {"lock", "relock", "failed", "locked"}
  \/ pc[u] = "unlock" /\ want[u] # NullMode

TransOwned == \A u \in Users : InTransition(u) <=> trans = u

(* A call that asks for a real mode is the only one that gets past the     *)
(* transition byte.                                                        *)
WantsMode ==
  \A u \in Users :
    pc[u] \in {"trans", "lock", "relock", "failed", "locked", "wait"} =>
      want[u] # NullMode

(* The bytes held are those of the old mode, none, or those of the new     *)
(* mode.                                                                   *)
HeldByLabel ==
  \A u \in Users :
    held[u] = CASE pc[u] \in {"lock", "relock"} -> {}
                [] pc[u] \in {"locked", "done"} -> Range(u, want[u])
                [] OTHER -> Range(u, lmode[u])

Compatible(m1, m2) == m1 + m2 <= ExclMode

(* The effective modes go together, that of a user whose range is unlocked *)
(* for the moment included.                                                *)
Exclusion ==
  \A u, v \in Users : u # v => Compatible(EffectiveMode(u), EffectiveMode(v))

IInv ==
  /\ TypeOK
  /\ TransOwned
  /\ WantsMode
  /\ HeldByLabel
  /\ Exclusion
  /\ LoweringNotRefused

=============================================================================
