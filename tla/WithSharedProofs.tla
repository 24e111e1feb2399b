--------------------------- MODULE WithSharedProofs ---------------------------
(***************************************************************************)
(* Proofs about WithShared for every set of users, files, records and      *)
(* statements.  Two users never have one record locked.  When statements   *)
(* do not stand inside each other and no "with shared" names a file twice, *)
(* every do branch has its locks and a statement that waits, runs its else *)
(* branch or is over holds nothing.                                        *)
(***************************************************************************)
EXTENDS WithShared, SequenceTheorems, TLAPS

USE DEF NullMode, RdMode

(***************************************************************************)
(* Types.                                                                  *)
(***************************************************************************)

(* An activation stands at an entry of its list.                           *)
Good == {a \in Frame : a.it \in DOMAIN Code[a.st].list}

OldMds ==
  {o \in [Stmts -> UNION {[DOMAIN Code[s].list -> LockMode] : s \in Stmts}] :
     \A s \in Stmts : o[s] \in [DOMAIN Code[s].list -> LockMode]}

TypeInv ==
  /\ opened \in [Users -> SUBSET Files]
  /\ mode   \in [Users -> [Files -> LockMode]]
  /\ recs   \in [Users -> SUBSET (Files \X Records)]
  /\ oldMd  \in [Users -> OldMds]
  /\ stack  \in [Users -> Seq(Good)]

(* Lists of statements and their entries.                                  *)
LEMMA CodeTypes ==
  ASSUME NEW s \in Stmts
  PROVE  /\ Code[s].list \in Seq(Entry) /\ Len(Code[s].list) \in Nat \ {0}
         /\ DOMAIN Code[s].list = 1 .. Len(Code[s].list)
         /\ 1 \in DOMAIN Code[s].list
         /\ \A i \in DOMAIN Code[s].list : Code[s].list[i] \in Entry
<1>1. Code[s].list \in Seq(Entry) /\ Code[s].list # <<>>
  BY WithSharedAssumption DEF IsCode
<1>. QED  BY <1>1

(* The innermost activation.                                               *)
LEMMA HeadTypes ==
  ASSUME TypeInv, NEW u \in Users, stack[u] # <<>>
  PROVE  /\ Head(stack[u]) \in Good /\ Tail(stack[u]) \in Seq(Good)
         /\ Stmt(u) \in Stmts /\ It(u) \in DOMAIN List(u) /\ Cur(u) \in Entry
         /\ Cur(u).file \in Files /\ Cur(u).md \in LockMode /\ Cur(u).n \in Records
         /\ Head(stack[u]).ph \in Phases
<1>1. Head(stack[u]) \in Good /\ Tail(stack[u]) \in Seq(Good)
  BY DEF TypeInv
<1>2. Stmt(u) \in Stmts /\ It(u) \in DOMAIN List(u) /\ Head(stack[u]).ph \in Phases
  BY <1>1 DEF Good, Frame, Stmt, It, List
<1>3. Cur(u) \in Entry
  BY <1>2, CodeTypes DEF Cur, List
<1>. QED  BY <1>1, <1>2, <1>3 DEF Entry

(* Where the interpreter goes on.                                          *)
LEMMA GotoTypes ==
  ASSUME TypeInv, NEW u \in Users, stack[u] # <<>>,
         NEW i \in DOMAIN List(u), NEW ph \in Phases, Goto(u, i, ph)
  PROVE  /\ stack' \in [Users -> Seq(Good)]
         /\ stack'[u] = <<[st |-> Stmt(u), it |-> i, ph |-> ph]>> \o Tail(stack[u])
<1>. DEFINE new == [st |-> Stmt(u), it |-> i, ph |-> ph]
<1>1. new \in Good
  <2>1. Stmt(u) \in Stmts /\ i \in Nat \ {0}
    BY HeadTypes, CodeTypes DEF List
  <2>. QED  BY <2>1 DEF Good, Frame, List
<1>. HIDE DEF new
<1>2. <<new>> \o Tail(stack[u]) \in Seq(Good)
  BY <1>1, HeadTypes
<1>3. stack' = [stack EXCEPT ![u] = <<new>> \o Tail(stack[u])]
  BY DEF Goto, new
<1>4. stack' \in [Users -> Seq(Good)] /\ stack'[u] = <<new>> \o Tail(stack[u])
  BY <1>2, <1>3 DEF TypeInv
<1>. QED  BY <1>4 DEF new

(* The loops keep the stack well typed.                                    *)
LEMMA NextEntryTypes ==
  ASSUME TypeInv, NEW u \in Users, stack[u] # <<>>, NEW ph \in Phases, NextEntry(u, ph)
  PROVE  stack' \in [Users -> Seq(Good)]
<1>1. It(u) \in 1 .. Len(List(u)) /\ 1 \in DOMAIN List(u) /\ DOMAIN List(u) = 1 .. Len(List(u))
      /\ Len(List(u)) \in Nat
  BY HeadTypes, CodeTypes DEF List
<1>2. CASE It(u) < Len(List(u))
  <2>1. It(u) + 1 \in DOMAIN List(u)
    BY <1>1, <1>2
  <2>2. PICK i \in DOMAIN List(u) : i = It(u) + 1
    BY <2>1, Zenon
  <2>3. PICK p \in Phases : p = Head(stack[u]).ph
    BY HeadTypes
  <2>4. Goto(u, i, p)
    BY <1>2, <2>2, <2>3, Zenon DEF NextEntry
  <2>. QED  BY <2>4, GotoTypes
<1>3. CASE ~ (It(u) < Len(List(u)))
  BY <1>1, <1>3, GotoTypes DEF NextEntry
<1>. QED  BY <1>2, <1>3

(* So does the end of a statement.                                         *)
LEMMA ReturnTypes ==
  ASSUME TypeInv, NEW u \in Users, stack[u] # <<>>, Return(u)
  PROVE  stack' \in [Users -> Seq(Good)]
BY HeadTypes DEF Return, TypeInv

(* An activation that begins.                                              *)
LEMMA FirstFrame ==
  ASSUME NEW s \in Stmts
  PROVE  [st |-> s, it |-> 1, ph |-> "acquire"] \in Good
<1>1. 1 \in DOMAIN Code[s].list
  BY CodeTypes
<1>. QED  BY <1>1 DEF Good, Frame, Phases

(* No mode is saved.                                                       *)
LEMMA NoOldMds ==
  [s \in Stmts |-> [i \in DOMAIN Code[s].list |-> NullMode]] \in OldMds
<1>. DEFINE old(s) == [i \in DOMAIN Code[s].list |-> NullMode]
<1>1. ASSUME NEW s \in Stmts PROVE old(s) \in [DOMAIN Code[s].list -> LockMode]
  BY DEF LockMode, ExclMode
<1>2. \A s \in Stmts : old(s) \in UNION {[DOMAIN Code[t].list -> LockMode] : t \in Stmts}
  BY <1>1
<1>. HIDE DEF old
<1>3. [s \in Stmts |-> old(s)] \in OldMds
  BY <1>1, <1>2 DEF OldMds
<1>. QED  BY <1>3 DEF old

(* A noted mode is a lock mode.                                            *)
LEMMA SaveTypes ==
  ASSUME TypeInv, NEW u \in Users, stack[u] # <<>>, SaveMode(u)
  PROVE  oldMd' \in [Users -> OldMds]
<1>. DEFINE md  == mode[u][Cur(u).file]
            old == oldMd[u]
            new == [old EXCEPT ![Stmt(u)][It(u)] = md]
<1>1. md \in LockMode /\ old \in OldMds /\ Stmt(u) \in Stmts /\ It(u) \in DOMAIN Code[Stmt(u)].list
  BY HeadTypes DEF TypeInv, List
<1>2. oldMd' = [oldMd EXCEPT ![u] = new]
  BY DEF SaveMode
<1>3. new \in OldMds
  BY <1>1 DEF OldMds
<1>. QED  BY <1>2, <1>3 DEF TypeInv

(***************************************************************************)
(* Every step keeps the types, and records stay with one user.             *)
(***************************************************************************)
RecordsExclusive == \A u, v \in Users : u # v => recs[u] \cap recs[v] = {}

UserStep(u) == Step(u) \/ RunError(u) \/ \E s \in Stmts : Begin(u, s)

(* The effect of UnLck on one entry.                                       *)
LEMMA UnLckTypes ==
  ASSUME TypeInv, NEW u \in Users, stack[u] # <<>>, UnLckEntry(u) \/ UnLckNotOpen(u)
  PROVE  /\ mode' \in [Users -> [Files -> LockMode]]
         /\ recs' \in [Users -> SUBSET (Files \X Records)]
         /\ recs'[u] \subseteq recs[u] /\ \A v \in Users \ {u} : recs'[v] = recs[v]
<1>1. CASE UnLckEntry(u)
  <2>1. oldMd[u][Stmt(u)][It(u)] \in LockMode
    <3>1. oldMd[u] \in OldMds /\ Stmt(u) \in Stmts /\ It(u) \in DOMAIN Code[Stmt(u)].list
      BY HeadTypes DEF TypeInv, List
    <3>2. oldMd[u][Stmt(u)] \in [DOMAIN Code[Stmt(u)].list -> LockMode]
      BY <3>1 DEF OldMds
    <3>. QED  BY <3>1, <3>2
  <2>2. mode' \in [Users -> [Files -> LockMode]]
    BY <1>1, <2>1, HeadTypes DEF UnLckEntry, SetMode, TypeInv
  <2>3. recs' = [recs EXCEPT ![u] = recs[u] \ {<<Cur(u).file, Cur(u).n>>}] \/ recs' = recs
    BY <1>1 DEF UnLckEntry, TypeInv
  <2>. QED  BY <2>2, <2>3 DEF TypeInv
<1>2. CASE UnLckNotOpen(u)
  BY <1>2 DEF UnLckNotOpen, TypeInv
<1>. QED  BY <1>1, <1>2

(* A step of u leaves what belongs to the others alone.                    *)
OnlyOwn(u) ==
  \A v \in Users \ {u} :
    /\ opened'[v] = opened[v] /\ mode'[v] = mode[v] /\ recs'[v] = recs[v]
    /\ oldMd'[v] = oldMd[v] /\ stack'[v] = stack[v]

(* No action writes what belongs to another user.                          *)
LEMMA OwnStep ==
  ASSUME TypeInv, NEW u \in Users, UserStep(u)
  PROVE  OnlyOwn(u)
<1>. USE DEF TypeInv, OnlyOwn, Goto, NextEntry, Return, SetMode, SaveMode, UnLckEntry, UnLckNotOpen
<1>1. CASE OpenFile(u)
  BY <1>1 DEF OpenFile
<1>2. CASE Opened(u)
  BY <1>2 DEF Opened
<1>3. CASE OpenRefused(u)
  BY <1>3 DEF OpenRefused
<1>4. CASE TakeMode(u)
  BY <1>4 DEF TakeMode
<1>5. CASE ModeRefused(u)
  BY <1>5 DEF ModeRefused
<1>6. CASE LockRecord(u)
  BY <1>6 DEF LockRecord
<1>7. CASE RecordRefused(u)
  BY <1>7 DEF RecordRefused
<1>8. CASE UnLckRefused(u)
  BY <1>8 DEF UnLckRefused
<1>9. CASE TryAgain(u)
  BY <1>9 DEF TryAgain
<1>10. CASE DoneElse(u)
  BY <1>10 DEF DoneElse
<1>11. CASE DoneDo(u)
  BY <1>11 DEF DoneDo
<1>12. CASE UnLckEnd(u)
  BY <1>12 DEF UnLckEnd
<1>13. CASE RunError(u)
  BY <1>13 DEF RunError
<1>14. CASE \E s \in Stmts : Begin(u, s)
  BY <1>14 DEF Begin
<1>. QED  BY <1>1, <1>2, <1>3, <1>4, <1>5, <1>6, <1>7, <1>8, <1>9, <1>10, <1>11, <1>12, <1>13, <1>14 DEF UserStep, Step

(* One case per action: the types are kept.                                *)
LEMMA TypeStepOf ==
  ASSUME TypeInv, NEW u \in Users, UserStep(u)
  PROVE  TypeInv'
<1>1. CASE OpenFile(u)
  <2>1. stack[u] # <<>>
    BY <1>1 DEF OpenFile, At
  <2>2. 1 \in DOMAIN List(u) /\ It(u) \in DOMAIN List(u)
    BY <2>1, HeadTypes, CodeTypes DEF List
  <2>3. stack' \in [Users -> Seq(Good)]
    BY <1>1, <2>1, GotoTypes, HeadTypes DEF OpenFile, Phases
  <2>4. NullMode \in LockMode /\ RdMode \in LockMode
    BY DEF LockMode, ExclMode
  <2>. QED  BY <1>1, <2>1, <2>3, <2>4, HeadTypes DEF OpenFile, TypeInv, SetMode
<1>2. CASE Opened(u)
  <2>1. stack[u] # <<>>
    BY <1>2 DEF Opened, At
  <2>2. 1 \in DOMAIN List(u) /\ It(u) \in DOMAIN List(u)
    BY <2>1, HeadTypes, CodeTypes DEF List
  <2>3. stack' \in [Users -> Seq(Good)]
    BY <1>2, <2>1, GotoTypes, HeadTypes DEF Opened, Phases
  <2>4. NullMode \in LockMode /\ RdMode \in LockMode
    BY DEF LockMode, ExclMode
  <2>. QED  BY <1>2, <2>1, <2>3, <2>4, HeadTypes DEF Opened, TypeInv, SetMode
<1>3. CASE OpenRefused(u)
  <2>1. stack[u] # <<>>
    BY <1>3 DEF OpenRefused, At
  <2>2. 1 \in DOMAIN List(u) /\ It(u) \in DOMAIN List(u)
    BY <2>1, HeadTypes, CodeTypes DEF List
  <2>3. stack' \in [Users -> Seq(Good)]
    BY <1>3, <2>1, GotoTypes, <2>2 DEF OpenRefused, Phases
  <2>. QED  BY <1>3, <2>1, <2>3, HeadTypes DEF OpenRefused, TypeInv
<1>4. CASE TakeMode(u)
  <2>1. stack[u] # <<>>
    BY <1>4 DEF TakeMode, At
  <2>2. 1 \in DOMAIN List(u) /\ It(u) \in DOMAIN List(u)
    BY <2>1, HeadTypes, CodeTypes DEF List
  <2>3. stack' \in [Users -> Seq(Good)]
    BY <1>4, <2>1, NextEntryTypes DEF TakeMode, Phases
  <2>4. oldMd' \in [Users -> OldMds]
    BY <1>4, <2>1, SaveTypes DEF TakeMode
  <2>5. mode' \in [Users -> [Files -> LockMode]]
    <3>1. Cur(u).file \in Files /\ Cur(u).md \in LockMode
      BY <2>1, HeadTypes
    <3>2. CASE SetMode(u, Cur(u).file, Cur(u).md)
      BY <3>1, <3>2 DEF SetMode, TypeInv
    <3>3. CASE mode' = mode
      BY <3>3 DEF TypeInv
    <3>. QED  BY <1>4, <3>2, <3>3 DEF TakeMode
  <2>. QED  BY <1>4, <2>3, <2>4, <2>5 DEF TakeMode, TypeInv
<1>5. CASE ModeRefused(u)
  <2>1. stack[u] # <<>>
    BY <1>5 DEF ModeRefused, At
  <2>2. 1 \in DOMAIN List(u) /\ It(u) \in DOMAIN List(u)
    BY <2>1, HeadTypes, CodeTypes DEF List
  <2>3. stack' \in [Users -> Seq(Good)]
    BY <1>5, <2>1, GotoTypes, <2>2 DEF ModeRefused, Phases
  <2>4. oldMd' \in [Users -> OldMds]
    BY <1>5, <2>1, SaveTypes DEF ModeRefused
  <2>. QED  BY <1>5, <2>1, <2>3, <2>4, HeadTypes DEF ModeRefused, TypeInv, SetMode
<1>6. CASE LockRecord(u)
  <2>1. stack[u] # <<>>
    BY <1>6 DEF LockRecord, At
  <2>2. 1 \in DOMAIN List(u) /\ It(u) \in DOMAIN List(u)
    BY <2>1, HeadTypes, CodeTypes DEF List
  <2>3. stack' \in [Users -> Seq(Good)]
    BY <1>6, <2>1, NextEntryTypes DEF LockRecord, Phases
  <2>4. PICK r \in Files \X Records : r = <<Cur(u).file, Cur(u).n>>
    BY <2>1, HeadTypes
  <2>5. recs' = [recs EXCEPT ![u] = recs[u] \cup {r}]
    BY <1>6, <2>4, Zenon DEF LockRecord
  <2>6. recs' \in [Users -> SUBSET (Files \X Records)]
    BY <2>5 DEF TypeInv
  <2>. QED  BY <1>6, <2>3, <2>6 DEF LockRecord, TypeInv
<1>7. CASE RecordRefused(u)
  <2>1. stack[u] # <<>>
    BY <1>7 DEF RecordRefused, At
  <2>2. 1 \in DOMAIN List(u) /\ It(u) \in DOMAIN List(u)
    BY <2>1, HeadTypes, CodeTypes DEF List
  <2>3. stack' \in [Users -> Seq(Good)]
    BY <1>7, <2>1, GotoTypes, <2>2 DEF RecordRefused, Phases
  <2>. QED  BY <1>7, <2>1, <2>3, HeadTypes DEF RecordRefused, TypeInv
<1>8. CASE UnLckRefused(u)
  <2>1. stack[u] # <<>>
    BY <1>8 DEF UnLckRefused, At
  <2>2. 1 \in DOMAIN List(u) /\ It(u) \in DOMAIN List(u)
    BY <2>1, HeadTypes, CodeTypes DEF List
  <2>3. stack' \in [Users -> Seq(Good)]
    <3>1. PICK p \in Phases : p = IF Code[Stmt(u)].else THEN "else" ELSE "wait"
      BY DEF Phases
    <3>2. NextEntry(u, p)
      BY <1>8, <3>1, Zenon DEF UnLckRefused
    <3>. QED  BY <2>1, <3>2, NextEntryTypes
  <2>. QED  BY <1>8, <2>1, <2>3, UnLckTypes DEF UnLckRefused, TypeInv
<1>9. CASE TryAgain(u)
  <2>1. stack[u] # <<>>
    BY <1>9 DEF TryAgain, At
  <2>2. 1 \in DOMAIN List(u) /\ It(u) \in DOMAIN List(u)
    BY <2>1, HeadTypes, CodeTypes DEF List
  <2>3. stack' \in [Users -> Seq(Good)]
    BY <1>9, <2>1, GotoTypes, <2>2 DEF TryAgain, Phases
  <2>. QED  BY <1>9, <2>1, <2>3, HeadTypes DEF TryAgain, TypeInv
<1>10. CASE DoneElse(u)
  <2>1. stack[u] # <<>>
    BY <1>10 DEF DoneElse, At
  <2>2. 1 \in DOMAIN List(u) /\ It(u) \in DOMAIN List(u)
    BY <2>1, HeadTypes, CodeTypes DEF List
  <2>3. stack' \in [Users -> Seq(Good)]
    BY <1>10, <2>1, ReturnTypes DEF DoneElse, Phases
  <2>. QED  BY <1>10, <2>1, <2>3, HeadTypes DEF DoneElse, TypeInv
<1>11. CASE DoneDo(u)
  <2>1. stack[u] # <<>>
    BY <1>11 DEF DoneDo, At
  <2>2. 1 \in DOMAIN List(u) /\ It(u) \in DOMAIN List(u)
    BY <2>1, HeadTypes, CodeTypes DEF List
  <2>3. stack' \in [Users -> Seq(Good)]
    BY <1>11, <2>1, GotoTypes, <2>2 DEF DoneDo, Phases
  <2>. QED  BY <1>11, <2>1, <2>3, HeadTypes DEF DoneDo, TypeInv
<1>12. CASE UnLckEnd(u)
  <2>1. stack[u] # <<>>
    BY <1>12 DEF UnLckEnd, At
  <2>2. 1 \in DOMAIN List(u) /\ It(u) \in DOMAIN List(u)
    BY <2>1, HeadTypes, CodeTypes DEF List
  <2>3. stack' \in [Users -> Seq(Good)]
    <3>1. CASE It(u) < Len(List(u))
      <4>1. PICK i \in DOMAIN List(u) : i = It(u) + 1
        BY <2>1, <2>2, <3>1, HeadTypes, CodeTypes DEF List
      <4>2. Goto(u, i, "end")
        BY <1>12, <3>1, <4>1 DEF UnLckEnd
      <4>. QED  BY <2>1, <4>2, GotoTypes DEF Phases
    <3>2. CASE ~ (It(u) < Len(List(u)))
      BY <1>12, <2>1, <3>2, ReturnTypes DEF UnLckEnd
    <3>. QED  BY <3>1, <3>2
  <2>. QED  BY <1>12, <2>1, <2>3, UnLckTypes DEF UnLckEnd, TypeInv
<1>13. CASE RunError(u)
  <2>1. NullMode \in LockMode
    BY DEF LockMode, ExclMode
  <2>2. PICK o \in OldMds : o = [s \in Stmts |-> [i \in DOMAIN Code[s].list |-> NullMode]]
    BY NoOldMds
  <2>3. oldMd' = [oldMd EXCEPT ![u] = o]
    BY <1>13, <2>2, Zenon DEF RunError
  <2>4. PICK none \in [Files -> LockMode] : none = [f \in Files |-> NullMode]
    BY <2>1
  <2>5. mode' = [mode EXCEPT ![u] = none]
    BY <1>13, <2>4, Zenon DEF RunError
  <2>6. PICK no \in Seq(Good) : no = <<>>
    BY EmptySeq
  <2>7. stack' = [stack EXCEPT ![u] = no] /\ opened' = [opened EXCEPT ![u] = {}]
        /\ recs' = [recs EXCEPT ![u] = {}]
    BY <1>13, <2>6, Zenon DEF RunError
  <2>8. opened' \in [Users -> SUBSET Files] /\ recs' \in [Users -> SUBSET (Files \X Records)]
    BY <2>7 DEF TypeInv
  <2>. QED  BY <2>3, <2>5, <2>7, <2>8 DEF TypeInv
<1>14. CASE \E s \in Stmts : Begin(u, s)
  <2>1. PICK s \in Stmts : Begin(u, s)
    BY <1>14
  <2>2. PICK a \in Good : a = [st |-> s, it |-> 1, ph |-> "acquire"]
    BY FirstFrame
  <2>3. stack' = [stack EXCEPT ![u] = <<a>> \o stack[u]]
    BY <2>1, <2>2 DEF Begin
  <2>4. <<a>> \o stack[u] \in Seq(Good)
    BY DEF TypeInv
  <2>. QED  BY <2>1, <2>3, <2>4 DEF Begin, TypeInv
<1>. QED  BY <1>1, <1>2, <1>3, <1>4, <1>5, <1>6, <1>7, <1>8, <1>9, <1>10, <1>11, <1>12, <1>13, <1>14 DEF UserStep, Step

(* Every step is the step of one user.                                     *)
LEMMA NextIsUserStep ==
  ASSUME Next PROVE \E u \in Users : UserStep(u)
BY DEF Next, UserStep

(* The initial state has the types.                                        *)
LEMMA InitTypes == Init => TypeInv
<1>. SUFFICES ASSUME Init PROVE TypeInv
  OBVIOUS
<1>1. PICK o \in OldMds : o = [s \in Stmts |-> [i \in DOMAIN Code[s].list |-> NullMode]]
  BY NoOldMds
<1>2. oldMd = [u \in Users |-> o]
  BY <1>1, Zenon DEF Init
<1>3. stack \in [Users -> Seq(Good)]
  BY EmptySeq DEF Init
<1>4. mode \in [Users -> [Files -> LockMode]]
  BY DEF Init, LockMode, ExclMode
<1>. QED  BY <1>2, <1>3, <1>4 DEF TypeInv, Init

(* The types hold in every state.                                          *)
LEMMA TypeInvariance == Spec => []TypeInv
<1>1. TypeInv /\ UNCHANGED vars => TypeInv'
  BY DEF TypeInv, vars
<1>2. TypeInv /\ [Next]_vars => TypeInv'
  BY <1>1, NextIsUserStep, TypeStepOf
<1>. QED  BY InitTypes, <1>2, PTL DEF Spec

(* They are stronger than TypeOK.                                          *)
LEMMA TypeInvImplies == TypeInv => TypeOK
<1>. SUFFICES ASSUME TypeInv PROVE TypeOK
  OBVIOUS
<1>1. \A u \in Users, s \in Stmts : oldMd[u][s] \in [DOMAIN Code[s].list -> LockMode]
  BY DEF TypeInv, OldMds
<1>2. \A u \in Users : stack[u] \in Seq(Frame)
  <2>1. Good \subseteq Frame
    BY DEF Good
  <2>. QED  BY <2>1 DEF TypeInv
<1>. QED  BY <1>1, <1>2 DEF TypeInv, TypeOK

(* Every state has the declared types, whatever statements are nested and  *)
(* interrupted; TypeInv adds that an activation stands at an entry of its  *)
(* list, so that no loop of WithLockedProc and UnLck leaves its list.      *)
THEOREM TypeCorrect == Spec => []TypeOK
BY TypeInvariance, TypeInvImplies, PTL

(* A step takes at most one record, which nobody has.                      *)
LEMMA RecordStep ==
  ASSUME TypeInv, NEW u \in Users, UserStep(u)
  PROVE  \A r \in recs'[u] : r \in recs[u] \/ \A v \in Users : r \notin recs[v]
<1>1. CASE LockRecord(u)
  BY <1>1 DEF LockRecord, IsLocked, TypeInv
<1>2. CASE UnLckRefused(u) \/ UnLckEnd(u)
  <2>1. stack[u] # <<>> /\ (UnLckEntry(u) \/ UnLckNotOpen(u))
    BY <1>2 DEF UnLckRefused, UnLckEnd, At
  <2>. QED  BY <2>1, UnLckTypes
<1>3. CASE RunError(u)
  BY <1>3 DEF RunError, TypeInv
<1>4. CASE recs' = recs
  BY <1>4
<1>5. \/ LockRecord(u) \/ UnLckRefused(u) \/ UnLckEnd(u) \/ RunError(u)
      \/ recs' = recs
  BY DEF UserStep, Step, OpenFile, Opened, OpenRefused, TakeMode, ModeRefused,
         RecordRefused, TryAgain, DoneElse, DoneDo, Begin
<1>. QED  BY <1>1, <1>2, <1>3, <1>4, <1>5

(* Two users never have the same record locked, whatever the procedure     *)
(* nests and however it is left.                                           *)
THEOREM RecordsApart == Spec => []RecordsExclusive
<1>1. Init => RecordsExclusive
  BY DEF Init, RecordsExclusive
<1>2. ASSUME TypeInv, RecordsExclusive, [Next]_vars PROVE RecordsExclusive'
  <2>1. CASE UNCHANGED vars
    BY <1>2, <2>1 DEF RecordsExclusive, vars
  <2>2. CASE Next
    <3>1. PICK u \in Users : UserStep(u)
      BY <2>2, NextIsUserStep
    <3>2. \A r \in recs'[u] : r \in recs[u] \/ \A v \in Users : r \notin recs[v]
      BY <1>2, <3>1, RecordStep
    <3>3. \A v \in Users \ {u} : recs'[v] = recs[v]
      BY <1>2, <3>1, OwnStep DEF OnlyOwn
    <3>. QED  BY <1>2, <3>2, <3>3 DEF RecordsExclusive
  <2>. QED  BY <1>2, <2>1, <2>2
<1>. QED  BY <1>1, <1>2, TypeInvariance, PTL DEF Spec

(***************************************************************************)
(* Statements that do not stand inside each other.  A nested one may take  *)
(* a mode or a record from the statement around it: UnLck sets every file  *)
(* of the list to its saved mode, also of entries that were not reached.   *)
(***************************************************************************)
FlatCode ==
  \A s \in Stmts :
    /\ Code[s].in = NoStmt
    /\ Code[s].op = "shared" =>
         \A i, j \in DOMAIN Code[s].list :
           Code[s].list[i].file = Code[s].list[j].file => i = j

Shared(a) == Code[a.st].op = "shared"
EntryOf(a, j) == Code[a.st].list[j]
Rec(a, j) == <<EntryOf(a, j).file, EntryOf(a, j).n>>

(* The entries whose locks activation a has, and those it may have.        *)
Must(a) ==
  {j \in DOMAIN Code[a.st].list :
     a.ph = "do" \/ (a.ph \in {"acquire", "opening"} /\ j < a.it)}
May(a) ==
  {j \in DOMAIN Code[a.st].list :
     j \in Must(a) \/ (a.ph \in {"refused", "end"} /\ j >= a.it)}

(* A user in activation a with the modes m, the open files o and the       *)
(* records r.                                                              *)
HeldModes(a, m, o) ==
  \A f \in Files : m[f] # NullMode =>
    /\ f \in o
    /\ \/ Shared(a) /\ \E j \in May(a) : EntryOf(a, j).file = f
       \/ a.ph = "opening" /\ f = EntryOf(a, a.it).file
HeldRecs(a, r, o) ==
  \/ r = {}
  \/ /\ ~Shared(a)
     /\ \A x \in r : \E j \in May(a) : x = Rec(a, j) /\ EntryOf(a, j).file \in o
Taken(a, m, r) ==
  \A j \in Must(a) : IF Shared(a) THEN m[EntryOf(a, j).file] >= EntryOf(a, j).md
                                  ELSE Rec(a, j) \in r

Running(u, a) ==
  /\ stack[u] = <<a>>
  /\ HeldModes(a, mode[u], opened[u])
  /\ HeldRecs(a, recs[u], opened[u])
  /\ Taken(a, mode[u], recs[u])

NothingSaved(u) ==
  \A s \in Stmts : \A i \in DOMAIN Code[s].list : oldMd[u][s][i] = NullMode

FlatInv(u) ==
  /\ NothingSaved(u)
  /\ \/ stack[u] = <<>> /\ HoldsNothing(u)
     \/ \E a \in Good : Running(u, a)

(* The names of the model for an activation that is alone on the stack.    *)
LEMMA Alone ==
  ASSUME TypeInv, NEW u \in Users, NEW a \in Good, stack[u] = <<a>>
  PROVE  /\ stack[u] # <<>> /\ Stmt(u) = a.st /\ It(u) = a.it /\ Cur(u) = EntryOf(a, a.it)
         /\ List(u) = Code[a.st].list /\ Tail(stack[u]) = <<>> /\ Head(stack[u]) = a
         /\ \A ph : At(u, ph) <=> a.ph = ph
         /\ a.st \in Stmts /\ a.it \in DOMAIN Code[a.st].list /\ a.ph \in Phases
         /\ a.it \in Nat
<1>1. stack[u] # <<>> /\ Head(stack[u]) = a /\ Tail(stack[u]) = <<>>
  OBVIOUS
<1>2. a.st \in Stmts /\ a.it \in DOMAIN Code[a.st].list /\ a.ph \in Phases /\ a.it \in Nat
  BY DEF Good, Frame
<1>. QED  BY <1>1, <1>2 DEF Stmt, It, Cur, EntryOf, List, At

(* Its activation goes to entry i with phase ph.                           *)
LEMMA AloneGoto ==
  ASSUME TypeInv, NEW u \in Users, NEW a \in Good, stack[u] = <<a>>,
         NEW i \in DOMAIN Code[a.st].list, NEW ph \in Phases, Goto(u, i, ph)
  PROVE  \E b \in Good : b.st = a.st /\ b.it = i /\ b.ph = ph /\ stack'[u] = <<b>>
<1>1. PICK b \in Good : b = [st |-> a.st, it |-> i, ph |-> ph]
  <2>1. a.st \in Stmts /\ i \in Nat \ {0}
    BY Alone, CodeTypes
  <2>. QED  BY <2>1 DEF Good, Frame
<1>2. stack' = [stack EXCEPT ![u] = <<b>> \o <<>>]
  BY <1>1, Alone, Zenon DEF Goto
<1>3. stack'[u] = <<b>>
  BY <1>2 DEF TypeInv
<1>. QED  BY <1>1, <1>3

(* Steps that only move on.                                                *)
LEMMA MoveOnly ==
  ASSUME NEW u \in Users, NEW a \in Good, NEW b \in Good, Running(u, a), stack'[u] = <<b>>,
         mode'[u] = mode[u], recs'[u] = recs[u], opened'[u] = opened[u],
         b.st = a.st, a.ph # "opening", May(a) \subseteq May(b), Must(b) \subseteq Must(a)
  PROVE  Running(u, b)'
<1>1. HeldModes(b, mode[u], opened[u])
  BY DEF Running, HeldModes, Shared, EntryOf
<1>2. HeldRecs(b, recs[u], opened[u])
  BY DEF Running, HeldRecs, Shared, EntryOf, Rec
<1>3. Taken(b, mode[u], recs[u])
  BY DEF Running, Taken, Shared, EntryOf, Rec
<1>. QED  BY <1>1, <1>2, <1>3 DEF Running, HeldModes, HeldRecs, Taken, Shared, EntryOf, Rec, May, Must

(* What an activation may hold and must hold, by where it is.              *)
LEMMA MustMay ==
  ASSUME NEW a \in Good
  PROVE  LET L == DOMAIN Code[a.st].list IN
         /\ a.ph \in {"acquire", "opening"} =>
              Must(a) = {j \in L : j < a.it} /\ May(a) = {j \in L : j < a.it}
         /\ a.ph = "do" => Must(a) = L /\ May(a) = L
         /\ a.ph \in {"refused", "end"} => Must(a) = {} /\ May(a) = {j \in L : j >= a.it}
         /\ a.ph \in {"wait", "else"} => Must(a) = {} /\ May(a) = {}
         /\ a.it = 1 /\ a.ph \in {"refused", "end"} => May(a) = L
         /\ a.it = 1 /\ a.ph = "acquire" => Must(a) = {}
         /\ L = 1 .. Len(Code[a.st].list) /\ 1 \in L /\ a.it \in L
         /\ Len(Code[a.st].list) \in Nat
<1>1. a.st \in Stmts /\ a.it \in DOMAIN Code[a.st].list
  BY DEF Good, Frame
<1>2. /\ DOMAIN Code[a.st].list = 1 .. Len(Code[a.st].list) /\ 1 \in DOMAIN Code[a.st].list
      /\ Len(Code[a.st].list) \in Nat
  BY <1>1, CodeTypes
<1>. QED  BY <1>1, <1>2 DEF May, Must

(* Nothing is held: no entry may have a lock.                              *)
LEMMA NothingHeld ==
  ASSUME NEW u \in Users, NEW a \in Good, Running(u, a), May(a) = {}, a.ph # "opening"
  PROVE  HoldsNothing(u)
BY DEF Running, HeldModes, HeldRecs, HoldsNothing

(* A statement that begins holds nothing yet.                              *)
LEMMA FlatBegin ==
  ASSUME TypeInv, NEW u \in Users, NEW s \in Stmts, stack[u] = <<>>, HoldsNothing(u), Begin(u, s)
  PROVE  \E b \in Good : Running(u, b)'
<1>1. PICK b \in Good : b = [st |-> s, it |-> 1, ph |-> "acquire"]
  BY FirstFrame
<1>2. stack' = [stack EXCEPT ![u] = <<b>> \o stack[u]]
  BY <1>1 DEF Begin
<1>3. stack'[u] = <<b>>
  BY <1>2 DEF TypeInv
<1>4. mode' = mode /\ recs' = recs /\ opened' = opened
  BY DEF Begin
<1>5. Must(b) = {}
  BY <1>1, MustMay
<1>6. Running(u, b)'
  BY <1>3, <1>4, <1>5 DEF Running, HeldModes, HeldRecs, Taken, HoldsNothing, Must
<1>. QED  BY <1>6

(* Opening a file.                                                         *)
LEMMA FlatOpen ==
  ASSUME TypeInv, NEW u \in Users, NEW a \in Good, Running(u, a), OpenFile(u)
  PROVE  \E b \in Good : Running(u, b)'
<1>. DEFINE f == EntryOf(a, a.it).file
<1>1. stack[u] = <<a>>
  BY DEF Running
<1>2. a.ph = "acquire" /\ f \notin opened[u] /\ f \in Files
      /\ opened' = [opened EXCEPT ![u] = opened[u] \cup {f}]
      /\ mode' = [mode EXCEPT ![u][f] = RdMode] /\ recs' = recs
  BY <1>1, Alone, HeadTypes DEF OpenFile, SetMode
<1>3. Goto(u, a.it, "opening")
  BY <1>1, Alone DEF OpenFile
<1>4. PICK b \in Good : b.st = a.st /\ b.it = a.it /\ b.ph = "opening" /\ stack'[u] = <<b>>
  BY <1>1, <1>3, Alone, AloneGoto DEF Phases
<1>5. May(b) = May(a) /\ Must(b) = Must(a) /\ Must(a) = May(a)
  BY <1>2, <1>4, MustMay
<1>6. /\ opened'[u] = opened[u] \cup {f} /\ recs'[u] = recs[u]
      /\ \A g \in Files : mode'[u][g] = IF g = f THEN RdMode ELSE mode[u][g]
  BY <1>2 DEF TypeInv
<1>. HIDE DEF f
<1>7. HeldModes(b, mode[u]', opened[u]')
  <2>1. f = EntryOf(b, b.it).file
    BY <1>4 DEF f, EntryOf
  <2>. QED  BY <1>2, <1>4, <1>5, <1>6, <2>1 DEF HeldModes, Running, Shared, EntryOf
<1>8. HeldRecs(b, recs[u]', opened[u]')
  BY <1>4, <1>5, <1>6 DEF HeldRecs, Running, Shared, EntryOf, Rec
<1>9. Taken(b, mode[u]', recs[u]')
  <2>1. ASSUME NEW j \in Must(a), Shared(a) PROVE mode'[u][EntryOf(a, j).file] >= EntryOf(a, j).md
    <3>1. EntryOf(a, j).file \in Files /\ EntryOf(a, j).md \in LockMode \ {NullMode}
      BY <1>1, Alone, CodeTypes DEF Must, EntryOf, Entry
    <3>2. mode[u][EntryOf(a, j).file] >= EntryOf(a, j).md
      BY <2>1 DEF Running, Taken
    <3>3. mode[u][EntryOf(a, j).file] # NullMode
      BY <3>1, <3>2 DEF LockMode, ExclMode
    <3>4. EntryOf(a, j).file # f
      BY <1>2, <3>1, <3>3 DEF Running, HeldModes
    <3>. QED  BY <1>6, <3>1, <3>2, <3>4
  <2>. QED  BY <1>4, <1>5, <1>6, <2>1 DEF Taken, Running, Shared, EntryOf, Rec
<1>10. Running(u, b)'
  BY <1>4, <1>7, <1>8, <1>9 DEF Running, HeldModes, HeldRecs, Taken, May, Must, Shared, EntryOf, Rec
<1>. QED  BY <1>10

(* The file just opened goes back to Null.                                 *)
LEMMA FlatOpened ==
  ASSUME FlatCode, TypeInv, NEW u \in Users, NEW a \in Good, Running(u, a), Opened(u)
  PROVE  \E b \in Good : Running(u, b)'
<1>. DEFINE f == EntryOf(a, a.it).file
<1>1. stack[u] = <<a>>
  BY DEF Running
<1>2. a.ph = "opening" /\ f \in Files
      /\ opened' = opened /\ mode' = [mode EXCEPT ![u][f] = NullMode] /\ recs' = recs
  BY <1>1, Alone, HeadTypes DEF Opened, SetMode
<1>3. Goto(u, a.it, "acquire")
  BY <1>1, Alone DEF Opened
<1>4. PICK b \in Good : b.st = a.st /\ b.it = a.it /\ b.ph = "acquire" /\ stack'[u] = <<b>>
  BY <1>1, <1>3, Alone, AloneGoto DEF Phases
<1>5. May(b) = May(a) /\ Must(b) = Must(a) /\ Must(a) = {j \in DOMAIN Code[a.st].list : j < a.it}
  BY <1>2, <1>4, MustMay
<1>6. /\ opened'[u] = opened[u] /\ recs'[u] = recs[u]
      /\ \A g \in Files : mode'[u][g] = IF g = f THEN NullMode ELSE mode[u][g]
  BY <1>2 DEF TypeInv
<1>. HIDE DEF f
<1>7. HeldModes(b, mode[u]', opened[u]')
  <2>1. f = EntryOf(a, a.it).file
    BY DEF f
  <2>. QED  BY <1>2, <1>4, <1>5, <1>6, <2>1 DEF HeldModes, Running, Shared, EntryOf
<1>8. HeldRecs(b, recs[u]', opened[u]')
  BY <1>4, <1>5, <1>6 DEF HeldRecs, Running, Shared, EntryOf, Rec
<1>9. Taken(b, mode[u]', recs[u]')
  <2>1. ASSUME NEW j \in Must(a), Shared(a) PROVE mode'[u][EntryOf(a, j).file] >= EntryOf(a, j).md
    <3>1. EntryOf(a, j).file \in Files /\ j # a.it /\ j \in DOMAIN Code[a.st].list
          /\ a.it \in DOMAIN Code[a.st].list /\ a.st \in Stmts
      BY <1>1, <1>5, Alone, CodeTypes DEF EntryOf, Entry
    <3>2. mode[u][EntryOf(a, j).file] >= EntryOf(a, j).md
      BY <2>1 DEF Running, Taken
    <3>3. EntryOf(a, j).file # f
      BY <2>1, <3>1 DEF FlatCode, Shared, EntryOf, f
    <3>. QED  BY <1>6, <3>1, <3>2, <3>3
  <2>. QED  BY <1>4, <1>5, <1>6, <2>1 DEF Taken, Running, Shared, EntryOf, Rec
<1>10. Running(u, b)'
  BY <1>4, <1>7, <1>8, <1>9 DEF Running, HeldModes, HeldRecs, Taken, May, Must, Shared, EntryOf, Rec
<1>. QED  BY <1>10

(* The loop goes on after an entry whose lock was taken.                   *)
LEMMA AloneNext ==
  ASSUME TypeInv, NEW u \in Users, NEW a \in Good, stack[u] = <<a>>,
         a.ph = "acquire", NextEntry(u, "do")
  PROVE  \E b \in Good :
           /\ b.st = a.st /\ b.ph \in {"acquire", "do"} /\ stack'[u] = <<b>>
           /\ Must(b) = Must(a) \cup {a.it} /\ May(b) = May(a) \cup {a.it}
<1>. DEFINE L == Code[a.st].list
<1>1. /\ L \in Seq(Entry) /\ Len(L) \in Nat /\ DOMAIN L = 1 .. Len(L) /\ a.it \in DOMAIN L
      /\ It(u) = a.it /\ List(u) = L /\ Head(stack[u]) = a /\ 1 \in DOMAIN L
  BY Alone, CodeTypes
<1>2. May(a) = {j \in DOMAIN L : j < a.it} /\ Must(a) = {j \in DOMAIN L : j < a.it}
  BY MustMay
<1>. HIDE DEF L
<1>3. CASE a.it < Len(L)
  <2>1. PICK i \in DOMAIN L : i = a.it + 1
    BY <1>1, <1>3
  <2>2. Goto(u, i, "acquire")
    BY <1>1, <1>3, <2>1 DEF NextEntry
  <2>3. PICK b \in Good : b.st = a.st /\ b.it = i /\ b.ph = "acquire" /\ stack'[u] = <<b>>
    BY <2>2, AloneGoto DEF Phases, L
  <2>4. Must(b) = {j \in DOMAIN L : j < i} /\ May(b) = {j \in DOMAIN L : j < i}
    BY <2>3, MustMay DEF L
  <2>5. {j \in DOMAIN L : j < i} = {j \in DOMAIN L : j < a.it} \cup {a.it}
    BY <1>1, <2>1
  <2>. QED  BY <1>2, <2>3, <2>4, <2>5
<1>4. CASE ~ (a.it < Len(L))
  <2>1. Goto(u, 1, "do")
    BY <1>1, <1>4 DEF NextEntry
  <2>2. PICK b \in Good : b.st = a.st /\ b.it = 1 /\ b.ph = "do" /\ stack'[u] = <<b>>
    BY <1>1, <2>1, AloneGoto DEF Phases, L
  <2>3. Must(b) = DOMAIN L /\ May(b) = DOMAIN L
    BY <2>2, MustMay DEF L
  <2>4. DOMAIN L = {j \in DOMAIN L : j < a.it} \cup {a.it}
    BY <1>1, <1>4
  <2>. QED  BY <1>2, <2>2, <2>3, <2>4
<1>. QED  BY <1>3, <1>4

(* A mode is taken from Null, which is what is noted.                      *)
LEMMA FlatTake ==
  ASSUME FlatCode, TypeInv, NEW u \in Users, NEW a \in Good, Running(u, a), TakeMode(u)
  PROVE  /\ \E b \in Good : Running(u, b)'
         /\ mode[u][Cur(u).file] = NullMode
<1>. DEFINE f  == EntryOf(a, a.it).file
            md == EntryOf(a, a.it).md
<1>1. stack[u] = <<a>>
  BY DEF Running
<1>2. a.ph = "acquire" /\ f \in opened[u] /\ f \in Files /\ md \in LockMode \ {NullMode}
      /\ opened' = opened /\ recs' = recs /\ Shared(a) /\ NextEntry(u, "do")
      /\ a.st \in Stmts /\ a.it \in DOMAIN Code[a.st].list /\ Cur(u) = EntryOf(a, a.it)
  <2>1. EntryOf(a, a.it) \in Entry
    BY <1>1, Alone, CodeTypes DEF EntryOf
  <2>. QED  BY <1>1, <2>1, Alone DEF TakeMode, Shared, Entry
<1>3. PICK b \in Good : /\ b.st = a.st /\ b.ph \in {"acquire", "do"} /\ stack'[u] = <<b>>
                        /\ Must(b) = Must(a) \cup {a.it} /\ May(b) = May(a) \cup {a.it}
  BY <1>1, <1>2, AloneNext
<1>4. /\ May(a) = {j \in DOMAIN Code[a.st].list : j < a.it}
      /\ Must(a) = {j \in DOMAIN Code[a.st].list : j < a.it}
  BY <1>2, MustMay
<1>. HIDE DEF f, md
<1>5. mode[u][f] = NullMode
  <2>1. ASSUME NEW j \in May(a) PROVE EntryOf(a, j).file # f
    <3>1. j \in DOMAIN Code[a.st].list /\ j # a.it
      BY <1>1, <1>4, Alone, MustMay
    <3>. QED  BY <1>2, <3>1 DEF FlatCode, Shared, EntryOf, f
  <2>. QED  BY <1>2, <2>1 DEF Running, HeldModes
<1>6. mode' = [mode EXCEPT ![u][f] = md]
  <2>1. md > mode[u][f]
    BY <1>2, <1>5 DEF LockMode, ExclMode
  <2>2. Cur(u).file = f /\ Cur(u).md = md
    BY <1>2 DEF f, md
  <2>3. ~ (md <= mode[u][f])
    BY <1>2, <1>5, <2>1 DEF LockMode, ExclMode
  <2>. QED  BY <2>2, <2>3 DEF TakeMode, SetMode
<1>7. \A g \in Files : mode'[u][g] = IF g = f THEN md ELSE mode[u][g]
  BY <1>2, <1>6 DEF TypeInv
<1>8. HeldModes(b, mode[u]', opened[u]')
  <2>1. ASSUME NEW g \in Files, mode'[u][g] # NullMode, g # f
        PROVE  g \in opened[u] /\ \E j \in May(a) : EntryOf(a, j).file = g
    BY <1>2, <1>7, <2>1 DEF Running, HeldModes
  <2>2. f = EntryOf(b, a.it).file /\ \A j : EntryOf(b, j) = EntryOf(a, j)
    BY <1>3 DEF f, EntryOf
  <2>. QED  BY <1>2, <1>3, <2>1, <2>2 DEF HeldModes, Shared
<1>9. HeldRecs(b, recs[u]', opened[u]')
  BY <1>2 DEF HeldRecs, Running
<1>10. Taken(b, mode[u]', recs[u]')
  <2>1. ASSUME NEW j \in Must(a) PROVE mode'[u][EntryOf(a, j).file] >= EntryOf(a, j).md
    <3>1. j \in DOMAIN Code[a.st].list /\ j # a.it /\ EntryOf(a, j).file \in Files
      BY <1>1, <1>4, Alone, MustMay, CodeTypes DEF EntryOf, Entry
    <3>2. EntryOf(a, j).file # f
      BY <1>2, <3>1 DEF FlatCode, Shared, EntryOf, f
    <3>3. mode[u][EntryOf(a, j).file] >= EntryOf(a, j).md
      BY <1>2 DEF Running, Taken
    <3>. QED  BY <1>7, <3>1, <3>2, <3>3
  <2>2. mode'[u][EntryOf(a, a.it).file] >= EntryOf(a, a.it).md
    <3>1. mode'[u][f] = md /\ md >= md
      BY <1>2, <1>7 DEF LockMode, ExclMode
    <3>. QED  BY <3>1 DEF f, md
  <2>3. Shared(b) /\ \A j : EntryOf(b, j) = EntryOf(a, j)
    BY <1>2, <1>3 DEF Shared, EntryOf
  <2>. QED  BY <1>3, <2>1, <2>2, <2>3 DEF Taken
<1>11. Running(u, b)'
  BY <1>3, <1>8, <1>9, <1>10 DEF Running, HeldModes, HeldRecs, Taken, May, Must, Shared, EntryOf, Rec
<1>. QED  BY <1>2, <1>5, <1>11 DEF f

(* A record is taken through a file that is open.                          *)
LEMMA FlatLockRecord ==
  ASSUME TypeInv, NEW u \in Users, NEW a \in Good, Running(u, a), LockRecord(u)
  PROVE  \E b \in Good : Running(u, b)'
<1>1. stack[u] = <<a>>
  BY DEF Running
<1>2. PICK r \in Files \X Records : r = Rec(a, a.it)
  <2>1. EntryOf(a, a.it) \in Entry
    BY <1>1, Alone, CodeTypes DEF EntryOf
  <2>. QED  BY <2>1 DEF Entry, Rec
<1>3. a.ph = "acquire" /\ EntryOf(a, a.it).file \in opened[u]
      /\ opened' = opened /\ mode' = mode /\ ~Shared(a) /\ NextEntry(u, "do")
  BY <1>1, Alone DEF LockRecord, Shared
<1>4. recs' = [recs EXCEPT ![u] = recs[u] \cup {r}]
  <2>1. Cur(u) = EntryOf(a, a.it)
    BY <1>1, Alone
  <2>. QED  BY <1>2, <2>1, Zenon DEF LockRecord, Rec
<1>5. PICK b \in Good : /\ b.st = a.st /\ b.ph \in {"acquire", "do"} /\ stack'[u] = <<b>>
                        /\ Must(b) = Must(a) \cup {a.it} /\ May(b) = May(a) \cup {a.it}
  BY <1>1, <1>3, AloneNext
<1>6. recs'[u] = recs[u] \cup {r}
  BY <1>4 DEF TypeInv
<1>7. /\ ~Shared(b) /\ (\A j : EntryOf(b, j) = EntryOf(a, j)) /\ \A j : Rec(b, j) = Rec(a, j)
  BY <1>3, <1>5 DEF Shared, EntryOf, Rec
<1>8. HeldModes(b, mode[u]', opened[u]')
  BY <1>3 DEF HeldModes, Running
<1>9. HeldRecs(b, recs[u]', opened[u]')
  BY <1>2, <1>3, <1>5, <1>6, <1>7 DEF HeldRecs, Running
<1>10. Taken(b, mode[u]', recs[u]')
  BY <1>2, <1>3, <1>5, <1>6, <1>7 DEF Taken, Running
<1>11. Running(u, b)'
  BY <1>5, <1>8, <1>9, <1>10 DEF Running, HeldModes, HeldRecs, Taken, May, Must, Shared, EntryOf, Rec
<1>. QED  BY <1>11

Later(a) == {j \in DOMAIN Code[a.st].list : j > a.it}

(* One turn of the loop of UnLck leaves the locks of the later entries.    *)
LEMMA FlatUnLck ==
  ASSUME TypeInv, NEW u \in Users, NEW a \in Good, NothingSaved(u), Running(u, a),
         a.ph \in {"refused", "end"}, opened' = opened, UnLckEntry(u) \/ UnLckNotOpen(u)
  PROVE  /\ \A f \in Files : mode'[u][f] # NullMode =>
              f \in opened'[u] /\ Shared(a) /\ \E j \in Later(a) : EntryOf(a, j).file = f
         /\ \/ recs'[u] = {}
            \/ /\ ~Shared(a)
               /\ \A x \in recs'[u] : \E j \in Later(a) :
                    x = Rec(a, j) /\ EntryOf(a, j).file \in opened'[u]
<1>. DEFINE f == EntryOf(a, a.it).file
<1>1. stack[u] = <<a>>
  BY DEF Running
<1>2. /\ Cur(u) = EntryOf(a, a.it) /\ f \in Files /\ Cur(u).file = f
      /\ a.st \in Stmts /\ a.it \in DOMAIN Code[a.st].list
      /\ Stmt(u) = a.st /\ It(u) = a.it
  BY <1>1, Alone, HeadTypes
<1>3. May(a) = {j \in DOMAIN Code[a.st].list : j >= a.it}
      /\ DOMAIN Code[a.st].list = 1 .. Len(Code[a.st].list) /\ Len(Code[a.st].list) \in Nat
  BY MustMay
<1>4. May(a) = Later(a) \cup {a.it}
  BY <1>2, <1>3 DEF Later
<1>. HIDE DEF f
<1>5. \A g \in Files : mode'[u][g] # NullMode => g # f /\ mode[u][g] # NullMode
  <2>1. CASE UnLckEntry(u)
    <3>1. oldMd[u][a.st][a.it] = NullMode
      BY <1>2 DEF NothingSaved
    <3>2. mode' = [mode EXCEPT ![u][f] = NullMode]
      BY <1>2, <2>1, <3>1 DEF UnLckEntry, SetMode
    <3>. QED  BY <3>2 DEF TypeInv
  <2>2. CASE UnLckNotOpen(u)
    <3>1. mode' = mode /\ f \notin opened[u]
      BY <1>2, <2>2 DEF UnLckNotOpen
    <3>2. mode[u][f] = NullMode
      BY <1>2, <3>1 DEF Running, HeldModes
    <3>. QED  BY <3>1, <3>2
  <2>. QED  BY <2>1, <2>2
<1>6. ASSUME NEW g \in Files, mode'[u][g] # NullMode
      PROVE  g \in opened'[u] /\ Shared(a) /\ \E j \in Later(a) : EntryOf(a, j).file = g
  <2>1. g # f /\ g \in opened[u] /\ Shared(a) /\ \E j \in May(a) : EntryOf(a, j).file = g
    BY <1>5, <1>6 DEF Running, HeldModes
  <2>. QED  BY <1>4, <2>1 DEF f
<1>7. CASE recs[u] = {}
  BY <1>1, <1>6, <1>7, UnLckTypes
<1>8. CASE recs[u] # {}
  <2>1. ~Shared(a) /\ \A x \in recs[u] : \E j \in May(a) :
          x = Rec(a, j) /\ EntryOf(a, j).file \in opened[u]
    BY <1>8 DEF Running, HeldRecs
  <2>2. ASSUME NEW x \in recs'[u]
        PROVE  x \in recs[u] /\ (x # Rec(a, a.it) \/ f \notin opened[u])
    <3>1. CASE UnLckEntry(u)
      <4>1. PICK r : r = Rec(a, a.it)
        OBVIOUS
      <4>2. r = <<Cur(u).file, Cur(u).n>> /\ Code[Stmt(u)].op # "shared"
        BY <1>2, <2>1, <4>1 DEF Rec, Shared
      <4>3. Code[Stmt(u)].op = "locked"
        BY <1>2, <4>2, WithSharedAssumption DEF IsCode
      <4>4. recs' = [recs EXCEPT ![u] = recs[u] \ {r}]
        BY <3>1, <4>2, <4>3, Zenon DEF UnLckEntry
      <4>5. recs'[u] = recs[u] \ {r}
        BY <4>4 DEF TypeInv
      <4>. QED  BY <2>2, <4>1, <4>5
    <3>2. CASE UnLckNotOpen(u)
      BY <1>2, <2>2, <3>2 DEF UnLckNotOpen
    <3>. QED  BY <3>1, <3>2
  <2>3. ASSUME NEW x \in recs'[u]
        PROVE  \E j \in Later(a) : x = Rec(a, j) /\ EntryOf(a, j).file \in opened'[u]
    <3>1. PICK j \in May(a) : x = Rec(a, j) /\ EntryOf(a, j).file \in opened[u]
      BY <2>1, <2>2, <2>3
    <3>2. j # a.it
      BY <2>2, <2>3, <3>1 DEF f
    <3>. QED  BY <1>4, <3>1, <3>2
  <2>. QED  BY <1>6, <2>1, <2>3
<1>. QED  BY <1>7, <1>8

(* A refused statement gives everything up and then waits or runs its else *)
(* branch.                                                                 *)
LEMMA FlatRefused ==
  ASSUME TypeInv, NEW u \in Users, NEW a \in Good, NothingSaved(u), Running(u, a),
         UnLckRefused(u)
  PROVE  \E b \in Good : Running(u, b)'
<1>. DEFINE L == Code[a.st].list
<1>1. stack[u] = <<a>>
  BY DEF Running
<1>2. a.ph = "refused" /\ opened' = opened /\ (UnLckEntry(u) \/ UnLckNotOpen(u))
  BY <1>1, Alone DEF UnLckRefused
<1>3. PICK p \in {"else", "wait"} : NextEntry(u, p)
  <2>1. PICK p \in {"else", "wait"} : p = IF Code[Stmt(u)].else THEN "else" ELSE "wait"
    OBVIOUS
  <2>2. NextEntry(u, p)
    BY <2>1, Zenon DEF UnLckRefused
  <2>. QED  BY <2>2
<1>4. /\ Len(L) \in Nat /\ DOMAIN L = 1 .. Len(L) /\ a.it \in DOMAIN L /\ 1 \in DOMAIN L
      /\ It(u) = a.it /\ List(u) = L /\ Head(stack[u]) = a
  BY <1>1, Alone, MustMay
<1>. HIDE DEF L
<1>5. PICK b \in Good : b.st = a.st /\ stack'[u] = <<b>> /\ Later(a) \subseteq May(b)
                        /\ Must(b) = {} /\ b.ph # "opening"
  <2>1. CASE a.it < Len(L)
    <3>1. PICK i \in DOMAIN L : i = a.it + 1
      BY <1>4, <2>1
    <3>2. Goto(u, i, "refused")
      BY <1>2, <1>3, <1>4, <2>1, <3>1 DEF NextEntry
    <3>3. PICK b \in Good : b.st = a.st /\ b.it = i /\ b.ph = "refused" /\ stack'[u] = <<b>>
      BY <1>1, <3>2, AloneGoto DEF Phases, L
    <3>4. Must(b) = {} /\ May(b) = {j \in DOMAIN L : j >= i}
      BY <3>3, MustMay DEF L
    <3>5. Later(a) \subseteq {j \in DOMAIN L : j >= i}
      BY <1>4, <3>1 DEF Later, L
    <3>. QED  BY <3>3, <3>4, <3>5
  <2>2. CASE ~ (a.it < Len(L))
    <3>1. Goto(u, 1, p)
      BY <1>3, <1>4, <2>2 DEF NextEntry
    <3>2. PICK b \in Good : b.st = a.st /\ b.it = 1 /\ b.ph = p /\ stack'[u] = <<b>>
      BY <1>1, <1>4, <3>1, AloneGoto DEF Phases, L
    <3>3. Must(b) = {} /\ b.ph # "opening"
      BY <3>2, MustMay
    <3>4. Later(a) = {}
      BY <1>4, <2>2 DEF Later, L
    <3>. QED  BY <3>2, <3>3, <3>4
  <2>. QED  BY <2>1, <2>2
<1>6. (Shared(b) <=> Shared(a)) /\ (\A j : EntryOf(b, j) = EntryOf(a, j))
      /\ \A j : Rec(b, j) = Rec(a, j)
  BY <1>5 DEF Shared, EntryOf, Rec
<1>7. HeldModes(b, mode[u]', opened[u]')
  BY <1>2, <1>5, <1>6, FlatUnLck DEF HeldModes
<1>8. HeldRecs(b, recs[u]', opened[u]')
  BY <1>2, <1>5, <1>6, FlatUnLck DEF HeldRecs
<1>9. Taken(b, mode[u]', recs[u]')
  BY <1>5 DEF Taken
<1>10. Running(u, b)'
  BY <1>5, <1>7, <1>8, <1>9 DEF Running, HeldModes, HeldRecs, Taken, May, Must, Shared, EntryOf, Rec
<1>. QED  BY <1>10

(* After the do branch everything is given up, entry by entry.             *)
LEMMA FlatEnd ==
  ASSUME TypeInv, NEW u \in Users, NEW a \in Good, NothingSaved(u), Running(u, a),
         UnLckEnd(u)
  PROVE  (stack[u] = <<>> /\ HoldsNothing(u))' \/ \E b \in Good : Running(u, b)'
<1>. DEFINE L == Code[a.st].list
<1>1. stack[u] = <<a>>
  BY DEF Running
<1>2. a.ph = "end" /\ opened' = opened /\ (UnLckEntry(u) \/ UnLckNotOpen(u))
  BY <1>1, Alone DEF UnLckEnd
<1>3. /\ Len(L) \in Nat /\ DOMAIN L = 1 .. Len(L) /\ a.it \in DOMAIN L
      /\ It(u) = a.it /\ List(u) = L /\ Tail(stack[u]) = <<>>
  BY <1>1, Alone, MustMay
<1>. HIDE DEF L
<1>4. CASE a.it < Len(L)
  <2>1. PICK i \in DOMAIN L : i = a.it + 1
    BY <1>3, <1>4
  <2>2. Goto(u, i, "end")
    BY <1>3, <1>4, <2>1 DEF UnLckEnd
  <2>3. PICK b \in Good : b.st = a.st /\ b.it = i /\ b.ph = "end" /\ stack'[u] = <<b>>
    BY <1>1, <2>2, AloneGoto DEF Phases, L
  <2>4. Must(b) = {} /\ May(b) = {j \in DOMAIN L : j >= i}
    BY <2>3, MustMay DEF L
  <2>5. Later(a) \subseteq {j \in DOMAIN L : j >= i}
    BY <1>3, <2>1 DEF Later, L
  <2>6. (Shared(b) <=> Shared(a)) /\ (\A j : EntryOf(b, j) = EntryOf(a, j))
        /\ \A j : Rec(b, j) = Rec(a, j)
    BY <2>3 DEF Shared, EntryOf, Rec
  <2>7. HeldModes(b, mode[u]', opened[u]')
    BY <1>2, <2>4, <2>5, <2>6, FlatUnLck DEF HeldModes
  <2>8. HeldRecs(b, recs[u]', opened[u]')
    BY <1>2, <2>4, <2>5, <2>6, FlatUnLck DEF HeldRecs
  <2>9. Taken(b, mode[u]', recs[u]')
    BY <2>4 DEF Taken
  <2>10. Running(u, b)'
    BY <2>3, <2>7, <2>8, <2>9 DEF Running, HeldModes, HeldRecs, Taken, May, Must, Shared, EntryOf, Rec
  <2>. QED  BY <2>10
<1>5. CASE ~ (a.it < Len(L))
  <2>1. Later(a) = {}
    BY <1>3, <1>5 DEF Later, L
  <2>2. Return(u)
    BY <1>3, <1>5 DEF UnLckEnd
  <2>3. stack'[u] = <<>>
    BY <1>3, <2>2 DEF Return, TypeInv
  <2>4. recs'[u] = {} /\ \A f \in Files : mode'[u][f] = NullMode
    BY <1>2, <2>1, FlatUnLck
  <2>. QED  BY <2>3, <2>4 DEF HoldsNothing
<1>. QED  BY <1>4, <1>5

(* The saved modes of such statements are always Null.                     *)
LEMMA FlatSaved ==
  ASSUME FlatCode, TypeInv, NEW u \in Users, UserStep(u), FlatInv(u)
  PROVE  NothingSaved(u)'
<1>1. CASE RunError(u)
  BY <1>1 DEF RunError, TypeInv, NothingSaved
<1>2. CASE TakeMode(u) \/ ModeRefused(u)
  <2>1. stack[u] # <<>> /\ SaveMode(u) /\ Stmt(u) \in Stmts /\ It(u) \in DOMAIN Code[Stmt(u)].list
    BY <1>2, HeadTypes DEF TakeMode, ModeRefused, At, List
  <2>2. PICK a \in Good : Running(u, a)
    BY <2>1 DEF FlatInv
  <2>3. mode[u][Cur(u).file] = NullMode
    <3>1. stack[u] = <<a>>
      BY <2>2 DEF Running
    <3>2. a.ph = "acquire" /\ Shared(a) /\ Cur(u) = EntryOf(a, a.it) /\ Cur(u).file \in Files
          /\ a.st \in Stmts /\ a.it \in DOMAIN Code[a.st].list
      BY <1>2, <2>1, <3>1, Alone, HeadTypes DEF TakeMode, ModeRefused, Shared
    <3>3. ASSUME NEW j \in May(a) PROVE EntryOf(a, j).file # Cur(u).file
      <4>1. j \in DOMAIN Code[a.st].list /\ j # a.it
        BY <3>1, <3>2, Alone, MustMay
      <4>. QED  BY <3>2, <4>1 DEF FlatCode, Shared, EntryOf
    <3>. QED  BY <2>2, <3>2, <3>3 DEF Running, HeldModes
  <2>4. \A s \in Stmts : \A i \in DOMAIN Code[s].list : oldMd'[u][s][i] = NullMode
    <3>1. oldMd' = [oldMd EXCEPT ![u] = [oldMd[u] EXCEPT ![Stmt(u)] =
                     [oldMd[u][Stmt(u)] EXCEPT ![It(u)] = NullMode]]]
      BY <2>1, <2>3 DEF SaveMode
    <3>2. oldMd'[u] = [oldMd[u] EXCEPT ![Stmt(u)] =
                     [oldMd[u][Stmt(u)] EXCEPT ![It(u)] = NullMode]]
      BY <3>1 DEF TypeInv
    <3>3. \A s \in Stmts : s \in DOMAIN oldMd[u] /\ DOMAIN oldMd[u][s] = DOMAIN Code[s].list
      BY DEF TypeInv, OldMds
    <3>. QED  BY <2>1, <3>2, <3>3 DEF FlatInv, NothingSaved
  <2>. QED  BY <2>4 DEF NothingSaved
<1>3. CASE oldMd' = oldMd
  BY <1>3 DEF FlatInv, NothingSaved
<1>4. RunError(u) \/ TakeMode(u) \/ ModeRefused(u) \/ oldMd' = oldMd
  BY DEF UserStep, Step, OpenFile, Opened, OpenRefused, LockRecord, RecordRefused,
         UnLckRefused, TryAgain, DoneElse, DoneDo, UnLckEnd, Begin
<1>. QED  BY <1>1, <1>2, <1>3, <1>4

(* One case per action, for a user in a statement and for an idle one.     *)
LEMMA FlatStep ==
  ASSUME FlatCode, TypeInv, NEW u \in Users, UserStep(u), FlatInv(u)
  PROVE  FlatInv(u)'
<1>. DEFINE Idle == stack[u] = <<>> /\ HoldsNothing(u)
<1>1. NothingSaved(u) /\ NothingSaved(u)'
  BY FlatSaved DEF FlatInv
<1>2. ASSUME NEW a \in Good, Running(u, a)
      PROVE  Idle' \/ \E b \in Good : Running(u, b)'
  <2>1. stack[u] = <<a>> /\ a.st \in Stmts /\ 1 \in DOMAIN Code[a.st].list
    BY <1>2, Alone, CodeTypes DEF Running
  <2>2. CASE OpenFile(u)
    BY <1>2, <2>2, FlatOpen
  <2>3. CASE Opened(u)
    BY <1>2, <2>3, FlatOpened
  <2>4. CASE TakeMode(u)
    BY <1>2, <2>4, FlatTake
  <2>5. CASE LockRecord(u)
    BY <1>2, <2>5, FlatLockRecord
  <2>6. CASE UnLckRefused(u)
    BY <1>1, <1>2, <2>6, FlatRefused
  <2>7. CASE UnLckEnd(u)
    BY <1>1, <1>2, <2>7, FlatEnd
  <2>8. CASE OpenRefused(u) \/ ModeRefused(u) \/ RecordRefused(u)
    <3>1. a.ph = "acquire" /\ Goto(u, 1, "refused") /\ mode' = mode /\ recs' = recs /\ opened' = opened
      BY <2>1, <2>8, Alone DEF OpenRefused, ModeRefused, RecordRefused
    <3>2. PICK b \in Good : b.st = a.st /\ b.it = 1 /\ b.ph = "refused" /\ stack'[u] = <<b>>
      BY <2>1, <3>1, AloneGoto DEF Phases
    <3>3. May(b) = DOMAIN Code[a.st].list /\ Must(b) = {}
      BY <3>2, MustMay
    <3>4. May(a) \subseteq May(b)
      BY <3>3 DEF May
    <3>. QED  BY <1>2, <3>1, <3>2, <3>3, <3>4, MoveOnly
  <2>9. CASE TryAgain(u)
    <3>1. a.ph = "wait" /\ Goto(u, 1, "acquire") /\ mode' = mode /\ recs' = recs /\ opened' = opened
      BY <2>1, <2>9, Alone DEF TryAgain
    <3>2. PICK b \in Good : b.st = a.st /\ b.it = 1 /\ b.ph = "acquire" /\ stack'[u] = <<b>>
      BY <2>1, <3>1, AloneGoto DEF Phases
    <3>3. May(a) = {} /\ Must(b) = {}
      BY <3>1, <3>2, MustMay
    <3>. QED  BY <1>2, <3>1, <3>2, <3>3, MoveOnly
  <2>10. CASE DoneDo(u)
    <3>1. a.ph = "do" /\ Goto(u, 1, "end") /\ mode' = mode /\ recs' = recs /\ opened' = opened
      BY <2>1, <2>10, Alone DEF DoneDo
    <3>2. PICK b \in Good : b.st = a.st /\ b.it = 1 /\ b.ph = "end" /\ stack'[u] = <<b>>
      BY <2>1, <3>1, AloneGoto DEF Phases
    <3>3. May(b) = DOMAIN Code[a.st].list /\ Must(b) = {}
      BY <3>2, MustMay
    <3>4. May(a) \subseteq May(b)
      BY <3>3 DEF May
    <3>. QED  BY <1>2, <3>1, <3>2, <3>3, <3>4, MoveOnly
  <2>11. CASE DoneElse(u)
    <3>1. a.ph = "else" /\ Return(u) /\ mode' = mode /\ recs' = recs
      BY <2>1, <2>11, Alone DEF DoneElse
    <3>2. HoldsNothing(u)
      BY <1>2, <3>1, NothingHeld, MustMay
    <3>3. stack'[u] = <<>>
      BY <2>1, <3>1, Alone DEF Return, TypeInv
    <3>. QED  BY <3>1, <3>2, <3>3 DEF HoldsNothing
  <2>12. CASE RunError(u)
    BY <2>12 DEF RunError, TypeInv, HoldsNothing
  <2>13. ~ \E s \in Stmts : Begin(u, s)
    <3>1. ASSUME NEW s \in Stmts PROVE ~ Begin(u, s)
      BY <2>1, WithSharedAssumption, Alone DEF Begin, FlatCode
    <3>. QED  BY <3>1
  <2>. QED  BY <2>2, <2>3, <2>4, <2>5, <2>6, <2>7, <2>8, <2>9, <2>10, <2>11, <2>12, <2>13 DEF UserStep, Step
<1>3. CASE Idle
  <2>1. ~ Step(u) /\ ~ RunError(u)
    BY <1>3 DEF Step, RunError, OpenFile, Opened, OpenRefused, TakeMode, ModeRefused, LockRecord,
         RecordRefused, UnLckRefused, TryAgain, DoneElse, DoneDo, UnLckEnd, At
  <2>2. PICK s \in Stmts : Begin(u, s)
    BY <2>1 DEF UserStep
  <2>. QED  BY <1>1, <1>3, <2>2, FlatBegin DEF FlatInv
<1>. QED  BY <1>1, <1>2, <1>3 DEF FlatInv

(* What a user holds fits where its statement is, in every state.          *)
LEMMA FlatInvariance ==
  ASSUME FlatCode
  PROVE  Spec => [](\A u \in Users : FlatInv(u))
<1>. DEFINE AllFlat == \A u \in Users : FlatInv(u)
<1>1. Init => AllFlat
  BY DEF Init, FlatInv, NothingSaved, HoldsNothing
<1>2. ASSUME TypeInv, AllFlat, [Next]_vars PROVE AllFlat'
  <2>1. CASE UNCHANGED vars
    BY <1>2, <2>1 DEF FlatInv, NothingSaved, HoldsNothing, Running, HeldModes, HeldRecs, Taken,
         vars, Shared, EntryOf, Rec, May, Must
  <2>2. CASE Next
    <3>1. PICK u \in Users : UserStep(u)
      BY <2>2, NextIsUserStep
    <3>2. FlatInv(u)'
      BY <1>2, <3>1, FlatStep
    <3>3. ASSUME NEW v \in Users \ {u} PROVE FlatInv(v)'
      <4>1. OnlyOwn(u)
        BY <1>2, <3>1, OwnStep
      <4>. QED  BY <1>2, <3>3, <4>1 DEF OnlyOwn, FlatInv, NothingSaved, HoldsNothing, Running,
             HeldModes, HeldRecs, Taken, Shared, EntryOf, Rec, May, Must
    <3>. QED  BY <3>2, <3>3
  <2>. QED  BY <1>2, <2>1, <2>2
<1>. HIDE DEF AllFlat
<1>3. Spec => []AllFlat
  BY <1>1, <1>2, TypeInvariance, PTL DEF Spec
<1>. QED  BY <1>3 DEF AllFlat

(* While the do branch of a statement runs, every file of its list is in   *)
(* the mode asked for and its records are locked by this user and nobody   *)
(* else (WithLockedProc enters the branch after the whole loop only).      *)
THEOREM LocksInDo ==
  ASSUME FlatCode
  PROVE  Spec => []LocksHeldInDo
<1>1. ASSUME TypeInv, RecordsExclusive, \A u \in Users : FlatInv(u) PROVE LocksHeldInDo
  <2>1. SUFFICES ASSUME NEW u \in Users, NEW k \in DOMAIN stack[u], stack[u][k].ph = "do",
                        NEW i \in DOMAIN Code[stack[u][k].st].list
                 PROVE  HasLock(u, Code[stack[u][k].st].list[i], Code[stack[u][k].st].op)
    BY DEF LocksHeldInDo
  <2>2. PICK a \in Good : Running(u, a)
    BY <1>1, <2>1 DEF FlatInv
  <2>3. stack[u][k] = a /\ i \in Must(a)
    <3>1. stack[u] = <<a>>
      BY <2>2 DEF Running
    <3>. QED  BY <2>1, <3>1 DEF Must
  <2>4. CASE Shared(a)
    BY <2>2, <2>3, <2>4 DEF Running, Taken, HasLock, Shared, EntryOf
  <2>5. CASE ~ Shared(a)
    <3>1. Rec(a, i) \in recs[u]
      BY <2>2, <2>3, <2>5 DEF Running, Taken
    <3>2. \A v \in Users : Rec(a, i) \in recs[v] => v = u
      BY <1>1, <3>1 DEF RecordsExclusive
    <3>. QED  BY <2>3, <2>5, <3>1, <3>2 DEF HasLock, Shared, EntryOf, Rec
  <2>. QED  BY <2>4, <2>5
<1>. QED  BY <1>1, TypeInvariance, RecordsApart, FlatInvariance, PTL

(* All locks at once or none: such a statement holds nothing while it      *)
(* waits, in its else branch and when it is over, since UnLck runs over    *)
(* the whole list after a refusal and after the do branch.                 *)
THEOREM NothingWhileWaiting ==
  ASSUME FlatCode
  PROVE  Spec => []AllOrNothing
<1>1. ASSUME TypeInv, \A u \in Users : FlatInv(u) PROVE AllOrNothing
  <2>1. SUFFICES ASSUME NEW u \in Users, stack[u] = <<>> \/ At(u, "wait") \/ At(u, "else")
                 PROVE  HoldsNothing(u)
    BY DEF AllOrNothing
  <2>2. CASE stack[u] = <<>> /\ HoldsNothing(u)
    BY <2>2
  <2>3. ASSUME NEW a \in Good, Running(u, a) PROVE HoldsNothing(u)
    <3>1. a.ph \in {"wait", "else"}
      <4>1. stack[u] = <<a>>
        BY <2>3 DEF Running
      <4>. QED  BY <1>1, <2>1, <4>1, Alone
    <3>2. May(a) = {}
      BY <3>1, MustMay
    <3>. QED  BY <2>3, <3>1, <3>2, NothingHeld
  <2>. QED  BY <1>1, <2>2, <2>3 DEF FlatInv
<1>. QED  BY <1>1, TypeInvariance, FlatInvariance, PTL
===============================================================================
