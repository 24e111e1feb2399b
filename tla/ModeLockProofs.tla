---------------------------- MODULE ModeLockProofs ----------------------------
(***************************************************************************)
(* Proofs about ModeLock for every set of users and every Width: the type  *)
(* invariant, mutual exclusion of the modes, the ownership of the byte     *)
(* ranges, and that the protocol implements ModeLockAbs.  The theorems     *)
(* assume what the installation must guarantee: unique station numbers     *)
(* (UniqueNodes) that are not above 254 (NodesInRange).                    *)
(***************************************************************************)
EXTENDS ModeLock, TLAPS

(***************************************************************************)
(* Lemmas about the byte ranges.                                           *)
(***************************************************************************)

(* The documented table in closed form: two modes go together exactly when *)
(* the sum of their ranks in enum LockMode is at most 8.                   *)
LEMMA CompatibleIff ==
  ASSUME NEW m1 \in LockMode, NEW m2 \in LockMode
  PROVE  Abs!Compatible(m1, m2) <=> m1 + m2 <= 8
<1>1. m1 \in 0..8 /\ m2 \in 0..8
  BY DEF LockMode, NullMode, ExclMode
<1>2. /\ m1 = 0 => Abs!Refused(m1) = {}
      /\ m1 = 1 => Abs!Refused(m1) = {8}
      /\ m1 = 2 => Abs!Refused(m1) = {7, 8}
      /\ m1 = 3 => Abs!Refused(m1) = {6, 7, 8}
      /\ m1 = 4 => Abs!Refused(m1) = {5, 6, 7, 8}
      /\ m1 = 5 => Abs!Refused(m1) = {4, 5, 6, 7, 8}
      /\ m1 = 6 => Abs!Refused(m1) = {3, 4, 5, 6, 7, 8}
      /\ m1 = 7 => Abs!Refused(m1) = {2, 3, 4, 5, 6, 7, 8}
      /\ m1 = 8 => Abs!Refused(m1) = (0..8) \ {0}
  BY DEF Abs!Refused, Abs!NullMode, Abs!NoExclMode, Abs!NoDelMode, Abs!NoCrMode,
         Abs!RdMode, Abs!WrMode, Abs!CrMode, Abs!DelMode, Abs!ExclMode,
         Abs!LockMode
<1>. QED
  BY <1>1, <1>2 DEF Abs!Compatible

(* The ranges of two different stations are disjoint exactly when the      *)
(* modes are compatible: ModeLockBnds encodes the documented table.        *)
LEMMA BndsDisjoint ==
  ASSUME NEW a \in 0 .. Width - 2, NEW b \in 0 .. Width - 2, a # b,
         NEW m1 \in LockMode, NEW m2 \in LockMode
  PROVE  ModeLockBnds(m1, a) \cap ModeLockBnds(m2, b) = {} <=> m1 + m2 <= 8
<1>. DEFINE W == Width
            Bnds(m, n) == IF m = 0 THEN {}
                          ELSE IF m <= 4 THEN {(m - 1) * W + n}
                          ELSE ((8 - m) * W) .. (4 * W - 2)
<1>1. /\ ModeLockBnds(m1, a) = Bnds(m1, a)
      /\ ModeLockBnds(m2, b) = Bnds(m2, b)
  BY DEF ModeLockBnds, NullMode, RdMode, NoExclMode, ExclMode
<1>2. W \in Nat /\ W >= 2 /\ a \in Nat /\ b \in Nat /\ a <= W - 2 /\ b <= W - 2
  BY WidthAssumption
<1>3. m1 \in 0..8 /\ m2 \in 0..8
  BY DEF LockMode, NullMode, ExclMode
<1>4. /\ 0 * W = 0 /\ 1 * W = W /\ 2 * W = W + W /\ 3 * W = W + W + W
      /\ 4 * W = W + W + W + W
  BY <1>2
<1>. HIDE DEF W
<1>5. CASE m1 <= 4 /\ m2 <= 4
  <2>1. \A i, j \in {1, 2, 3, 4} : (i - 1) * W + a # (j - 1) * W + b
    BY <1>2, <1>4
  <2>. QED  BY <1>1, <1>3, <1>5, <2>1
<1>6. CASE m1 > 4 /\ m2 > 4
  <2>1. \A i \in {5, 6, 7, 8} : 4 * W - 2 \in ((8 - i) * W) .. (4 * W - 2)
    BY <1>2, <1>4
  <2>. QED  BY <1>1, <1>3, <1>6, <2>1
<1>7. \A i \in {1, 2, 3, 4}, j \in {5, 6, 7, 8}, n \in {a, b} :
        (i - 1) * W + n \in ((8 - j) * W) .. (4 * W - 2) <=> i + j > 8
  BY <1>2, <1>4
<1>8. CASE m1 <= 4 /\ m2 > 4
  BY <1>1, <1>3, <1>7, <1>8
<1>9. CASE m1 > 4 /\ m2 <= 4
  <2>1. CASE m2 = 0
    BY <1>1, <1>3, <2>1
  <2>2. CASE m2 # 0
    <3>1. (m2 - 1) * W + b \in ((8 - m1) * W) .. (4 * W - 2) <=> m2 + m1 > 8
      BY <1>3, <1>7, <1>9, <2>2
    <3>2. /\ Bnds(m1, a) = ((8 - m1) * W) .. (4 * W - 2)
          /\ Bnds(m2, b) = {(m2 - 1) * W + b}
      BY <1>3, <1>9, <2>2
    <3>. HIDE DEF Bnds
    <3>3. Bnds(m1, a) \cap Bnds(m2, b) = {} <=> ~(m2 + m1 > 8)
      BY <3>1, <3>2
    <3>. QED  BY <1>1, <1>3, <3>3
  <2>. QED  BY <2>1, <2>2
<1>. QED  BY <1>3, <1>5, <1>6, <1>8, <1>9

(* A range is a set of positions.                                          *)
LEMMA RangeType ==
  ASSUME NEW u \in Users, NEW m \in LockMode
  PROVE  Range(u, m) \in SUBSET Nat
<1>1. LanNode[u] \in Nat
  BY ModeLockAssumption
<1>2. m \in 0..8 /\ Width \in Nat /\ Width >= 2
  BY WidthAssumption DEF LockMode, NullMode, ExclMode
<1>3. CASE m = 0
  BY <1>3 DEF Range, ModeLockBnds, NullMode
<1>4. CASE m \in 1..4
  <2>1. (m - 1) * Width + LanNode[u] \in Nat
    BY <1>1, <1>2, <1>4
  <2>. QED
    BY <1>4, <2>1 DEF Range, ModeLockBnds, NullMode, RdMode, NoExclMode
<1>5. CASE m \in 5..8
  <2>1. (8 - m) * Width \in Nat
    BY <1>2, <1>5
  <2>. QED
    BY <1>5, <2>1 DEF Range, ModeLockBnds, NullMode, RdMode, ExclMode
<1>. QED  BY <1>2, <1>3, <1>4, <1>5

(* The ranges of two users can be locked together exactly when their modes *)
(* are compatible.                                                         *)
LEMMA RangesDisjoint ==
  ASSUME UniqueNodes, NodesInRange,
         NEW u \in Users, NEW v \in Users, u # v,
         NEW m1 \in LockMode, NEW m2 \in LockMode
  PROVE  Range(u, m1) \cap Range(v, m2) = {} <=> Compatible(m1, m2)
<1>1. LanNode[u] \in 0 .. Width - 2 /\ LanNode[v] \in 0 .. Width - 2
  BY WidthAssumption, ModeLockAssumption DEF NodesInRange
<1>2. LanNode[u] # LanNode[v]
  BY DEF UniqueNodes
<1>. QED
  BY <1>1, <1>2, BndsDisjoint DEF Range, Compatible, ExclMode

(***************************************************************************)
(* The inductive invariant.                                                *)
(***************************************************************************)

(* Under the invariant, the effective modes are lock modes and every user  *)
(* but the one in transition holds the range of its effective mode.        *)
LEMMA EffectiveHeld ==
  ASSUME IInv, NEW u \in Users
  PROVE  /\ EffectiveMode(u) \in LockMode
         /\ ~InTransition(u) => held[u] = Range(u, EffectiveMode(u))
BY DEF IInv, TypeOK, HeldByLabel, EffectiveMode, InTransition

USE DEF Labels, Kinds

(* The range of a mode compatible with all other effective modes is free   *)
(* for the user in transition, and a free range is one of such a mode.     *)
LEMMA FreeIffCompatible ==
  ASSUME UniqueNodes, NodesInRange, IInv,
         NEW u \in Users, pc[u] \in {"lock", "relock"}, NEW m \in LockMode
  PROVE  IsFree(Range(u, m)) <=>
           \A v \in Users \ {u} : Compatible(m, EffectiveMode(v))
<1>1. held[u] = {}
  BY DEF IInv, HeldByLabel
<1>2. \A v \in Users \ {u} : ~InTransition(v)
  BY DEF IInv, TransOwned, InTransition
<1>3. \A v \in Users \ {u} :
        held[v] \cap Range(u, m) = {} <=> Compatible(m, EffectiveMode(v))
  <2>. TAKE v \in Users \ {u}
  <2>1. held[v] = Range(v, EffectiveMode(v)) /\ EffectiveMode(v) \in LockMode
    BY <1>2, EffectiveHeld
  <2>2. Range(u, m) \cap Range(v, EffectiveMode(v)) = {}
           <=> Compatible(m, EffectiveMode(v))
    BY <2>1, RangesDisjoint
  <2>. QED  BY <2>1, <2>2
<1>. QED  BY <1>1, <1>3 DEF IsFree

(* A file that is opened starts with a mode.                               *)
LEMMA NullIsMode ==
  /\ NullMode \in LockMode
  /\ \A u \in Users : Range(u, NullMode) = {}
  /\ \A m \in LockMode : Compatible(NullMode, m) /\ Compatible(m, NullMode)
BY DEF LockMode, NullMode, ExclMode, Range, ModeLockBnds, Compatible

(* The inductive invariant holds at first.                                 *)
LEMMA InitInv == Init => IInv
<1>. SUFFICES ASSUME Init PROVE IInv
  OBVIOUS
<1>1. TypeOK
  BY DEF Init, TypeOK, LockMode, NullMode, ExclMode
<1>2. TransOwned /\ WantsMode /\ LoweringNotRefused
  BY ModeLockAssumption DEF Init, TransOwned, InTransition, WantsMode, LoweringNotRefused
<1>3. HeldByLabel
  BY DEF Init, HeldByLabel, Range, ModeLockBnds
<1>4. Exclusion
  BY DEF Init, Exclusion, EffectiveMode, Compatible, NullMode, ExclMode
<1>. QED  BY <1>1, <1>2, <1>3, <1>4 DEF IInv

(* One case per action: every step keeps it.                               *)
LEMMA NextInv ==
  ASSUME UniqueNodes, NodesInRange, IInv, [Next]_vars
  PROVE  IInv'
<1>. USE DEF Goto, Return
<1>1. ASSUME NEW u \in Users, NEW m \in Asked, NEW k \in Kinds, ChangeLMode(u, m, k)
      PROVE  IInv'
  <2>. USE <1>1 DEF ChangeLMode
  <2>1. TypeOK'
    BY ModeLockAssumption DEF IInv, TypeOK
  <2>2. TransOwned'
    BY ModeLockAssumption DEF IInv, TypeOK, TransOwned, InTransition, WantsMode
  <2>3. WantsMode' /\ LoweringNotRefused'
    BY DEF IInv, TypeOK, WantsMode, LoweringNotRefused
  <2>4. HeldByLabel'
    BY DEF IInv, TypeOK, HeldByLabel, Range
  <2>5. Exclusion'
    BY DEF IInv, TypeOK, Exclusion, EffectiveMode
  <2>. QED  BY <2>1, <2>2, <2>3, <2>4, <2>5 DEF IInv
<1>2. ASSUME NEW u \in Users, LockTrans(u)
      PROVE  IInv'
  <2>. USE <1>2 DEF LockTrans
  <2>1. TypeOK'
    BY DEF IInv, TypeOK
  <2>2. TransOwned'
    BY ModeLockAssumption DEF IInv, TypeOK, TransOwned, InTransition, WantsMode
  <2>3. WantsMode' /\ LoweringNotRefused'
    BY DEF IInv, TypeOK, WantsMode, LoweringNotRefused
  <2>4. HeldByLabel'
    BY DEF IInv, TypeOK, HeldByLabel, Range
  <2>5. Exclusion'
    BY DEF IInv, TypeOK, Exclusion, EffectiveMode
  <2>. QED  BY <2>1, <2>2, <2>3, <2>4, <2>5 DEF IInv
<1>3. ASSUME NEW u \in Users, TransBusy(u)
      PROVE  IInv'
  <2>. USE <1>3 DEF TransBusy
  <2>1. TypeOK'
    BY DEF IInv, TypeOK
  <2>2. TransOwned'
    BY ModeLockAssumption DEF IInv, TypeOK, TransOwned, InTransition, WantsMode
  <2>3. WantsMode' /\ LoweringNotRefused'
    BY DEF IInv, TypeOK, WantsMode, LoweringNotRefused
  <2>4. HeldByLabel'
    BY DEF IInv, TypeOK, HeldByLabel, Range
  <2>5. Exclusion'
    BY DEF IInv, TypeOK, Exclusion, EffectiveMode
  <2>. QED  BY <2>1, <2>2, <2>3, <2>4, <2>5 DEF IInv
<1>4. ASSUME NEW u \in Users, NewRangeBusy(u)
      PROVE  IInv'
  <2>. USE <1>4 DEF NewRangeBusy
  <2>1. TypeOK'
    BY DEF IInv, TypeOK
  <2>2. TransOwned'
    BY ModeLockAssumption DEF IInv, TypeOK, TransOwned, InTransition, WantsMode
  <2>3. WantsMode' /\ LoweringNotRefused'
    <3>1. want[u] \in LockMode /\ lmode[u] \in LockMode
      BY DEF IInv, TypeOK
    <3>2. PICK v \in Users \ {u} : ~Compatible(want[u], EffectiveMode(v))
      BY <3>1, FreeIffCompatible
    <3>3. EffectiveMode(u) = lmode[u] /\ EffectiveMode(v) \in LockMode
      BY EffectiveHeld DEF EffectiveMode
    <3>4. Compatible(lmode[u], EffectiveMode(v))
      BY <3>3 DEF IInv, Exclusion
    <3>5. want[u] > lmode[u]
      BY <3>1, <3>2, <3>3, <3>4 DEF Compatible, LockMode, NullMode, ExclMode
    <3>. QED
      BY <3>5 DEF IInv, TypeOK, WantsMode, LoweringNotRefused
  <2>4. HeldByLabel'
    BY DEF IInv, TypeOK, HeldByLabel, Range
  <2>5. Exclusion'
    BY DEF IInv, TypeOK, Exclusion, EffectiveMode
  <2>. QED  BY <2>1, <2>2, <2>3, <2>4, <2>5 DEF IInv
<1>5. ASSUME NEW u \in Users, UnlockTransFailed(u)
      PROVE  IInv'
  <2>. USE <1>5 DEF UnlockTransFailed
  <2>1. TypeOK'
    BY DEF IInv, TypeOK
  <2>2. TransOwned'
    BY ModeLockAssumption DEF IInv, TypeOK, TransOwned, InTransition, WantsMode
  <2>3. WantsMode' /\ LoweringNotRefused'
    BY DEF IInv, TypeOK, WantsMode, LoweringNotRefused
  <2>4. HeldByLabel'
    BY DEF IInv, TypeOK, HeldByLabel, Range
  <2>5. Exclusion'
    BY DEF IInv, TypeOK, Exclusion, EffectiveMode
  <2>. QED  BY <2>1, <2>2, <2>3, <2>4, <2>5 DEF IInv
<1>6. ASSUME NEW u \in Users, UnlockTransLocked(u)
      PROVE  IInv'
  <2>. USE <1>6 DEF UnlockTransLocked
  <2>1. TypeOK'
    BY DEF IInv, TypeOK
  <2>2. TransOwned'
    BY ModeLockAssumption DEF IInv, TypeOK, TransOwned, InTransition, WantsMode
  <2>3. WantsMode' /\ LoweringNotRefused'
    BY DEF IInv, TypeOK, WantsMode, LoweringNotRefused
  <2>4. HeldByLabel'
    BY DEF IInv, TypeOK, HeldByLabel, Range
  <2>5. Exclusion'
    BY DEF IInv, TypeOK, Exclusion, EffectiveMode
  <2>. QED  BY <2>1, <2>2, <2>3, <2>4, <2>5 DEF IInv
<1>7. ASSUME NEW u \in Users, TryAgain(u)
      PROVE  IInv'
  <2>. USE <1>7 DEF TryAgain
  <2>1. TypeOK'
    BY DEF IInv, TypeOK
  <2>2. TransOwned'
    BY ModeLockAssumption DEF IInv, TypeOK, TransOwned, InTransition, WantsMode
  <2>3. WantsMode' /\ LoweringNotRefused'
    BY DEF IInv, TypeOK, WantsMode, LoweringNotRefused
  <2>4. HeldByLabel'
    BY DEF IInv, TypeOK, HeldByLabel, Range
  <2>5. Exclusion'
    BY DEF IInv, TypeOK, Exclusion, EffectiveMode
  <2>. QED  BY <2>1, <2>2, <2>3, <2>4, <2>5 DEF IInv
<1>8. ASSUME NEW u \in Users, GiveUp(u)
      PROVE  IInv'
  <2>. USE <1>8 DEF GiveUp
  <2>1. TypeOK'
    BY NullIsMode DEF IInv, TypeOK
  <2>2. TransOwned'
    BY ModeLockAssumption DEF IInv, TypeOK, TransOwned, InTransition, WantsMode
  <2>3. WantsMode' /\ LoweringNotRefused'
    BY DEF IInv, TypeOK, WantsMode, LoweringNotRefused
  <2>4. HeldByLabel'
    BY DEF IInv, TypeOK, HeldByLabel, Range
  <2>5. Exclusion'
    BY DEF IInv, TypeOK, Exclusion, EffectiveMode
  <2>. QED  BY <2>1, <2>2, <2>3, <2>4, <2>5 DEF IInv
<1>9. ASSUME NEW u \in Users, SetLockMode(u)
      PROVE  IInv'
  <2>. USE <1>9 DEF SetLockMode
  <2>1. TypeOK'
    BY NullIsMode DEF IInv, TypeOK
  <2>2. TransOwned'
    BY ModeLockAssumption DEF IInv, TypeOK, TransOwned, InTransition, WantsMode
  <2>3. WantsMode' /\ LoweringNotRefused'
    BY DEF IInv, TypeOK, WantsMode, LoweringNotRefused
  <2>4. HeldByLabel'
    BY DEF IInv, TypeOK, HeldByLabel, Range
  <2>5. Exclusion'
    BY DEF IInv, TypeOK, Exclusion, EffectiveMode
  <2>. QED  BY <2>1, <2>2, <2>3, <2>4, <2>5 DEF IInv
<1>10. ASSUME NEW u \in Users, UnlockOldRange(u)
      PROVE  IInv'
  <2>. USE <1>10 DEF UnlockOldRange
  <2>1. TypeOK'
    <3>1. Range(u, lmode[u]) \in SUBSET Nat
      BY RangeType DEF IInv, TypeOK
    <3>. QED  BY <3>1 DEF IInv, TypeOK, UnLockH
  <2>2. TransOwned'
    BY ModeLockAssumption DEF IInv, TypeOK, TransOwned, InTransition, WantsMode
  <2>3. WantsMode' /\ LoweringNotRefused'
    BY DEF IInv, TypeOK, WantsMode, LoweringNotRefused
  <2>4. HeldByLabel'
    <3>1. held[u] = Range(u, lmode[u]) /\ held'[u] = {}
      BY DEF IInv, TypeOK, HeldByLabel, UnLockH
    <3>. QED
      BY <3>1, NullIsMode DEF IInv, TypeOK, HeldByLabel, Range, UnLockH
  <2>5. Exclusion'
    <3>1. \A v \in Users : EffectiveMode(v) \in LockMode
      BY EffectiveHeld
    <3>2. EffectiveMode(u)' \in {EffectiveMode(u), NullMode}
      BY DEF IInv, TypeOK, EffectiveMode
    <3>3. \A v \in Users \ {u} : EffectiveMode(v)' = EffectiveMode(v)
      BY DEF IInv, TypeOK, EffectiveMode
    <3>. QED  BY <3>1, <3>2, <3>3, NullIsMode DEF IInv, Exclusion
  <2>. QED  BY <2>1, <2>2, <2>3, <2>4, <2>5 DEF IInv
<1>11. ASSUME NEW u \in Users, LockNewRange(u)
      PROVE  IInv'
  <2>. USE <1>11 DEF LockNewRange
  <2>1. TypeOK'
    <3>1. Range(u, want[u]) \in SUBSET Nat
      BY RangeType DEF IInv, TypeOK
    <3>. QED  BY <3>1 DEF IInv, TypeOK, TryLockH
  <2>2. TransOwned'
    BY ModeLockAssumption DEF IInv, TypeOK, TransOwned, InTransition, WantsMode
  <2>3. WantsMode' /\ LoweringNotRefused'
    BY DEF IInv, TypeOK, WantsMode, LoweringNotRefused
  <2>4. HeldByLabel'
    <3>1. held[u] = {} /\ held'[u] = Range(u, want[u])
      BY DEF IInv, TypeOK, HeldByLabel, TryLockH
    <3>. QED
      BY <3>1 DEF IInv, TypeOK, HeldByLabel, Range, TryLockH
  <2>5. Exclusion'
    <3>1. \A v \in Users \ {u} : Compatible(want[u], EffectiveMode(v))
      BY FreeIffCompatible DEF IInv, TypeOK, TryLockH
    <3>2. EffectiveMode(u)' = want[u] /\ want[u] \in LockMode
      BY DEF IInv, TypeOK, EffectiveMode
    <3>3. \A v \in Users \ {u} : /\ EffectiveMode(v)' = EffectiveMode(v)
                                 /\ EffectiveMode(v) \in LockMode
      BY EffectiveHeld DEF IInv, TypeOK, EffectiveMode
    <3>4. \A v \in Users \ {u} : Compatible(EffectiveMode(v), want[u])
      BY <3>1, <3>2, <3>3 DEF Compatible, LockMode, NullMode, ExclMode
    <3>. QED  BY <3>1, <3>2, <3>3, <3>4 DEF IInv, Exclusion
  <2>. QED  BY <2>1, <2>2, <2>3, <2>4, <2>5 DEF IInv
<1>12. ASSUME NEW u \in Users, RelockOldRange(u)
      PROVE  IInv'
  <2>. USE <1>12 DEF RelockOldRange
  <2>1. TypeOK'
    <3>1. Range(u, lmode[u]) \in SUBSET Nat
      BY RangeType DEF IInv, TypeOK
    <3>. QED  BY <3>1 DEF IInv, TypeOK, TryLockH
  <2>2. TransOwned'
    BY ModeLockAssumption DEF IInv, TypeOK, TransOwned, InTransition, WantsMode
  <2>3. WantsMode' /\ LoweringNotRefused'
    BY DEF IInv, TypeOK, WantsMode, LoweringNotRefused
  <2>4. HeldByLabel'
    <3>1. EffectiveMode(u) = lmode[u] /\ lmode[u] \in LockMode
      BY DEF IInv, TypeOK, EffectiveMode
    <3>2. IsFree(Range(u, lmode[u]))
      BY <3>1, FreeIffCompatible DEF IInv, Exclusion
    <3>3. held[u] = {} /\ held'[u] = Range(u, lmode[u])
      BY <3>2 DEF IInv, TypeOK, HeldByLabel, TryLockH
    <3>. QED
      BY <3>3, <3>2 DEF IInv, TypeOK, HeldByLabel, Range, TryLockH
  <2>5. Exclusion'
    BY DEF IInv, TypeOK, Exclusion, EffectiveMode
  <2>. QED  BY <2>1, <2>2, <2>3, <2>4, <2>5 DEF IInv
<1>13. ASSUME NEW u \in Users, Disconnect(u)
      PROVE  IInv'
  <2>. USE <1>13 DEF Disconnect
  <2>1. TypeOK'
    BY NullIsMode DEF IInv, TypeOK
  <2>2. TransOwned'
    BY ModeLockAssumption DEF IInv, TypeOK, TransOwned, InTransition, WantsMode
  <2>3. WantsMode' /\ LoweringNotRefused'
    BY DEF IInv, TypeOK, WantsMode, LoweringNotRefused
  <2>4. HeldByLabel'
    <3>1. held'[u] = {} /\ lmode'[u] = NullMode
      BY DEF IInv, TypeOK
    <3>. QED
      BY <3>1, NullIsMode DEF IInv, TypeOK, HeldByLabel, Range
  <2>5. Exclusion'
    <3>1. \A v \in Users : EffectiveMode(v) \in LockMode
      BY EffectiveHeld
    <3>2. EffectiveMode(u)' = NullMode
      BY DEF IInv, TypeOK, EffectiveMode
    <3>3. \A v \in Users \ {u} : EffectiveMode(v)' = EffectiveMode(v)
      BY DEF IInv, TypeOK, EffectiveMode
    <3>. QED  BY <3>1, <3>2, <3>3, NullIsMode DEF IInv, Exclusion
  <2>. QED  BY <2>1, <2>2, <2>3, <2>4, <2>5 DEF IInv
<1>14. CASE UNCHANGED vars
  BY <1>14 DEF vars, IInv, TypeOK, TransOwned, InTransition, WantsMode, HeldByLabel,
               Exclusion, EffectiveMode, LoweringNotRefused, Range
<1>. QED
  BY <1>1, <1>2, <1>3, <1>4, <1>5, <1>6, <1>7, <1>8, <1>9, <1>10, <1>11, <1>12,
     <1>13, <1>14 DEF Next, Call, Step, TryLMode, OldLMode

(* In every reachable state of the protocol the inductive invariant holds, *)
(* for any number of users, station numbers up to Width - 2 and any calls  *)
(* of ChangeLMode.                                                         *)
THEOREM Invariance ==
  ASSUME UniqueNodes, NodesInRange
  PROVE  Spec => []IInv
<1>1. Init => IInv
  BY InitInv
<1>2. IInv /\ [Next]_vars => IInv'
  BY NextInv
<1>. QED  BY <1>1, <1>2, PTL DEF Spec

(* The variables of the protocol keep their types.                         *)
THEOREM TypeCorrect ==
  ASSUME UniqueNodes, NodesInRange
  PROVE  Spec => []TypeOK
<1>1. IInv => TypeOK
  BY DEF IInv
<1>. QED  BY <1>1, Invariance, PTL

(* The effective modes obey the documented table of lock modes.            *)
LEMMA AbsCompatible ==
  ASSUME IInv, NEW u \in Users, NEW v \in Users, u # v
  PROVE  Abs!Compatible(EffectiveMode(u), EffectiveMode(v))
<1>1. EffectiveMode(u) \in LockMode /\ EffectiveMode(v) \in LockMode
  BY EffectiveHeld
<1>2. EffectiveMode(u) + EffectiveMode(v) <= 8
  BY DEF IInv, Exclusion, Compatible, ExclMode
<1>. QED  BY <1>1, <1>2, CompatibleIff

(* No two users ever rely on modes of which one refuses the other: the     *)
(* byte ranges and TransLock implement the documented table.               *)
THEOREM MutualExclusion ==
  ASSUME UniqueNodes, NodesInRange
  PROVE  Spec => []ModesCompatible
<1>1. IInv => ModesCompatible
  BY AbsCompatible DEF ModesCompatible, Abs!ModesCompatible
<1>. QED  BY <1>1, Invariance, PTL

(* Outside a transition a handle has exactly the bytes of its mode locked: *)
(* taking the old range back after a failed attempt cannot fail.           *)
THEOREM RangesKept ==
  ASSUME UniqueNodes, NodesInRange
  PROVE  Spec => []HeldMatchesMode
<1>1. IInv => HeldMatchesMode
  BY DEF IInv, HeldByLabel, HeldMatchesMode
<1>. QED  BY <1>1, Invariance, PTL

(* A call that lowers the mode is never refused by another user.           *)
THEOREM LoweringSucceeds ==
  ASSUME UniqueNodes, NodesInRange
  PROVE  Spec => []LoweringNotRefused
<1>1. IInv => LoweringNotRefused
  BY DEF IInv
<1>. QED  BY <1>1, Invariance, PTL

(***************************************************************************)
(* Refinement.                                                             *)
(***************************************************************************)

(* The only steps that change an effective mode are the three of           *)
(* EffectiveMode: locking the new range, unlocking the last one, and the   *)
(* end of the process; each goes over to a mode nobody else refuses.       *)
LEMMA StepChangesOneMode ==
  ASSUME UniqueNodes, NodesInRange, IInv, [Next]_vars
  PROVE  \/ \A v \in Users : EffectiveMode(v)' = EffectiveMode(v)
         \/ \E u \in Users :
              \A v \in Users \ {u} : EffectiveMode(v)' = EffectiveMode(v)
<1>. USE DEF Goto, Return, EffectiveMode, IInv, TypeOK
<1>1. ASSUME NEW u \in Users,
             \A v \in Users \ {u} : /\ pc'[v] = pc[v] /\ want'[v] = want[v]
                                    /\ lmode'[v] = lmode[v]
      PROVE  \A v \in Users \ {u} : EffectiveMode(v)' = EffectiveMode(v)
  BY <1>1
<1>2. ASSUME NEW u \in Users, Call(u) \/ Step(u) \/ Disconnect(u)
      PROVE  \A v \in Users \ {u} : /\ pc'[v] = pc[v] /\ want'[v] = want[v]
                                    /\ lmode'[v] = lmode[v]
  BY <1>2 DEF Call, OldLMode, TryLMode, ChangeLMode, Step, LockTrans, TransBusy,
              UnlockOldRange, LockNewRange, NewRangeBusy, RelockOldRange,
              UnlockTransFailed, UnlockTransLocked, SetLockMode, TryAgain, GiveUp,
              Disconnect
<1>3. CASE UNCHANGED vars
  BY <1>3 DEF vars
<1>. QED  BY <1>1, <1>2, <1>3 DEF Next

(* Every behaviour of the protocol is one of the abstract lock table.      *)
THEOREM Implementation ==
  ASSUME UniqueNodes, NodesInRange
  PROVE  Spec => ImplementsModeLockAbs
<1>. DEFINE mode == [u \in Users |-> EffectiveMode(u)]
<1>1. Init => Abs!Init
  BY DEF Init, Abs!Init, EffectiveMode, NullMode, Abs!NullMode
<1>2. IInv /\ IInv' /\ [Next]_vars => [Abs!Next]_mode
  <2>. SUFFICES ASSUME IInv, IInv', [Next]_vars PROVE [Abs!Next]_mode
    OBVIOUS
  <2>1. CASE \A v \in Users : EffectiveMode(v)' = EffectiveMode(v)
    BY <2>1
  <2>2. ASSUME NEW u \in Users,
               \A v \in Users \ {u} : EffectiveMode(v)' = EffectiveMode(v)
        PROVE  Abs!Next
    <3>1. EffectiveMode(u)' \in Abs!LockMode
      BY EffectiveHeld DEF IInv, TypeOK, EffectiveMode, LockMode, NullMode, ExclMode,
         Abs!LockMode, Abs!NullMode, Abs!ExclMode
    <3>2. \A v \in Users \ {u} : Abs!Compatible(mode[v], EffectiveMode(u)')
      <4>. TAKE v \in Users \ {u}
      <4>1. /\ EffectiveMode(v)' = EffectiveMode(v)
            /\ EffectiveMode(v) \in LockMode
            /\ EffectiveMode(u)' \in LockMode
        BY <2>2, EffectiveHeld DEF IInv, TypeOK, EffectiveMode
      <4>2. EffectiveMode(v)' + EffectiveMode(u)' <= 8
        BY DEF IInv, Exclusion, Compatible, ExclMode
      <4>. QED  BY <4>1, <4>2, CompatibleIff
    <3>3. mode' = [mode EXCEPT ![u] = EffectiveMode(u)']
      BY <2>2
    <3>. QED  BY <3>1, <3>2, <3>3 DEF Abs!Next, Abs!Grant
  <2>. QED  BY <2>1, <2>2, StepChangesOneMode
<1>. QED
  BY <1>1, <1>2, Invariance, PTL DEF ImplementsModeLockAbs, Abs!Spec, Spec

=============================================================================
