SPECIFICATION FairSpec
CONSTANTS
  u1 = u1
  u2 = u2
  NoUser = NoUser
  Width = 3
  Users <- TwoUsers
  LanNode <- TwoNodes
  Asked <- AllModes
INVARIANTS TypeOK ModesCompatible HeldMatchesMode
PROPERTIES ImplementsModeLockAbs TransitionEnds NoWaitReturns
