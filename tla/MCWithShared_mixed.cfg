SPECIFICATION FairSpec
CONSTANTS
  u1 = u1
  u2 = u2
  F = F
  G = G
  s1 = s1
  s2 = s2
  s3 = s3
  s4 = s4
  s5 = s5
  NoStmt = NoStmt
  Width = 3
  Users <- TwoUsers
  Files <- TwoFiles
  Records <- OneRecord
  Stmts <- MixedStmts
  Code <- MixedCode
INVARIANTS TypeOK LocksHeldInDo AllOrNothing
PROPERTY DoesNotWaitForItself
