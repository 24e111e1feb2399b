CONSTANTS
  Width = 3
  Users = {u1, u2}
  Keys = {k1, k2}
  Deleted = Deleted
  MaxRecs = 1
  MaxDrift = 1
  Ops <- AllOps
  HoldModes <- NoHold
  NoUser = NoUser
SPECIFICATION Spec
SYMMETRY Symmetry
INVARIANTS OneIndexWriter
CHECK_DEADLOCK FALSE
