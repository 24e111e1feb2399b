CONSTANTS
  Width = 3
  Users = {u1, u2}
  Keys = {k1, k2}
  Deleted = Deleted
  MaxRecs = 3
  MaxDrift = 1
  Ops <- LostOps
  HoldModes <- NoHold
  NoUser = NoUser
SPECIFICATION Spec
INVARIANTS RecordCountCurrent
CHECK_DEADLOCK FALSE
