CONSTANTS
  Width = 3
  Users = {u1, u2}
  Keys = {k1, k2}
  Deleted = Deleted
  MaxRecs = 2
  MaxDrift = 0
  Ops <- RecordOps
  HoldModes <- ReadMode
  NoUser = NoUser
SPECIFICATION FairSpec
INVARIANTS TypeOK RecordCountCurrent IndexComplete IndexNeverDamaged AppendsBehindTheEnd
PROPERTIES ReadersSeeNoChange OperationEnds
