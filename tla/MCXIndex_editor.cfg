CONSTANTS
  PageBytes = 16
  LeafHead = 2
  NodeHead = 2
  SplitBias = 2
  Deleted = Deleted
  MaxOnWPage = 4
  MaxWork = 40
  Setups <- Editing
SPECIFICATION EditorSpec
INVARIANT EntriesMatchRecords
CHECK_DEADLOCK FALSE
