CONSTANTS
  PageBytes = 16
  LeafHead = 2
  NodeHead = 2
  SplitBias = 2
  Deleted = Deleted
  MaxOnWPage = 4
  MaxWork = 40
  Setups <- AllSetups
SPECIFICATION Spec
INVARIANTS TypeOK EntriesMatchRecords RecordsFound ScansComplete NoPageLost SortMergeRight WorkOrderKept
CHECK_DEADLOCK FALSE
