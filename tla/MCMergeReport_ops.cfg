CONSTANTS
  Jobs <- MCJobs
SPECIFICATION Spec
INVARIANTS MergeFollowsInputs UnsortedRefused ReportFollowsInputs
