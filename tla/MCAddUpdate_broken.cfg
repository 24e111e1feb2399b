CONSTANTS
  Files <- SomeFiles
  Indexed <- WithIndex
  Roles = {"of", "in"}
  NoRole = "none"
  Keys = {1, 2}
  Values <- SomeValues
  Tasks = {"limits", "behind", "link", "key"}
  Designs <- Broken
  Loads <- BrokenLoads
  OuterModes <- FromRd
  MaxRecs = 2
  MaxSteps = 2
  MaxCalls = 5
SPECIFICATION Spec
PROPERTIES OneTransaction
CHECK_DEADLOCK FALSE
