CONSTANTS
  Files <- SomeFiles
  Indexed <- WithIndex
  Roles = {"of", "in"}
  NoRole = "none"
  Keys = {1, 2}
  Values <- SomeValues
  Tasks <- SomeTasks
  Designs <- SomeDesigns
  Loads <- SomeLoads
  OuterModes <- FromRd
  MaxRecs = 2
  MaxSteps = 2
  MaxCalls = 5
SPECIFICATION Spec
INVARIANTS SumsMatch LocksHeld
PROPERTIES WholeOrNotAtAll
CHECK_DEADLOCK FALSE
