CONSTANTS
  MPageSize = 19
  MaxLStrLen = 26
  DataWord = 20
  Texts <- Fitting
  Loads <- SomeLoads
  MaxRecs = 4
  MaxSteps = 3
SPECIFICATION Spec
INVARIANTS TextsReadBack PagesUsedOnce FragmentsTilePage
CHECK_DEADLOCK FALSE
