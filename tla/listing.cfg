SPECIFICATION Spec
CONSTANTS
  o1 = o1
  o2 = o2
  p = p
  Items <- AllItems
  Old <- OldItems
  Puts <- PutItems
  Steps <- AllSteps
  Input <- Fork
  PageSizes <- Sizes
  MaxTime = 2
SYMMETRY Alike
INVARIANTS WalkMissesNothing EndedShownComplete
PROPERTIES FailsOnlyForUnfinished RefusedOnlyWhenEmpty
CHECK_DEADLOCK FALSE
