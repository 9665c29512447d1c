CONSTANTS
  PageUnits = 15
  MaxPages = 1
  Sizes = {8, 36}
SPECIFICATION Spec
INVARIANT RegionsValid
CHECK_DEADLOCK FALSE
