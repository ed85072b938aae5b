CONSTANTS
  Calls = {"c1"}
SPECIFICATION Spec
INVARIANT AllDrain
CHECK_DEADLOCK FALSE
