CONSTANTS
  Calls = {"c1", "c2"}
SPECIFICATION FairSpec
INVARIANT ForwarderNeeded
PROPERTY ShutdownEnds
CHECK_DEADLOCK FALSE
