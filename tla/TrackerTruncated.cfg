CONSTANTS
  u1 = u1
  u2 = u2
  u3 = u3
  Uuids = {u1, u2, u3}
  Sigs = {1, 2, 3}
  SigsOf <- MCSigsOf
  MaxSigs = 2
  Deadline = 1
SPECIFICATION TrackerSpec
INVARIANT FinalizedNotDropped
