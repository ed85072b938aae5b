CONSTANTS
  b1 = b1
  b2 = b2
  u1 = u1
  r1 = r1
  up = up
  p1 = p1
  q1 = q1
  v1 = v1
  Batches = {b1, b2}
  Bundles = {u1}
  Relayers = {r1}
  Upstreams = {up}
  PacketSubs = {p1}
  BundleSubs = {q1}
  Validators = {v1}
  LeaderAware = TRUE
  ChanCap = 1
  SubCap = 1
  MaxWindow = 1
SPECIFICATION FairSpec
PROPERTY BatchesDrain
INVARIANTS TypeOK StaleNotForwarded StreamsInOrder OpenSubsKept
CHECK_DEADLOCK FALSE
