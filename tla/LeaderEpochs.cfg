CONSTANTS
  v1 = v1
  v2 = v2
  v3 = v3
  Validators = {v1, v2, v3}
  MaxSlot = 14
  EpochLen = 6
  Leader <- MCLeader
  Lookahead = 2
  MaxLag = 2
SPECIFICATION FairLeaderSpec
INVARIANTS WindowExact
PROPERTY ScheduleCatchesUp
