CONSTANTS
  u1 = u1
  u2 = u2
  u3 = u3
  Uuids = {u1, u2, u3}
  Tips = {5, 7}
  TxCounts = {0, 1, 2}
  EstCuPerTx = 2
  SimUnits = {0, 1, 2, 3, 4, 5, 6, 7}
  TxUnits = {3, 4}
  ResultCounts = {0, 2}
  Simulated = TRUE
  CuBudget = 5
  BundleTtl = 1
  ChanCap = 1
  MaxU64 = 7
  Quotient <- DivideF64
  Bits = 3
  Width = 3
  Accuracy = 6
SPECIFICATION DrySpec
INVARIANTS WinnersFit LosersDoNotFit WinnersRanked MetricsBalance
INVARIANTS OnlyLiveBundlesCompete SentOnce UnsimulatedOnlyIfLate ChargedForEveryTx
SYMMETRY UuidSymmetry
CHECK_DEADLOCK FALSE
