CONSTANTS
  u1 = u1
  u2 = u2
  u3 = u3
  Uuids = {u1, u2}
  Tips = {1}
  TxCounts = {1}
  EstCuPerTx = 2
  SimUnits = {0, 1, 2, 3, 4, 5, 6, 7}
  TxUnits = {1}
  ResultCounts = {1}
  Simulated = TRUE
  CuBudget = 4
  BundleTtl = 1
  ChanCap = 1
  MaxU64 = 7
  Quotient <- DivideF64
  Bits = 3
  Width = 3
  Accuracy = 6
SPECIFICATION DrySpec
INVARIANT DryRunBeforeWin
CHECK_DEADLOCK FALSE
