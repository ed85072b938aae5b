CONSTANTS
  u1 = u1
  u2 = u2
  Uuids = {u1}
  Tips = {1}
  TxCounts = {1, 2}
  EstCuPerTx = 2
  SimUnits = {1}
  Simulated = TRUE
  CuBudget = 2
  BundleTtl = 1
  ChanCap = 1
  MaxU64 = 7
  Quotient <- DivideF64
  Bits = 3
  Width = 3
  Accuracy = 6
  alice = alice
  bob = bob
  Publishers = {"auction", "tracker"}
  Searchers = {alice, bob}
  st1 = st1
  Streams = {st1}
  NoOwner = NoOwner
  StreamCap = 1
  OwnerTtl = 2
  Sigs = {1}
  SigsOf <- MCSigsOf
  MaxSigs = 2
  Deadline = 1
SPECIFICATION PipeSpec
INVARIANTS RejectedNotForwarded ResultsProgress RoutedToOwner OpenStreamsKept
PROPERTY ImplementsBundleLife
CHECK_DEADLOCK FALSE
