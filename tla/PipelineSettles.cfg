CONSTANTS
  u1 = u1
  u2 = u2
  Uuids = {u1, u2}
  Tips = {1}
  TxCounts = {1}
  EstCuPerTx = 1
  SimUnits = {1}
  Simulated = FALSE
  CuBudget = 2
  BundleTtl = 1
  ChanCap = 1
  MaxU64 = 7
  Quotient <- DivideF64
  Bits = 3
  Width = 3
  Accuracy = 6
  alice = alice
  bob = bob
  Publishers = {"auction", "tracker"}
  Searchers = {alice}
  st1 = st1
  Streams = {}
  NoOwner = NoOwner
  StreamCap = 1
  OwnerTtl = 1
  Sigs = {1}
  SigsOf <- MCSigsOf
  MaxSigs = 2
  Deadline = 1
SPECIFICATION FairPipeSpec
PROPERTIES EveryBundleSettles MappingsReleased WinnersReachForwarder
CHECK_DEADLOCK FALSE
