----------------------------- MODULE LeaderSet -----------------------------
(***************************************************************************)
(* What the leader tracker and the forwarder share: the set of validators  *)
(* that lead soon, published by the one and read by the other.             *)
(***************************************************************************)
CONSTANT Validators   \* identities

VARIABLE upcoming     \* the published set
=============================================================================
