----------------------------- MODULE BundleIds -----------------------------
(***************************************************************************)
(* The identity by which the searcher service, the auction, the results    *)
(* hub and the tracker all know a bundle.                                  *)
(***************************************************************************)
CONSTANT Uuids   \* the bundle uuids that SendBundle hands out
=============================================================================
