-------------------------- MODULE MCBundleTracker --------------------------
EXTENDS BundleTracker, TLC

CONSTANTS u1, u2, u3

\* Two bundles sharing a signature, and one without decodable transactions.
MCSigsOf == (u1 :> {1, 2}) @@ (u2 :> {2, 3}) @@ (u3 :> {})
=============================================================================
