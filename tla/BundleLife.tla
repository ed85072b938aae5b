----------------------------- MODULE BundleLife -----------------------------
(***************************************************************************)
(* What the engine promises about one bundle, whatever the tasks inside    *)
(* do: it is discarded or accepted, never both; only an accepted bundle is *)
(* followed on chain; and it meets at most one end.                        *)
(***************************************************************************)
CONSTANT Uuids

VARIABLE fate

Fates == {"received", "discarded", "accepted", "processed", "finalized", "dropped"}

Move(S, from, to) ==
  /\ \A u \in S : fate[u] \in from
  /\ fate' = [u \in Uuids |-> IF u \in S THEN to ELSE fate[u]]

Init == fate = [u \in Uuids |-> "received"]

\* An auction may discard several bundles at once; the rest is one by one.
Discard(S) == Move(S, {"received"}, "discarded")
Accept(u) == Move({u}, {"received"}, "accepted")
Process(u) == Move({u}, {"accepted"}, "processed")
Finalize(u) == Move({u}, {"accepted", "processed"}, "finalized")
Drop(u) == Move({u}, {"accepted", "processed"}, "dropped")

Next ==
  \/ \E S \in SUBSET Uuids : Discard(S)
  \/ \E u \in Uuids : Accept(u) \/ Process(u) \/ Finalize(u) \/ Drop(u)

Spec == Init /\ [][Next]_fate
=============================================================================
