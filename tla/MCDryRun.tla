----------------------------- MODULE MCDryRun -----------------------------
EXTENDS DryRun, F64, TLC

CONSTANTS u1, u2, u3

UuidSymmetry == Permutations({u1, u2, u3})
=============================================================================
