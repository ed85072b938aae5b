----------------------------- MODULE MCPipeline -----------------------------
EXTENDS Pipeline, F64, TLC

CONSTANTS u1, u2, alice, bob, st1

\* u2 has no decodable transaction: it is never tracked.
MCSigsOf == [u \in Uuids |-> IF u = u1 THEN {1} ELSE {}]
=============================================================================
