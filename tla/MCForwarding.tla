---------------------------- MODULE MCForwarding ----------------------------
EXTENDS Forwarding

CONSTANTS b1, b2, u1, r1, up, p1, q1, v1
=============================================================================
