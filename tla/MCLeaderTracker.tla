-------------------------- MODULE MCLeaderTracker --------------------------
EXTENDS LeaderTracker

CONSTANTS v1, v2, v3

\* Two slots each, a different order in every epoch of six.
MCLeader == [s \in Slots |->
  LET turn == (s \div 2 + s \div EpochLen) % 3
  IN  IF turn = 0 THEN v1 ELSE IF turn = 1 THEN v2 ELSE v3]
=============================================================================
