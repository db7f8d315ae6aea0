---------------------------- MODULE MCLoopTables ----------------------------
EXTENDS LoopTables

CONSTANTS c1, c2, b1, b2, a1, a2

MCCandidates == {c1, c2}
MCBallots == {b1, b2}
MCAddresses == {a1, a2}
=============================================================================
