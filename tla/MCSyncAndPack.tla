--------------------------- MODULE MCSyncAndPack ---------------------------
EXTENDS SyncAndPack

CONSTANTS g1, g2, p1, p2

MCRoots == {g1, g2}
MCProducers == {p1, p2}
\* a tip on the node's own genesis, two blocks up, and one of a foreign chain
MCTips == {<<g1, p1, p2>>, <<g2, p1>>}
=============================================================================
