----------------------------- MODULE MCDownload -----------------------------
EXTENDS Download

CONSTANTS g1, g2, p1, p2

MCRoots == {g1, g2}
MCProducers == {p1, p2}
=============================================================================
