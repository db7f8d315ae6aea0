------------------------------- MODULE MCThaw -------------------------------
EXTENDS Thaw

CONSTANTS a1, a2

MCAddresses == {a1, a2}
=============================================================================
