--------------------------- MODULE MCXVMCreator ---------------------------
EXTENDS XVMCreator

CONSTANTS c1, c2, mInit, mInvoke, sym1

MCContracts == {c1, c2}
\* a contract of the current ABI and a legacy one
\* an OptLevel below, at both ends of and above 0..3
MCOptLevels == {-1, 0, 3, 4}
MCExports == (c1 :> {mInit, mInvoke}) @@ (c2 :> {mInvoke})
=============================================================================
