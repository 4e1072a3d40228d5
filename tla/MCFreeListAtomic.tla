------------------------- MODULE MCFreeListAtomic -------------------------
\* Small instances of FreeListAtomic for TLC.
EXTENDS FreeListAtomic, FiniteSets, TLC

CONSTANTS t1, t2, t3, n1, n2, n3

AllThreads == {t1, t2, t3}
TwoThreads == {t1, t2}
LastThread == {t3}
ThreeNodes == {n1, n2, n3}
=============================================================================
