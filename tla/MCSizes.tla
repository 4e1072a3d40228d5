------------------------------ MODULE MCSizes ------------------------------
\* The size tables of both allocators, for TLC.
EXTENDS SlabSizeClass, RpSizeClass
=============================================================================
