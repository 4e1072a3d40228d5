------------------------- MODULE MCSlabAllocator -------------------------
\* Small instances of SlabAllocator for TLC.
EXTENDS SlabAllocator, TLC

CONSTANTS g1, g2, o1, r1, r2

OnePage == {g1}
TwoPages == {g1, g2}
OwnerOnly == {o1}
OneRemote == {o1, r1}
TwoRemotes == {o1, r1, r2}
=============================================================================
