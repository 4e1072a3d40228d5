-------------------------- MODULE MCBuddyManager --------------------------
\* Small instances of BuddyManager for TLC.
EXTENDS BuddyManager, TLC

CONSTANTS c1, c2, c3, b1, b2, b3

ThreeChunks == {c1, c2, c3}
ThreeMetas == {b1, b2, b3}
AddressSymmetry == Permutations(Chunk) \cup Permutations(Meta)
=============================================================================
