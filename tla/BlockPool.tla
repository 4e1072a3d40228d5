----------------------------- MODULE BlockPool -----------------------------
(***************************************************************************)
(* What an allocator promises: every block it hands out is memory no       *)
(* client has.  BuddyManager.tla and RpHeap.tla are shown to implement it. *)
(***************************************************************************)
CONSTANT Blocks   \* the sets of memory cells that can be one block

VARIABLE inUse    \* the blocks clients have

BInit == inUse = {}

BAlloc(b) ==
  /\ b # {}
  /\ b \cap UNION inUse = {}
  /\ inUse' = inUse \cup {b}

BFree(b) ==
  /\ b \in inUse
  /\ inUse' = inUse \ {b}

BClose == inUse' = {}

BNext == BClose \/ \E b \in Blocks : BAlloc(b) \/ BFree(b)

BSpec == BInit /\ [][BNext]_inUse
=============================================================================
